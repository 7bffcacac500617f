---------------------------- MODULE BeliefProofs ----------------------------
(***************************************************************************)
(* Proofs about GroundTruthTracker, for every room, however many objects,  *)
(* receptacles and stations it has, and, in the second half, about the     *)
(* reward for a belief that is held against what it tracked.               *)
(***************************************************************************)
EXTENDS Tracker, TurnReward, ProofLemmas

-----------------------------------------------------------------------------
(* What one observation does to the tables, by name.                       *)

\* A dict update: new entries win, the others stay.
LEMMA Override ==
  ASSUME NEW table, NEW new, NEW x
  PROVE  /\ x \in DOMAIN Updated(table, new) <=> x \in DOMAIN new \/ x \in DOMAIN table
         /\ x \in DOMAIN new => Updated(table, new)[x] = new[x]
         /\ x \notin DOMAIN new /\ x \in DOMAIN table => Updated(table, new)[x] = table[x]
  BY DEF Updated

LEMMA Single ==
  ASSUME NEW yes, NEW x, NEW fact, NEW y, x # y
  PROVE  y \notin DOMAIN OneFact(yes, x, fact)
  BY DEF OneFact

\* The keys of a room's things are told apart by their words.
LEMMA NamesDiffer ==
  ASSUME NEW x, NEW y, NEW z
  PROVE  /\ Plain(x) = Plain(y) <=> x = y
         /\ Plain(x) # The(y)
         /\ Plain(x) # Using(y, z)
  BY DEF Plain, The, Using

LEMMA VisitsAdd ==
  ASSUME NEW obs, UpdateFromObservation(obs), NEW r
  PROVE  /\ Plain(r) \in visited' <=>
              Plain(r) \in visited \/ r \in obs.shows \/ r \in obs.door \cap open'
         /\ Plain(r) \in visible => Plain(r) \in visible'
<1>1. Plain(r) \in Shown(obs) <=> r \in obs.shows
  BY NamesDiffer DEF Shown
<1>2. Plain(r) \in OpenDoors(obs) <=> r \in obs.door \cap open'
  BY NamesDiffer DEF OpenDoors
<1>. QED BY <1>1, <1>2 DEF UpdateFromObservation

LEMMA LocationsUpdate ==
  ASSUME NEW obs, UpdateFromObservation(obs), NEW o
  PROVE  /\ Plain(o) \in DOMAIN objLoc' <=>
              o \in obs.items \/ Plain(o) \in DOMAIN objLoc
         /\ o \in obs.items =>
              objLoc'[Plain(o)] = Plain(CHOOSE r \in obs.shows : TRUE)
         /\ o \notin obs.items /\ Plain(o) \in DOMAIN objLoc =>
              objLoc'[Plain(o)] = objLoc[Plain(o)]
<1> DEFINE listed == [n \in {Plain(p) : p \in obs.items} |->
                        Plain(CHOOSE r \in obs.shows : TRUE)]
           putDown == OneFact(PutMatches(obs), The(obs.obj), The(obs.rec))
<1>1. Plain(o) \in DOMAIN listed <=> o \in obs.items
  BY NamesDiffer
<1>2. Plain(o) \notin DOMAIN putDown
  BY NamesDiffer, Single
<1>3. LocationFacts(obs) = Updated(putDown, listed)
  BY DEF LocationFacts
<1>4. /\ Plain(o) \in DOMAIN LocationFacts(obs) <=> o \in obs.items
      /\ o \in obs.items => LocationFacts(obs)[Plain(o)] = listed[Plain(o)]
  <2> HIDE DEF listed, putDown
  <2> QED BY <1>1, <1>2, <1>3, Override
<1>5. o \in obs.items => listed[Plain(o)] = Plain(CHOOSE r \in obs.shows : TRUE)
  BY <1>1
<1>6. objLoc' = Updated(objLoc, LocationFacts(obs))
  BY DEF UpdateFromObservation, Record
<1> HIDE DEF listed
<1> QED BY <1>4, <1>5, <1>6, Override

LEMMA StatesUpdate ==
  ASSUME NEW obs, UpdateFromObservation(obs), NEW r
  PROVE  /\ Plain(r) \in DOMAIN objState' <=>
              r \in obs.door \/ Plain(r) \in DOMAIN objState
         /\ r \in obs.door =>
              objState'[Plain(r)] = IF r \in open' THEN "open" ELSE "closed"
         /\ r \notin obs.door /\ Plain(r) \in DOMAIN objState =>
              objState'[Plain(r)] = objState[Plain(r)]
<1> DEFINE doors == [n \in {Plain(q) : q \in obs.door} |->
                       IF n \in OpenDoors(obs) THEN "open" ELSE "closed"]
           treated == OneFact(obs.kind = "treat", Using(obs.obj, obs.rec), Treats[obs.rec])
<1>1. Plain(r) \in DOMAIN doors <=> r \in obs.door
  BY NamesDiffer
<1>2. Plain(r) \notin DOMAIN treated
  BY NamesDiffer, Single
<1>3. StateFacts(obs) = Updated(treated, doors)
  BY DEF StateFacts
<1>4. /\ Plain(r) \in DOMAIN StateFacts(obs) <=> r \in obs.door
      /\ r \in obs.door => StateFacts(obs)[Plain(r)] = doors[Plain(r)]
  <2> HIDE DEF doors, treated
  <2> QED BY <1>1, <1>2, <1>3, Override
<1>5. Plain(r) \in OpenDoors(obs) <=> r \in obs.door \cap open'
  BY NamesDiffer DEF OpenDoors
<1>6. r \in obs.door => doors[Plain(r)] = IF r \in open' THEN "open" ELSE "closed"
  BY <1>1, <1>5
<1>7. objState' = Updated(objState, StateFacts(obs))
  BY DEF UpdateFromObservation, Record
<1> HIDE DEF doors
<1> QED BY <1>4, <1>6, <1>7, Override

-----------------------------------------------------------------------------
(* The inductive invariant.                                                *)

\* Every receptacle is known, and visited exactly when its inside was shown.
Seen ==
  /\ shown \subseteq Recs
  /\ \A r \in Recs : Plain(r) \in visible /\ (Plain(r) \in visited <=> r \in shown)

\* The agent has seen the inside of what it stands at, unless it is closed.
\* Examine shows it once more, so it must have counted before.
HereIsSeen == at \in Recs /\ (at \in Surfaces \/ at \in open) => at \in shown

Room ==
  /\ at \in Recs \cup {Nowhere} /\ open \subseteq Openables
  /\ where \in [Objects -> Recs \cup {InHand}]
  /\ \A o \in Objects \ moved : where[o] # InHand

IInv == Room /\ Seen /\ HereIsSeen /\ FactsHoldUntilDisturbed

LEMMA InitIInv == Init => IInv
<1> SUFFICES ASSUME Init PROVE IInv
  OBVIOUS
<1>1. Room /\ HereIsSeen
  BY RoomAssumption DEF Init, Room, HereIsSeen
<1>2. Seen
  BY NamesDiffer DEF Init, Seen
<1>3. FactsHoldUntilDisturbed
  BY DEF Init, FactsHoldUntilDisturbed
<1> QED BY <1>1, <1>2, <1>3 DEF IInv

\* An observation that shows what is there, and only doors as they are,
\* keeps the facts.
LEMMA FactsStep ==
  ASSUME IInv, NEW obs, UpdateFromObservation(obs),
         \A o \in obs.items : obs.shows = {where'[o]},
         \A o \in Objects \ moved' : o \notin moved /\ where'[o] = where[o],
         \A r \in Openables \ obs.door : r \in open' => r \in open
  PROVE  FactsHoldUntilDisturbed'
<1>1. ASSUME NEW o \in Objects \ moved', Plain(o) \in DOMAIN objLoc'
      PROVE  objLoc'[Plain(o)] = Plain(where'[o])
  <2>1. CASE o \in obs.items
    BY <2>1, LocationsUpdate
  <2>2. CASE o \notin obs.items
    BY <1>1, <2>2, LocationsUpdate DEF IInv, FactsHoldUntilDisturbed
  <2> QED BY <2>1, <2>2
<1>2. ASSUME NEW r \in Openables, Plain(r) \in DOMAIN objState',
             objState'[Plain(r)] = "closed"
      PROVE  r \notin open'
  <2>1. CASE r \in obs.door
    BY <1>2, <2>1, StatesUpdate
  <2>2. CASE r \notin obs.door
    BY <1>2, <2>2, StatesUpdate DEF IInv, FactsHoldUntilDisturbed
  <2> QED BY <2>1, <2>2
<1> QED BY <1>1, <1>2 DEF FactsHoldUntilDisturbed

\* An observation shows a receptacle's inside exactly when the game did.
LEMMA SeenStep ==
  ASSUME IInv, NEW obs, UpdateFromObservation(obs), shown' \subseteq Recs,
         \A r \in Recs : r \in shown' <=>
            r \in shown \/ r \in obs.shows \/ r \in obs.door \cap open'
  PROVE  Seen'
  BY VisitsAdd DEF IInv, Seen

-----------------------------------------------------------------------------
(* The observations.                                                       *)

LEMMA SilentShows ==
  Silent.shows = {} /\ Silent.items = {} /\ Silent.door = {}
  BY DEF Silent

LEMMA OthersShow ==
  ASSUME NEW o, NEW rel, NEW r
  PROVE  \A obs \in {FacingObs(r), TakeObs(o, r), PutObs(o, rel, r), TreatObs(o, r)} :
           obs.shows = {} /\ obs.items = {} /\ obs.door = {}
  BY DEF Silent, FacingObs, TakeObs, PutObs, TreatObs

LEMMA FrameShows ==
  ASSUME NEW r
  PROVE  /\ Frame(r).shows = IF HasInside(r) THEN {r} ELSE {}
         /\ Frame(r).items = IF HasInside(r) THEN Inside(r) ELSE {}
         /\ Frame(r).door = {}
  BY DEF Frame, Silent

LEMMA ArrivalShows ==
  ASSUME NEW r
  PROVE  /\ ArrivalObs(r).shows = IF HasInside(r) THEN {r} ELSE {}
         /\ ArrivalObs(r).items = IF HasInside(r) THEN Inside(r) ELSE {}
         /\ ArrivalObs(r).door = IF r \in Openables THEN {r} ELSE {}
  BY DEF ArrivalObs, Frame, Silent

LEMMA OpeningShows ==
  ASSUME NEW r
  PROVE  OpeningObs(r).shows = {} /\ OpeningObs(r).items = {} /\ OpeningObs(r).door = {r}
  BY DEF OpeningObs, Silent

-----------------------------------------------------------------------------

LEMMA StepIInv == IInv /\ [Next]_vars => IInv'
<1> SUFFICES ASSUME IInv, [Next]_vars PROVE IInv'
  OBVIOUS
<1>0. Room /\ Seen /\ HereIsSeen
  BY DEF IInv
<1>1. ASSUME NEW r \in Recs, GoTo(r) PROVE IInv'
  <2> DEFINE obs == ArrivalObs(r)
  <2>1. UpdateFromObservation(obs) /\ at' = r /\ UNCHANGED <<open, where, moved>>
        /\ shown' = IF HasInside(r) THEN shown \cup {r} ELSE shown
    BY <1>1 DEF GoTo
  <2>2. Room' /\ HereIsSeen'
    BY <1>0, <2>1 DEF Room, HereIsSeen, HasInside
  <2>3. FactsHoldUntilDisturbed'
    <3>1. \A o \in obs.items : obs.shows = {where'[o]}
      <4> SUFFICES ASSUME NEW o \in obs.items PROVE obs.shows = {where'[o]}
        OBVIOUS
      <4>1. HasInside(r) /\ obs.shows = {r} /\ o \in Inside(r)
        BY ArrivalShows
      <4>2. where'[o] = r
        BY <4>1 DEF Inside
      <4> QED BY <4>1, <4>2
    <3> HIDE DEF obs
    <3> QED BY <2>1, <3>1, FactsStep
  <2>4. r \in obs.door \cap open' => HasInside(r)
    BY DEF HasInside
  <2>5. \A q \in Recs : q \in obs.shows \cup obs.door => q = r
    BY ArrivalShows
  <2>6. HasInside(r) => r \in obs.shows
    BY ArrivalShows
  <2>7. obs.shows # {} => HasInside(r)
    BY ArrivalShows
  <2> HIDE DEF obs
  <2>8. Seen'
    BY <1>0, <2>1, <2>4, <2>5, <2>6, <2>7, SeenStep DEF Seen
  <2> QED BY <2>2, <2>3, <2>8 DEF IInv
<1>2. CASE OpenDoor
  <2>1. UpdateFromObservation(OpeningObs(at)) /\ at \in Openables
        /\ open' = open \cup {at} /\ shown' = shown \cup {at}
        /\ UNCHANGED <<at, where, moved>>
    BY <1>2 DEF OpenDoor
  <2>2. Room' /\ HereIsSeen'
    BY <1>0, <2>1 DEF Room, HereIsSeen
  <2>3. FactsHoldUntilDisturbed'
    BY <2>1, OpeningShows, FactsStep
  <2>4. Seen'
    BY <1>0, <2>1, OpeningShows, SeenStep DEF Seen, Recs
  <2> QED BY <2>2, <2>3, <2>4 DEF IInv
<1>3. CASE CloseDoor
  <2>1. UpdateFromObservation(Silent) /\ open' = open \ {at}
        /\ UNCHANGED <<at, where, shown, moved>>
    BY <1>3 DEF CloseDoor
  <2>2. Room' /\ HereIsSeen'
    BY <1>0, <2>1 DEF Room, HereIsSeen
  <2>3. FactsHoldUntilDisturbed'
    BY <2>1, SilentShows, FactsStep
  <2>4. Seen'
    BY <1>0, <2>1, SilentShows, SeenStep DEF Seen
  <2> QED BY <2>2, <2>3, <2>4 DEF IInv
<1>4. ASSUME NEW o \in Objects, Take(o) PROVE IInv'
  <2>1. UpdateFromObservation(TakeObs(o, at)) /\ where' = [where EXCEPT ![o] = InHand]
        /\ moved' = moved \cup {o} /\ UNCHANGED <<at, open, shown>>
    BY <1>4 DEF Take
  <2>2. Room' /\ HereIsSeen'
    BY <1>0, <2>1 DEF Room, HereIsSeen
  <2>3. TakeObs(o, at).shows = {} /\ TakeObs(o, at).items = {} /\ TakeObs(o, at).door = {}
    BY OthersShow
  <2>4. FactsHoldUntilDisturbed'
    BY <1>0, <2>1, <2>3, FactsStep DEF Room
  <2>5. Seen'
    BY <1>0, <2>1, <2>3, SeenStep DEF Seen
  <2> QED BY <2>2, <2>4, <2>5 DEF IInv
<1>5. ASSUME NEW o \in Objects, NEW rel \in {"in", "on", "in/on"}, Put(o, rel) PROVE IInv'
  <2>1. UpdateFromObservation(PutObs(o, rel, at)) /\ where' = [where EXCEPT ![o] = at]
        /\ where[o] = InHand /\ at \in Recs /\ UNCHANGED <<at, open, shown, moved>>
    BY <1>5 DEF Put, Held
  <2>2. o \in moved
    BY <1>0, <2>1 DEF Room
  <2>3. Room' /\ HereIsSeen'
    BY <1>0, <2>1, <2>2 DEF Room, HereIsSeen
  <2>4. PutObs(o, rel, at).shows = {} /\ PutObs(o, rel, at).items = {}
        /\ PutObs(o, rel, at).door = {}
    BY OthersShow
  <2>5. FactsHoldUntilDisturbed'
    BY <1>0, <2>1, <2>2, <2>4, FactsStep DEF Room
  <2>6. Seen'
    BY <1>0, <2>1, <2>4, SeenStep DEF Seen
  <2> QED BY <2>3, <2>5, <2>6 DEF IInv
<1>6. ASSUME NEW obs, UpdateFromObservation(obs), UNCHANGED <<at, open, where, shown, moved>>,
             obs.shows = {} /\ obs.items = {} /\ obs.door = {}
      PROVE  IInv'
  <2>1. Room' /\ HereIsSeen'
    BY <1>0, <1>6 DEF Room, HereIsSeen
  <2>2. FactsHoldUntilDisturbed'
    BY <1>6, FactsStep
  <2>3. Seen'
    BY <1>0, <1>6, SeenStep DEF Seen
  <2> QED BY <2>1, <2>2, <2>3 DEF IInv
<1>7. ASSUME NEW o \in Objects, Treat(o) PROVE IInv'
  <2>1. UpdateFromObservation(TreatObs(o, at)) /\ UNCHANGED <<at, open, where, shown, moved>>
    BY <1>7 DEF Treat
  <2>2. TreatObs(o, at).shows = {} /\ TreatObs(o, at).items = {} /\ TreatObs(o, at).door = {}
    BY OthersShow
  <2> QED BY <1>6, <2>1, <2>2
<1>8. CASE Look
  <2>1. UpdateFromObservation(FacingObs(at)) /\ UNCHANGED <<at, open, where, shown, moved>>
    BY <1>8 DEF Look, game, history
  <2>2. FacingObs(at).shows = {} /\ FacingObs(at).items = {} /\ FacingObs(at).door = {}
    BY OthersShow
  <2> QED BY <1>6, <2>1, <2>2
<1>9. CASE Examine
  <2> DEFINE obs == Frame(at)
  <2>1. UpdateFromObservation(obs) /\ UNCHANGED <<at, open, where, shown, moved>>
        /\ at \in Recs
    BY <1>9 DEF Examine, game, history
  <2>2. obs.shows = (IF HasInside(at) THEN {at} ELSE {}) /\ obs.door = {}
        /\ \A o \in obs.items : HasInside(at) /\ where'[o] = at
    BY FrameShows DEF Inside
  <2>3. HasInside(at) => at \in shown
    BY <1>0, <2>1 DEF HereIsSeen, HasInside
  <2> HIDE DEF obs
  <2>4. Room' /\ HereIsSeen'
    BY <1>0, <2>1 DEF Room, HereIsSeen
  <2>5. FactsHoldUntilDisturbed'
    BY <2>1, <2>2, FactsStep
  <2>6. Seen'
    BY <1>0, <2>1, <2>2, <2>3, SeenStep DEF Seen
  <2> QED BY <2>4, <2>5, <2>6 DEF IInv
<1>10. CASE UNCHANGED vars
  BY <1>0, <1>10 DEF vars, game, tracker, history, IInv, Room, Seen, HereIsSeen,
                     FactsHoldUntilDisturbed
<1> QED BY <1>1, <1>2, <1>3, <1>4, <1>5, <1>7, <1>8, <1>9, <1>10 DEF Next

LEMMA Knowing == Spec => []IInv
  BY InitIInv, StepIInv, PTL DEF Spec

-----------------------------------------------------------------------------

\* visited_locations is exactly what the game has shown, in every room.
THEOREM VisitedIsShown == Spec => []CandidatesAreUnseen
<1>1. IInv => CandidatesAreUnseen
  BY DEF IInv, Seen, CandidatesAreUnseen, UnvisitedCandidates
<1> QED BY <1>1, Knowing, PTL

\* A recorded fact is right until the agent disturbs it, and a listing puts
\* right what it disturbed.
THEOREM FactsAreRight == Spec => FactsTrackTheGame
<1>1. IInv => FactsHoldUntilDisturbed
  BY DEF IInv
<1>2. ListingRefreshes
  <2> SUFFICES ASSUME NEW r \in Recs, GoTo(r), HasInside(r), NEW o \in Inside(r)
               PROVE  Plain(o) \in DOMAIN objLoc' /\ objLoc'[Plain(o)] = Plain(r)
    BY DEF ListingRefreshes
  <2>1. UpdateFromObservation(ArrivalObs(r))
    BY DEF GoTo
  <2>2. o \in ArrivalObs(r).items /\ ArrivalObs(r).shows = {r}
    BY ArrivalShows
  <2>3. (CHOOSE q \in {r} : TRUE) = r
    OBVIOUS
  <2> QED BY <2>1, <2>2, <2>3, LocationsUpdate
<1>3. IInv /\ IInv' => FactsHoldUntilDisturbed' /\ ListingRefreshes
  BY <1>1, <1>2 DEF IInv
<1> QED BY <1>3, Knowing, PTL DEF FactsTrackTheGame

LEMMA TreatIsAmong ==
  ASSUME at \in DOMAIN Treats, NEW o \in Held
  PROVE  Command(TreatVerb[Treats[at]], {o, at}) \in TreatCommands
<1> DEFINE verb == TreatVerb[Treats[at]]
           alike == {q \in DOMAIN Treats : Treats[q] = Treats[at]}
           treats == {Command(verb, {x, r}) : x \in Held, r \in alike}
<1>1. TreatCommands = treats
  BY DEF TreatCommands
<1>2. at \in alike
  OBVIOUS
<1> HIDE DEF verb, alike
<1>3. Command(verb, {o, at}) \in treats
  BY ONLY o \in Held, <1>2
<1> HIDE DEF treats
<1>4. Command(verb, {o, at}) \in TreatCommands
  BY <1>1, <1>3
<1> QED BY <1>4 DEF verb

\* A verb of an admissible command is no word that is looked for, except at a
\* station with something in the hand.
LEMMA VerbsAre ==
  ASSUME NEW w \in PhaseWords \cup {"pick_up"}
  PROVE  (\E c \in AdmissibleCommands : c.verb = w) <=>
            Held # {} /\ at \in DOMAIN Treats /\ w = TreatVerb[Treats[at]]
<1>2. ASSUME NEW c \in AdmissibleCommands
      PROVE  \/ c.verb \in {"inventory", "look", "help", "go_to", "open", "close",
                            "examine", "take", "move"}
             \/ c \in TreatCommands
  <2> DEFINE plain == {"inventory", "look", "help", "go_to", "open", "close", "examine",
                       "take", "move"}
             bare == {Command(v, {}) : v \in {"inventory", "look", "help"}}
             going == {Command("go_to", {r}) : r \in Recs \ {at}}
             doors == {Command(v, {r}) : v \in {"open", "close"}, r \in Openables \cap {at}}
             seeing == {Command("examine", {x}) : x \in Held \cup (Recs \cap {at})}
             taking == {Command("take", {o, at}) : o \in {x \in ObjectsInReach : at \in Recs /\ Held = {}}}
             moving == {Command("move", {o, r}) : o \in Held, r \in Recs \cap {at}}
  <2>1. AdmissibleCommands = bare \cup going \cup doors \cup seeing \cup taking \cup moving \cup TreatCommands
    BY DEF AdmissibleCommands, PutVerb
  <2>2. \A d \in bare : d.verb \in plain
    BY DEF Command
  <2>3. \A d \in going : d.verb \in plain
    BY DEF Command
  <2>4. \A d \in doors : d.verb \in plain
    BY DEF Command
  <2>5. \A d \in seeing : d.verb \in plain
    BY DEF Command
  <2>6. \A d \in taking : d.verb \in plain
    BY DEF Command
  <2>7. \A d \in moving : d.verb \in plain
    BY DEF Command
  <2>8. c.verb \in plain \/ c \in TreatCommands
    <3> HIDE DEF plain, bare, going, doors, seeing, taking, moving
    <3> QED BY <1>2, <2>1, <2>2, <2>3, <2>4, <2>5, <2>6, <2>7
  <2> QED BY <2>8
<1>3. w \notin {"inventory", "look", "help", "go_to", "open", "close", "examine", "take", "move"}
  BY DEF PhaseWords
<1>4. TreatCommands \subseteq AdmissibleCommands
  BY DEF AdmissibleCommands
<1>5. ASSUME NEW c \in TreatCommands
      PROVE  Held # {} /\ at \in DOMAIN Treats /\ c.verb = TreatVerb[Treats[at]]
  BY <1>5 DEF Command, TreatCommands
<1>6. Held # {} /\ at \in DOMAIN Treats =>
         \E c \in TreatCommands : c.verb = TreatVerb[Treats[at]]
  <2> SUFFICES ASSUME at \in DOMAIN Treats, NEW o \in Held
               PROVE  \E c \in TreatCommands : c.verb = TreatVerb[Treats[at]]
    OBVIOUS
  <2> DEFINE c == Command(TreatVerb[Treats[at]], {o, at})
  <2>1. c \in TreatCommands
    BY TreatIsAmong
  <2>2. c.verb = TreatVerb[Treats[at]]
    BY DEF Command
  <2> HIDE DEF c
  <2> QED BY <2>1, <2>2
<1> QED BY <1>2, <1>3, <1>4, <1>5, <1>6

\* The phase tells that the agent stands with something at a station, and how the
\* names in reach are spelled; r_task, where no name ends in such a word, the
\* station alone.
THEOREM PhaseIsCoarse == Spec => []PhaseKnowsStationsOnly
<1> DEFINE station == Held # {} /\ at \in DOMAIN Treats
           commands == AdmissibleCommands
           verb == TreatVerb[Treats[at]]
<1>1. station => verb \in {"heat", "cool", "clean"}
  <2>1. ASSUME NEW c \in Conditions PROVE TreatVerb[c] \in {"heat", "cool", "clean"}
    BY DEF TreatVerb, Conditions
  <2> QED BY <2>1, RoomAssumption
<1>2. ASSUME NEW w \in PhaseWords \cup {"pick_up"}
      PROVE  (\E c \in commands : c.verb = w) <=> station /\ w = verb
  BY <1>2, VerbsAre
<1>3. Named(commands) \subseteq Recs \cup Objects
  <2>2. Held \subseteq Objects /\ ObjectsInReach \subseteq Objects /\ DOMAIN Treats \subseteq Recs
        /\ Openables \subseteq Recs
    BY RoomAssumption DEF Held, ObjectsInReach, Recs
  <2>3. ASSUME NEW c \in commands PROVE c.names \subseteq Recs \cup Objects
    <3> DEFINE things == Recs \cup Objects
               bare == {Command(v, {}) : v \in {"inventory", "look", "help"}}
               going == {Command("go_to", {r}) : r \in Recs \ {at}}
               doors == {Command(v, {r}) : v \in {"open", "close"}, r \in Openables \cap {at}}
               seeing == {Command("examine", {x}) : x \in Held \cup (Recs \cap {at})}
               taking == {Command("take", {o, at}) : o \in {x \in ObjectsInReach : at \in Recs /\ Held = {}}}
               moving == {Command("move", {o, r}) : o \in Held, r \in Recs \cap {at}}
    <3>1. AdmissibleCommands = bare \cup going \cup doors \cup seeing \cup taking \cup moving \cup TreatCommands
      BY DEF AdmissibleCommands, PutVerb
    <3>2. \A d \in bare : d.names \subseteq things
      BY DEF Command
    <3>3. \A d \in going : d.names \subseteq things
      BY DEF Command
    <3>4. \A d \in doors : d.names \subseteq things
      BY <2>2 DEF Command
    <3>5. \A d \in seeing : d.names \subseteq things
      BY <2>2 DEF Command
    <3>6. \A d \in taking : d.names \subseteq things
      BY <2>2 DEF Command
    <3>7. \A d \in moving : d.names \subseteq things
      BY <2>2 DEF Command
    <3>8. \A d \in TreatCommands : d.names \subseteq things
      BY <2>2 DEF Command, TreatCommands
    <3>9. c.names \subseteq things
      <4>1. c \in AdmissibleCommands
        BY <2>3
      <4> HIDE DEF things, bare, going, doors, seeing, taking, moving, commands
      <4> QED BY <3>1, <3>2, <3>3, <3>4, <3>5, <3>6, <3>7, <3>8, <4>1
    <3> QED BY <3>9
  <2> QED BY <2>3 DEF Named
<1>4. \A n \in Named(commands) : Spells[n] \subseteq PhaseWords /\ Ends[n] \subseteq PhaseWords
  BY <1>3, RoomAssumption
<1> HIDE DEF station, commands, verb
<1>5. ASSUME NEW w \in PhaseWords, NEW S
      PROVE  InText(w, commands, S) <=>
                (station /\ w = verb) \/ \E n \in Named(commands) : w \in S[n]
  BY <1>2 DEF InText
<1>6. ~InText("pick_up", commands, Spells) /\ ~InText("pick_up", commands, Ends)
  <2>1. ~\E c \in commands : c.verb = "pick_up"
    BY <1>1, <1>2
  <2>2. "pick_up" \notin PhaseWords
    BY DEF PhaseWords
  <2> QED BY <1>4, <2>1, <2>2 DEF InText
<1> DEFINE spelled(T) == \E n \in Named(commands) : Spells[n] \cap T # {}
<1>7. PhaseGT(commands) = IF spelled({"put"}) THEN "place"
                          ELSE IF station \/ spelled(PhaseWords) THEN "transform"
                          ELSE "find"
  <2>1. InText("put", commands, Spells) <=> spelled({"put"})
    <3>1. InText("put", commands, Spells) <=> \E n \in Named(commands) : "put" \in Spells[n]
      BY <1>1, <1>5 DEF PhaseWords
    <3> QED BY <3>1
  <2>2. ~spelled({"put"}) =>
           ((\E w \in {"heat", "cool", "clean", "slice"} : InText(w, commands, Spells))
              <=> station \/ spelled(PhaseWords))
    <3>1. ASSUME NEW w \in {"heat", "cool", "clean", "slice"}, InText(w, commands, Spells)
          PROVE  station \/ spelled(PhaseWords)
      BY <1>5, <3>1 DEF PhaseWords
    <3>2. ASSUME station
          PROVE  \E w \in {"heat", "cool", "clean", "slice"} : InText(w, commands, Spells)
      BY <1>1, <1>5, <3>2 DEF PhaseWords
    <3>3. ASSUME ~spelled({"put"}), spelled(PhaseWords)
          PROVE  \E w \in {"heat", "cool", "clean", "slice"} : InText(w, commands, Spells)
      <4>1. PICK n \in Named(commands) : Spells[n] \cap PhaseWords # {}
        BY <3>3
      <4>2. PICK w \in PhaseWords : w \in Spells[n]
        BY <4>1
      <4>3. w # "put"
        BY <3>3, <4>2
      <4>4. InText(w, commands, Spells)
        BY <1>5, <4>2
      <4> QED BY <4>3, <4>4 DEF PhaseWords
    <3> QED BY <3>1, <3>2, <3>3
  <2> HIDE DEF spelled
  <2> QED BY <1>6, <2>1, <2>2 DEF PhaseGT
<1>8. ASSUME \A n \in Named(commands) : Ends[n] = {}, NEW holding \in BOOLEAN
      PROVE  RewardPhase(commands, holding) = IF station THEN "transform" ELSE "find"
  <2>1. \A w \in PhaseWords : InText(w, commands, Ends) <=> station /\ w = verb
    BY <1>5, <1>8
  <2>2. ~InText("put", commands, Ends)
    BY <1>1, <2>1 DEF PhaseWords
  <2>3. (\E w \in {"heat", "cool", "clean"} : InText(w, commands, Ends)) <=> station
    BY <1>1, <2>1 DEF PhaseWords
  <2> QED BY <1>6, <2>2, <2>3 DEF RewardPhase
<1>9. PhaseKnowsStationsOnly
  BY <1>7, <1>8 DEF PhaseKnowsStationsOnly, station, commands
<1> QED BY <1>9, PTL

-----------------------------------------------------------------------------
(* The belief reward.  Every score is a fraction of counts of finite sets  *)
(* one of which is part of the other.                                      *)

FiniteTable(f) == IsFiniteSet(DOMAIN f)

BeliefTyped ==
  /\ FiniteTable(belief.objects) /\ FiniteTable(belief.states)
  /\ IsFiniteSet(belief.visited) /\ IsFiniteSet(belief.candidates)
  /\ DOMAIN belief = {"objects", "states", "visited", "candidates"}
  /\ gt.objects \in Seq(Things \X Places) /\ gt.states \in Seq(Things \X GTWords) /\ IsFiniteSet(gt.visited)
  /\ turn.weight \in DOMAIN Kept
  /\ "prediction" \in DOMAIN output /\ output.prediction \in Seq(Vocabulary)

\* A part of a whole is between 0 and 1, in sixtieths.
LEMMA FractionIs ==
  ASSUME NEW a \in Nat, NEW b \in Nat, b > 0, a <= b
  PROVE  (Scale * a) \div b \in 0 .. Scale
<1> DEFINE q == (60 * a) \div b
<1>1. b \in Int /\ b > 0 /\ 60 * a \in Nat
  OBVIOUS
<1>2. q \in Int /\ q * b <= 60 * a /\ 60 * a < (q * b) + b
  BY <1>1
<1> HIDE DEF q
<1>3. q >= 0
  <2>1. ASSUME q <= -1 PROVE FALSE
    <3>1. q * b <= (-1) * b
      BY <1>1, <1>2, <2>1
    <3> QED BY <1>1, <1>2, <3>1
  <2> QED BY <1>2, <2>1
<1>4. q <= 60
  <2>1. ASSUME q >= 61 PROVE FALSE
    <3>1. q * b >= 61 * b
      BY <1>1, <1>2, <2>1
    <3> QED BY <1>1, <1>2, <3>1
  <2> QED BY <1>2, <2>1
<1>5. (Scale * a) \div b = q
  BY DEF Scale, q
<1> QED BY <1>2, <1>3, <1>4, <1>5 DEF Scale

LEMMA ScoreIs ==
  ASSUME NEW hits \in Nat, NEW total \in Nat, total > 0
  PROVE  Score(hits, total) \in 0 .. Scale
<1>1. CASE hits >= total
  BY <1>1 DEF Score, Scale
<1>2. CASE ~(hits >= total)
  <2> DEFINE q == (Scale * hits) \div total
  <2>1. q \in 0 .. Scale
    BY <1>2, FractionIs
  <2>2. Score(hits, total) = Scale - q
    BY <1>2 DEF Score
  <2> HIDE DEF q
  <2> QED BY <2>1, <2>2 DEF Scale
<1> QED BY <1>1, <1>2

\* What is missed are some of the facts.
LEMMA MissedIs ==
  ASSUME NEW S, NEW facts \in Seq(S), NEW table
  PROVE  /\ Len(facts) \in Nat
         /\ Cardinality(Missed(facts, table)) \in Nat
<1>1. Len(facts) \in Nat /\ DOMAIN facts = 1 .. Len(facts)
  OBVIOUS
<1>2. Missed(facts, table) \subseteq 1 .. Len(facts)
  BY <1>1 DEF Missed
<1>3. IsFiniteSet(1 .. Len(facts))
  BY <1>1, FS_Interval
<1> QED BY <1>1, <1>2, <1>3, FS_Subset, FS_CardinalityType

LEMMA ObjectsScoreIs == BeliefTyped => ObjectsScore \in 0 .. Scale
<1> SUFFICES ASSUME BeliefTyped PROVE ObjectsScore \in 0 .. Scale
  OBVIOUS
<1> DEFINE known == Len(gt.objects)
           wrong == Cardinality({o \in DOMAIN belief.objects : ContradictsLocation(o)})
           missed == Cardinality(Missed(gt.objects, belief.objects))
<1>1. known \in Nat /\ missed \in Nat
  BY MissedIs DEF BeliefTyped
<1>2. wrong \in Nat
  BY FS_Subset, FS_CardinalityType DEF BeliefTyped, FiniteTable
<1>4. known # 0 => Score(wrong + missed, known) \in 0 .. Scale
  <2> DEFINE hits == wrong + missed
  <2> HIDE DEF known, wrong, missed
  <2>1. hits \in Nat /\ (known # 0 => known > 0)
    BY <1>1, <1>2
  <2> HIDE DEF hits
  <2>2. known # 0 => Score(hits, known) \in 0 .. Scale
    BY <1>1, <2>1, ScoreIs
  <2> QED BY <2>2 DEF hits
<1>5. ObjectsScore \in {24, 36, 30, 0, 42} \/ (known # 0 /\ ObjectsScore = Score(wrong + missed, known))
  BY DEF ObjectsScore
<1> HIDE DEF known, wrong, missed
<1> QED BY <1>4, <1>5 DEF Scale

LEMMA StatesScoreIs == BeliefTyped => StatesScore \in 0 .. Scale
<1> SUFFICES ASSUME BeliefTyped PROVE StatesScore \in 0 .. Scale
  OBVIOUS
<1> DEFINE known == Len(gt.states)
           wrong == Cardinality({o \in DOMAIN belief.states : ContradictsState(o)})
           missed == Cardinality(Missed(gt.states, belief.states))
<1>1. known \in Nat /\ missed \in Nat
  BY MissedIs DEF BeliefTyped
<1>2. wrong \in Nat
  BY FS_Subset, FS_CardinalityType DEF BeliefTyped, FiniteTable
<1>4. known # 0 => Score(wrong + missed, known) \in 0 .. Scale
  <2> DEFINE hits == wrong + missed
  <2> HIDE DEF known, wrong, missed
  <2>1. hits \in Nat /\ (known # 0 => known > 0)
    BY <1>1, <1>2
  <2> HIDE DEF hits
  <2>2. known # 0 => Score(hits, known) \in 0 .. Scale
    BY <1>1, <2>1, ScoreIs
  <2> QED BY <2>2 DEF hits
<1>5. StatesScore \in {30, 36, 0, 42} \/ (known # 0 /\ StatesScore = Score(wrong + missed, known))
  BY DEF StatesScore
<1> HIDE DEF known, wrong, missed
<1> QED BY <1>4, <1>5 DEF Scale

LEMMA VisitedScoreIs == BeliefTyped => VisitedScore \in 0 .. Scale
<1> SUFFICES ASSUME BeliefTyped PROVE VisitedScore \in 0 .. Scale
  OBVIOUS
<1> DEFINE b == belief.visited
           g == gt.visited
           fp == Cardinality(b \ g)
           tp == Cardinality(b \cap g)
           f1 == F1(tp, Cardinality(b), Cardinality(g))
<1>1. IsFiniteSet(b) /\ IsFiniteSet(g)
  BY DEF BeliefTyped
<1>2. fp \in Nat /\ tp \in Nat /\ tp <= Cardinality(b) /\ tp <= Cardinality(g)
      /\ Cardinality(b) \in Nat /\ Cardinality(g) \in Nat
  <2> HIDE DEF b, g
  <2>1. b \ g \in SUBSET b /\ b \cap g \in SUBSET b /\ b \cap g \in SUBSET g
    OBVIOUS
  <2> QED BY <1>1, <2>1, FS_Subset, FS_CardinalityType
<1>3. b # {} => f1 \in 0 .. Scale
  <2> HIDE DEF b, g
  <2> SUFFICES ASSUME b # {} PROVE f1 \in 0 .. Scale
    OBVIOUS
  <2>1. Cardinality(b) > 0
    BY <1>1, <1>2, FS_EmptySet
  <2> DEFINE m == Cardinality(b) + Cardinality(g)
             t == 2 * tp
  <2>2. m \in Nat /\ m > 0 /\ t \in Nat /\ t <= m
    BY <1>2, <2>1
  <2>3. f1 = (Scale * t) \div m
    <3>1. 2 * Scale * tp = Scale * (2 * tp)
      BY <1>2 DEF Scale
    <3> QED BY <3>1 DEF F1
  <2> HIDE DEF m, t, f1
  <2> QED BY <2>2, <2>3, FractionIs
<1>4. \/ VisitedScore \in {30, 36, 18}
      \/ b # {} /\ VisitedScore = IF f1 > 6 * fp THEN f1 - 6 * fp ELSE 0
  BY DEF VisitedScore
<1> HIDE DEF b, g, fp, tp, f1
<1> QED BY <1>2, <1>3, <1>4 DEF Scale

LEMMA CandidatesScoreIs == BeliefTyped => CandidatesScore \in 0 .. Scale
<1> SUFFICES ASSUME BeliefTyped PROVE CandidatesScore \in 0 .. Scale
  OBVIOUS
<1> DEFINE c == belief.candidates
<1>1. IsFiniteSet(c)
  BY DEF BeliefTyped
<1>2. Cardinality(FalseCandidates) \in Nat /\ Cardinality(c) \in Nat
  BY <1>1, FS_Subset, FS_CardinalityType DEF FalseCandidates
<1>3. c # {} => Score(Cardinality(FalseCandidates), Cardinality(c)) \in 0 .. Scale
  <2> HIDE DEF c
  <2>1. c # {} => Cardinality(c) > 0
    BY <1>1, <1>2, FS_EmptySet
  <2> QED BY <1>2, <2>1, ScoreIs
<1>4. \/ CandidatesScore \in {30, 36, 48, 24}
      \/ c # {} /\ CandidatesScore = Score(Cardinality(FalseCandidates), Cardinality(c))
  BY DEF CandidatesScore
<1> HIDE DEF c
<1> QED BY <1>3, <1>4 DEF Scale

LEMMA ScoresAreInUnit == BeliefTyped => ScoresInUnit
<1> SUFFICES ASSUME BeliefTyped PROVE ScoresInUnit
  OBVIOUS
<1>1. /\ ObjectsScore \in 0 .. 60 /\ StatesScore \in 0 .. 60
      /\ VisitedScore \in 0 .. 60 /\ CandidatesScore \in 0 .. 60
  BY ObjectsScoreIs, StatesScoreIs, VisitedScoreIs, CandidatesScoreIs DEF Scale
<1>2. StateReward \in 0 .. 6000
  <2> DEFINE a == ObjectsScore
             b == StatesScore
             c == VisitedScore
             d == CandidatesScore
  <2>1. StateReward = 35 * a + 25 * b + 25 * c + 15 * d
    BY DEF StateReward
  <2>2. a \in 0 .. 60 /\ b \in 0 .. 60 /\ c \in 0 .. 60 /\ d \in 0 .. 60
    BY <1>1
  <2> HIDE DEF a, b, c, d
  <2> QED BY <2>1, <2>2
<1> QED BY <1>1, <1>2 DEF ScoresInUnit, Scale

\* What a function takes a finite set to is finite.
LEMMA ImageIsFinite ==
  ASSUME NEW D, IsFiniteSet(D), NEW f, DOMAIN f = D, f = [x \in D |-> f[x]]
  PROVE  IsFiniteSet({f[x] : x \in D})
<1> DEFINE T == {f[x] : x \in D}
<1>1. f \in Surjection(D, T)
  BY DEF Surjection
<1> HIDE DEF T
<1>2. IsFiniteSet(T)
  BY <1>1, FS_Surjection
<1> QED BY <1>2 DEF T

LEMMA PredRewardIs == BeliefTyped => PredReward \in 0 .. Scale
<1>0. turn.told = <<>> \/ Tokens = <<>> => PredReward = 0 /\ 0 \in 0 .. Scale
  BY DEF PredReward, Scale
<1> SUFFICES ASSUME BeliefTyped, turn.told # <<>>, Tokens # <<>> PROVE PredReward \in 0 .. Scale
  BY <1>0
<1> DEFINE long == {i \in DOMAIN output.prediction : output.prediction[i] \notin Short}
           n == Cardinality(long)
<1>1. long \in SUBSET Int /\ IsFiniteSet(long) /\ n \in Nat
  <2>1. DOMAIN output.prediction = 1 .. Len(output.prediction) /\ Len(output.prediction) \in Nat
    BY DEF BeliefTyped
  <2>2. IsFiniteSet(1 .. Len(output.prediction))
    BY <2>1, FS_Interval
  <2>3. long \in SUBSET (1 .. Len(output.prediction))
    BY <2>1
  <2> QED BY <2>1, <2>2, <2>3, FS_Subset, FS_CardinalityType
<1>2. DOMAIN Tokens = 1 .. n
  <2>1. DOMAIN Ordered(long) = 1 .. n
    <3> HIDE DEF long
    <3> QED BY <1>1, OrderedIs
  <2> QED BY <2>1 DEF Tokens
<1>3. n > 0
  <2>1. ASSUME n = 0 PROVE FALSE
    <3>1. DOMAIN Tokens = {}
      BY <1>2, <2>1
    <3>2. Tokens = <<>>
      <4>1. Tokens = [k \in DOMAIN Tokens |-> Tokens[k]]
        BY DEF Tokens
      <4>2. Tokens = [k \in {} |-> Tokens[k]]
        BY <3>1, <4>1
      <4> QED BY <4>2
    <3> QED BY <3>2
  <2> QED BY <1>1, <2>1
<1> HIDE DEF long, n
<1>4. IsFiniteSet(Singles) /\ Singles # {}
  <2>1. IsFiniteSet(1 .. n)
    BY <1>1, FS_Interval
  <2>2. Singles = {<<i, <<Tokens[i]>>>> : i \in 1 .. n}
    BY <1>2 DEF Singles
  <2>3. IsFiniteSet({<<i, <<Tokens[i]>>>> : i \in 1 .. n})
    <3> DEFINE F == [i \in 1 .. n |-> <<i, <<Tokens[i]>>>>]
    <3>1. IsFiniteSet({F[i] : i \in 1 .. n})
      <4>1. DOMAIN F = 1 .. n /\ F = [i \in 1 .. n |-> F[i]]
        OBVIOUS
      <4> HIDE DEF F
      <4> QED BY <2>1, <4>1, ImageIsFinite
    <3>2. {F[i] : i \in 1 .. n} = {<<i, <<Tokens[i]>>>> : i \in 1 .. n}
      OBVIOUS
    <3> QED BY <3>1, <3>2
  <2>4. 1 \in 1 .. n
    BY <1>1, <1>3
  <2> QED BY <2>2, <2>3, <2>4
<1>5. IsFiniteSet(Bigrams)
  <2>1. IsFiniteSet(1 .. (Len(Tokens) - 1))
    <3>1. Len(Tokens) = n
      BY <1>1, <1>2
    <3> QED BY <1>1, <3>1, FS_Interval
  <2> DEFINE D == 1 .. (Len(Tokens) - 1)
             F == [i \in D |-> <<i, <<Tokens[i], Tokens[i + 1]>>>>]
  <2>2. IsFiniteSet({F[i] : i \in D})
    <3>1. DOMAIN F = D /\ F = [i \in D |-> F[i]]
      OBVIOUS
    <3> HIDE DEF F, D
    <3>2. IsFiniteSet(D)
      BY <2>1 DEF D
    <3> QED BY <3>1, <3>2, ImageIsFinite
  <2>3. {F[i] : i \in D} = Bigrams
    BY DEF Bigrams
  <2> QED BY <2>2, <2>3
<1>6. IsFiniteSet(Features) /\ Features # {}
  <2> DEFINE built == {f \in Singles : f[2][1] \notin Noise} \cup Bigrams
  <2>1. IsFiniteSet(built)
    BY <1>4, <1>5, FS_Subset, FS_Union
  <2>2. Features = IF built = {} THEN Singles ELSE built
    BY DEF Features
  <2> HIDE DEF built
  <2> QED BY <1>4, <2>1, <2>2
<1>7. Found \in SUBSET Features
  BY DEF Found
<1>8. /\ Cardinality(Found) \in Nat /\ Cardinality(Features) \in Nat
      /\ Cardinality(Found) <= Cardinality(Features) /\ Cardinality(Features) > 0
  BY <1>6, <1>7, FS_Subset, FS_CardinalityType, FS_EmptySet
<1> QED BY <1>8, FractionIs DEF PredReward

LEMMA IntrinsicIs ==
  BeliefTyped => Intrinsic - FormatPart \in 0 .. (1000 * Scale * Full)
<1> SUFFICES ASSUME BeliefTyped PROVE Intrinsic - FormatPart \in 0 .. (1000 * Scale * Full)
  OBVIOUS
<1>1. Full \in Nat
  BY TurnAssumption
<1>2. FormatPart \in Int
  BY <1>1 DEF FormatPart, FormatReward, Scale
<1>3. BeliefPart \in 0 .. (1000 * Scale * Full)
  <2> DEFINE kept == Kept[turn.weight]
  <2>1. kept \in [Components -> 0 .. Full]
    BY TurnAssumption DEF BeliefTyped
  <2>2. kept["state"] \in 0 .. Full /\ kept["task"] \in 0 .. Full /\ kept["pred"] \in 0 .. Full
    BY <2>1 DEF Components
  <2>3. StateReward \in 0 .. 6000
    BY ScoresAreInUnit DEF ScoresInUnit, Scale
  <2>4. TaskReward \in 0 .. 1 /\ PredReward \in 0 .. 60
    BY PredRewardIs DEF TaskReward, Scale
  <2> DEFINE w1 == kept["state"]
             w2 == kept["task"]
             w3 == kept["pred"]
  <2>5. BeliefPart = 3 * StateReward * w1 + 400 * 60 * TaskReward * w2 + 300 * PredReward * w3
    BY DEF BeliefPart, Scale
  <2> HIDE DEF w1, w2, w3
  <2>6. w1 \in 0 .. Full /\ w2 \in 0 .. Full /\ w3 \in 0 .. Full
    BY <2>2 DEF w1, w2, w3
  <2> HIDE DEF kept
  <2>7. BeliefPart \in 0 .. 1000 * 60 * Full
    <3> DEFINE a == StateReward
               b == TaskReward
               c == PredReward
    <3>1. a \in 0 .. 6000 /\ b \in 0 .. 1 /\ c \in 0 .. 60
      BY <2>3, <2>4
    <3> HIDE DEF a, b, c
    <3>2. ASSUME NEW x \in Nat, NEW m \in Nat, x <= m, NEW w \in 0 .. Full
          PROVE  x * w \in Nat /\ x * w <= m * Full
      <4>1. x * w <= m * w
        BY <3>2
      <4>2. m * w <= m * Full
        BY <1>1, <3>2
      <4>3. x * w \in Nat /\ m * w \in Nat /\ m * Full \in Nat
        BY <1>1, <3>2
      <4> QED BY <4>1, <4>2, <4>3
    <3> DEFINE p == 3 * a * w1
               q == 400 * 60 * b * w2
               r == 300 * c * w3
    <3>3. p \in Nat /\ p <= 18000 * Full
      <4>1. 3 * a \in Nat /\ 3 * a <= 18000
        BY <3>1
      <4> QED BY <2>6, <3>2, <4>1
    <3>4. q \in Nat /\ q <= 24000 * Full
      <4>1. 400 * 60 * b \in Nat /\ 400 * 60 * b <= 24000
        BY <3>1
      <4> QED BY <2>6, <3>2, <4>1
    <3>5. r \in Nat /\ r <= 18000 * Full
      <4>1. 300 * c \in Nat /\ 300 * c <= 18000
        BY <3>1
      <4> QED BY <2>6, <3>2, <4>1
    <3>6. BeliefPart = p + q + r
      BY <2>5 DEF a, b, c
    <3> HIDE DEF p, q, r
    <3> QED BY <1>1, <3>3, <3>4, <3>5, <3>6
  <2> QED BY <2>7 DEF Scale
<1>4. Intrinsic = BeliefPart + FormatPart \/ Intrinsic = FormatPart
  BY DEF Intrinsic
<1> DEFINE top == 1000 * Scale * Full
<1>5. top \in Nat
  BY <1>1 DEF Scale
<1> HIDE DEF top
<1>6. BeliefPart \in 0 .. top
  BY <1>3 DEF top
<1>7. Intrinsic - FormatPart \in 0 .. top
  BY <1>2, <1>4, <1>5, <1>6
<1> QED BY <1>7 DEF top

LEMMA AssignIs ==
  ASSUME NEW f, FiniteTable(f), NEW x, NEW v
  PROVE  FiniteTable(Assign(f, x, v))
<1>1. DOMAIN Assign(f, x, v) = DOMAIN f \cup {x}
  BY DEF Assign
<1> QED BY <1>1, FS_AddElement DEF FiniteTable

LEMMA FactsAreASequence ==
  ASSUME NEW S, NEW facts, facts \in Facts(S) \/ facts = <<>>
  PROVE  facts \in Seq(Things \X S)
<1>1. CASE facts \in Facts(S)
  <2>1. PICK n \in 0 .. MaxKnown : facts \in [1 .. n -> Things \X S]
    BY <1>1 DEF Facts
  <2>2. n \in Nat
    BY NamesAssumption
  <2> QED BY <2>1, <2>2
<1>2. CASE facts = <<>>
  BY <1>2
<1> QED BY <1>1, <1>2

LEMMA TurnInitTyped == TurnInit => BeliefTyped
<1> SUFFICES ASSUME TurnInit PROVE BeliefTyped
  OBVIOUS
<1>1. DOMAIN <<>> = {} /\ IsFiniteSet({}) /\ IsFiniteSet(Things) /\ IsFiniteSet(Places)
  BY FS_EmptySet, NamesAssumption
<1>2. belief = [objects |-> <<>>, states |-> <<>>, visited |-> {}, candidates |-> {}]
  BY DEF TurnInit, BeliefInit
<1>3. gt.objects \in Seq(Things \X Places)
  <2>1. gt.objects \in Facts(Places) \/ gt.objects = <<>>
    BY DEF TurnInit, BeliefInit
  <2> QED BY <2>1, FactsAreASequence
<1>4. gt.states \in Seq(Things \X GTWords)
  <2>1. gt.states \in Facts(GTWords) \/ gt.states = <<>>
    BY DEF TurnInit, BeliefInit
  <2> QED BY <2>1, FactsAreASequence
<1>5. IsFiniteSet(gt.visited)
  <2>1. gt.visited \in SUBSET Places
    BY DEF TurnInit, BeliefInit
  <2> QED BY <1>1, <2>1, FS_Subset
<1>6. turn.weight \in DOMAIN Kept
  <2>1. CASE turn \in [told : Texts, gamePhase : GamePhases, won : BOOLEAN, weight : DOMAIN Kept]
    BY <2>1
  <2>2. CASE turn = [told |-> <<>>, gamePhase |-> "find", won |-> FALSE, weight |-> Full]
    BY <2>2, TurnAssumption
  <2> QED BY <2>1, <2>2 DEF TurnInit
<1>7. output.prediction = <<>> /\ "prediction" \in DOMAIN output
  <2>1. CASE output \in [acceptedBy : SUBSET Readers, tidy : BOOLEAN, available : BOOLEAN,
                         phase : {""}, prediction : {<<>>}]
    BY <2>1
  <2>2. CASE output = [acceptedBy |-> Readers, tidy |-> TRUE, available |-> TRUE,
                      phase |-> "", prediction |-> <<>>]
    BY <2>2
  <2> QED BY <2>1, <2>2 DEF TurnInit
<1>8. /\ FiniteTable(belief.objects) /\ FiniteTable(belief.states)
      /\ IsFiniteSet(belief.visited) /\ IsFiniteSet(belief.candidates)
      /\ DOMAIN belief = {"objects", "states", "visited", "candidates"}
  BY <1>1, <1>2 DEF FiniteTable
<1>9. output.prediction \in Seq(Vocabulary) /\ "prediction" \in DOMAIN output
  <2>1. <<>> \in Seq(Vocabulary)
    OBVIOUS
  <2> QED BY <1>7, <2>1
<1> QED BY <1>1, <1>3, <1>4, <1>5, <1>6, <1>8, <1>9 DEF BeliefTyped

BeliefFinite ==
  /\ FiniteTable(belief.objects) /\ FiniteTable(belief.states)
  /\ IsFiniteSet(belief.visited) /\ IsFiniteSet(belief.candidates)
  /\ DOMAIN belief = {"objects", "states", "visited", "candidates"}

LEMMA TurnStepTyped == BeliefTyped /\ [TurnNext]_turnVars => BeliefTyped'
<1> SUFFICES ASSUME BeliefTyped, [TurnNext]_turnVars PROVE BeliefTyped'
  OBVIOUS
<1>1. ASSUME BeliefNext, UNCHANGED <<turn, output>> PROVE BeliefTyped'
  <2>1. gt' = gt /\ turn' = turn /\ output' = output
    BY <1>1 DEF BeliefNext, AssertLocation, AssertState, AddVisit, DropVisit, AddCandidate,
                DropCandidate, fixed
  <2>2. BeliefFinite
    BY DEF BeliefTyped, BeliefFinite
  <2>3. ASSUME NEW o, NEW p, AssertLocation(o, p) PROVE BeliefFinite'
    <3>1. belief' = [belief EXCEPT !.objects = Assign(belief.objects, o, p)]
      BY <2>3 DEF AssertLocation
    <3>2. FiniteTable(Assign(belief.objects, o, p))
      BY <2>2, AssignIs DEF BeliefFinite
    <3> QED BY <2>2, <3>1, <3>2 DEF BeliefFinite, FiniteTable
  <2>4. ASSUME NEW o, NEW w, AssertState(o, w) PROVE BeliefFinite'
    <3>1. belief' = [belief EXCEPT !.states = Assign(belief.states, o, w)]
      BY <2>4 DEF AssertState
    <3>2. FiniteTable(Assign(belief.states, o, w))
      BY <2>2, AssignIs DEF BeliefFinite
    <3> QED BY <2>2, <3>1, <3>2 DEF BeliefFinite, FiniteTable
  <2>5. ASSUME NEW p, AddVisit(p) \/ DropVisit(p) PROVE BeliefFinite'
    <3>1. \/ belief' = [belief EXCEPT !.visited = belief.visited \cup {p}]
          \/ belief' = [belief EXCEPT !.visited = belief.visited \ {p}]
      BY <2>5 DEF AddVisit, DropVisit
    <3>2. IsFiniteSet(belief.visited \cup {p}) /\ IsFiniteSet(belief.visited \ {p})
      BY <2>2, FS_AddElement, FS_RemoveElement DEF BeliefFinite
    <3> QED BY <2>2, <3>1, <3>2 DEF BeliefFinite, FiniteTable
  <2>6. ASSUME NEW p, AddCandidate(p) \/ DropCandidate(p) PROVE BeliefFinite'
    <3>1. \/ belief' = [belief EXCEPT !.candidates = belief.candidates \cup {p}]
          \/ belief' = [belief EXCEPT !.candidates = belief.candidates \ {p}]
      BY <2>6 DEF AddCandidate, DropCandidate
    <3>2. IsFiniteSet(belief.candidates \cup {p}) /\ IsFiniteSet(belief.candidates \ {p})
      BY <2>2, FS_AddElement, FS_RemoveElement DEF BeliefFinite
    <3> QED BY <2>2, <3>1, <3>2 DEF BeliefFinite, FiniteTable
  <2>7. BeliefFinite'
    BY <1>1, <2>3, <2>4, <2>5, <2>6 DEF BeliefNext
  <2> QED BY <2>1, <2>7 DEF BeliefTyped, BeliefFinite, FiniteTable
<1>2. ASSUME UNCHANGED <<beliefVars, turn>>, output'.prediction = output.prediction,
             DOMAIN output' = DOMAIN output
      PROVE  BeliefTyped'
  BY <1>2 DEF BeliefTyped, beliefVars, FiniteTable
<1>3. ASSUME NEW w \in Vocabulary, Say(w) PROVE BeliefTyped'
  <2>1. UNCHANGED <<beliefVars, turn>>
    BY <1>3 DEF Say
  <2>2. output'.prediction = Append(output.prediction, w) /\ DOMAIN output' = DOMAIN output
    <3>1. "prediction" \in DOMAIN output
      BY DEF BeliefTyped
    <3> QED BY <1>3, <3>1 DEF Say
  <2>3. output.prediction \in Seq(Vocabulary)
    BY DEF BeliefTyped
  <2>4. output'.prediction \in Seq(Vocabulary)
    BY <2>2, <2>3
  <2> QED BY <2>1, <2>2, <2>4 DEF BeliefTyped, beliefVars, FiniteTable
<1>4. ASSUME NEW p, NamePhase(p) PROVE BeliefTyped'
  <2>1. output'.prediction = output.prediction /\ DOMAIN output' = DOMAIN output
    BY <1>4 DEF NamePhase, BeliefTyped
  <2> QED BY <1>2, <1>4, <2>1 DEF NamePhase
<1> QED BY <1>1, <1>2, <1>3, <1>4 DEF TurnNext, turnVars

\* For any objects, places and ids, however many facts the ground truth has,
\* whatever the model writes and at any weights: every term is between 0 and
\* 1, and a belief that can be read is worth between nothing and 1 beside the
\* reward or penalty of the format.
THEOREM BeliefsPay == TurnSpec => []BeliefsAreWorthWriting
<1>1. BeliefTyped => BeliefsAreWorthWriting
  BY ScoresAreInUnit, PredRewardIs, IntrinsicIs DEF BeliefsAreWorthWriting
<1> QED BY <1>1, TurnInitTyped, TurnStepTyped, PTL DEF TurnSpec
=============================================================================
