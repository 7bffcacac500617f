---------------------------- MODULE ManagersProofs ----------------------------
(***************************************************************************)
(* The two managers, for every configuration.                              *)
(*                                                                         *)
(* AlfWorld: for any number of turns, objects and receptacles, and         *)
(* whatever the model writes, the records of an episode stay aligned, the  *)
(* cumulative belief is what the beliefs of the episode say, and the       *)
(* prompt is made of what it should be.                                    *)
(*                                                                         *)
(* WebShop: for every catalogue, search engine, page size and set of       *)
(* goals, a turn is judged by the pages it is about, and success is        *)
(* decided by what the agent had chosen.                                   *)
(***************************************************************************)
EXTENDS Managers, SequenceTheorems, FiniteSetTheorems, TLAPS

Records ==
  /\ beliefs \in Seq(Beliefs \cup {None})
  /\ buffer \in Seq([obs : Nat])
  /\ \E S : infos \in Seq(S)
  /\ IsFiniteSet(Parsed)

\* What pre_text_obs and the cumulative belief have to do with the records:
\* the one will be saved next, the other was saved last.
Carried ==
  /\ pre = Len(buffer)
  /\ \A k \in DOMAIN buffer : buffer[k].obs = k - 1
  /\ Len(infos) = 0 => cum = FreshCum
  /\ Len(infos) > 0 => cum = infos[Len(infos)]

IInv ==
  Records /\ Carried /\ HistoriesAligned /\ CumulativeIsReplay /\ PromptIsOneTurnBehind

-----------------------------------------------------------------------------
\* An episode as reset leaves it.
Fresh ==
  /\ cum = FreshCum /\ buffer = <<>> /\ pre = 0
  /\ beliefs = <<>> /\ gtLen = 1 /\ stepCount = 0
  /\ infos = <<>> /\ prompt = InitialPrompt

LEMMA FreshIInv == Fresh => IInv
<1> SUFFICES ASSUME Fresh PROVE IInv
  OBVIOUS
<1>0. Len(buffer) = 0 /\ Len(infos) = 0 /\ Len(beliefs) = 0
  BY DEF Fresh
<1>1. Parsed = {}
  BY DEF Fresh, Parsed
<1>2. IsFiniteSet({}) /\ Cardinality({}) = 0
  BY FS_EmptySet
<1>3. Records
  <2>1. infos \in Seq({})
    BY DEF Fresh
  <2> QED BY <1>1, <1>2, <2>1 DEF Fresh, Records
<1>4. Carried
  BY <1>0 DEF Fresh, Carried
<1>5. HistoriesAligned
  BY <1>0, <1>1, <1>2 DEF Fresh, HistoriesAligned
<1>6. CumulativeIsReplay
  <2>1. Listings = {} /\ Phased = {} /\ \A o : Mentions(o) = {}
    BY <1>1 DEF Listings, Phased, Mentions
  <2>2. Latest({}) = {} /\ Named = {} /\ VisitedBy(Len(beliefs)) = {}
    BY <1>1, <2>1 DEF Latest, Named, VisitedBy
  <2>3. cum.objects = <<>> /\ cum.visited = {} /\ cum.candidates = Places /\ cum.phase = "find"
    BY DEF Fresh, FreshCum
  <2>4. DOMAIN cum.objects = {}
    BY <2>3
  <2>5. UNION {VisitedBy(k) : k \in Latest(Listings)} = {}
    BY <2>1, <2>2
  <2> QED BY <2>1, <2>2, <2>3, <2>4, <2>5 DEF CumulativeIsReplay
<1>7. PromptIsOneTurnBehind
  BY <1>0 DEF Fresh, InitialPrompt, PromptIsOneTurnBehind, HistoryLength
<1> QED BY <1>3, <1>4, <1>5, <1>6, <1>7 DEF IInv

-----------------------------------------------------------------------------
(* A turn.                                                                 *)

\* What a turn adds to the beliefs.
LEMMA BeliefsGrow ==
  ASSUME Records, NEW b \in Beliefs \cup {None}, Step(b)
  PROVE  /\ Len(beliefs) \in Nat
         /\ DOMAIN beliefs = 1 .. Len(beliefs)
         /\ beliefs' \in Seq(Beliefs \cup {None})
         /\ DOMAIN beliefs' = 1 .. Len(beliefs) + 1
         /\ Len(beliefs') = Len(beliefs) + 1
         /\ \A k \in 1 .. Len(beliefs) : beliefs'[k] = beliefs[k]
         /\ beliefs'[Len(beliefs) + 1] = b
  BY AppendProperties DEF Records, Step

LEMMA ParsedGrows ==
  ASSUME Records, NEW b \in Beliefs \cup {None}, Step(b)
  PROVE  /\ Parsed \subseteq 1 .. Len(beliefs)
         /\ Parsed' = IF b = None THEN Parsed ELSE Parsed \cup {Len(beliefs) + 1}
         /\ \A k \in Parsed : k \in Nat /\ k < Len(beliefs) + 1 /\ beliefs'[k] = beliefs[k]
<1>1. Parsed' = {k \in 1 .. Len(beliefs) + 1 : beliefs'[k] # None}
  BY BeliefsGrow DEF Parsed
<1>2. Parsed = {k \in 1 .. Len(beliefs) : beliefs[k] # None}
  BY BeliefsGrow DEF Parsed
<1> QED BY <1>1, <1>2, BeliefsGrow

LEMMA RecordsStep ==
  ASSUME IInv, NEW b \in Beliefs \cup {None}, Step(b)
  PROVE  Records' /\ Carried' /\ HistoriesAligned'
<1> USE DEF IInv
<1>1. /\ buffer' \in Seq([obs : Nat]) /\ Len(buffer) \in Nat /\ Len(buffer') = Len(buffer) + 1
      /\ \A k \in 1 .. Len(buffer) : buffer'[k] = buffer[k]
      /\ buffer'[Len(buffer) + 1] = [obs |-> pre]
  <2>1. [obs |-> pre] \in [obs : Nat]
    BY DEF Records, Carried
  <2> QED BY <2>1, AppendProperties DEF Step, Saved, Records
<1>2. PICK S : infos \in Seq(S)
  BY DEF Records
<1>3. infos \in Seq(S \cup {cum'}) /\ Len(infos) \in Nat
  BY <1>2
<1>4. /\ infos' \in Seq(S \cup {cum'}) /\ Len(infos') = Len(infos) + 1
      /\ infos'[Len(infos) + 1] = cum'
  BY <1>3, AppendProperties DEF Step
<1>5. IsFiniteSet(Parsed') /\ Cardinality(Parsed') = stepCount'
  <2>1. Len(beliefs) + 1 \notin Parsed
    BY ParsedGrows, BeliefsGrow
  <2>2. CASE b = None
    BY <2>2, ParsedGrows DEF Records, HistoriesAligned, Step, Counted
  <2>3. CASE b # None
    BY <2>1, <2>3, ParsedGrows, FS_AddElement DEF Records, HistoriesAligned, Step, Counted
  <2> QED BY <2>2, <2>3
<1>6. Records'
  BY <1>1, <1>4, <1>5, BeliefsGrow DEF Records
<1>7. pre' = Len(buffer') /\ gtLen' = Len(buffer') + 1
  BY <1>1 DEF Step, Carried, HistoriesAligned
<1>8. \A k \in DOMAIN buffer' : buffer'[k].obs = k - 1
  <2> SUFFICES ASSUME NEW k \in DOMAIN buffer' PROVE buffer'[k].obs = k - 1
    OBVIOUS
  <2>1. k \in 1 .. Len(buffer) + 1
    BY <1>1
  <2>2. CASE k = Len(buffer) + 1
    BY <1>1, <2>2 DEF Carried
  <2>3. CASE k # Len(buffer) + 1
    <3>1. k \in 1 .. Len(buffer) /\ k \in DOMAIN buffer
      BY <1>1, <2>1, <2>3 DEF Records
    <3> QED BY <1>1, <3>1 DEF Carried
  <2> QED BY <2>2, <2>3
<1>9. Carried'
  BY <1>3, <1>4, <1>7, <1>8 DEF Carried
<1>10. HistoriesAligned'
  BY <1>1, <1>3, <1>4, <1>5, <1>7, BeliefsGrow DEF HistoriesAligned
<1> QED BY <1>6, <1>9, <1>10

\* The turns in which an entry was written: those before, and perhaps this.
LEMMA LatestGrows ==
  ASSUME NEW n \in Nat, NEW S \in SUBSET (1 .. n)
  PROVE  Latest(S \cup {n + 1}) = {n + 1}
<1>1. \A j \in S : j \in Nat /\ j < n + 1
  OBVIOUS
<1>2. ASSUME NEW k \in S \cup {n + 1}
      PROVE  (\A j \in S \cup {n + 1} : j <= k) <=> k = n + 1
  <2>1. CASE k = n + 1
    BY <1>1, <2>1
  <2>2. CASE k \in S
    <3>1. ~(n + 1 <= k)
      BY <1>1, <2>2
    <3> QED BY <1>1, <2>2, <3>1
  <2> QED BY <2>1, <2>2
<1> QED BY <1>2 DEF Latest

LEMMA VisitsGrow ==
  ASSUME IInv, NEW b \in Beliefs \cup {None}, Step(b)
  PROVE  /\ \A k \in Parsed : VisitedBy(k)' = VisitedBy(k)
         /\ \A n : n = Len(beliefs) + 1 =>
              VisitedBy(n)' = IF b = None THEN cum.visited ELSE MergeVisited(b)
<1> PICK n \in Nat : n = Len(beliefs)
  BY BeliefsGrow DEF IInv
<1>0. n \in Nat /\ Records /\ cum.visited = VisitedBy(n)
  BY DEF IInv, CumulativeIsReplay
<1>1. ASSUME NEW m \in 0 .. n PROVE VisitedBy(m)' = VisitedBy(m)
  <2>1. {j \in Parsed' : j <= m /\ beliefs'[j].visited # NotAList}
          = {j \in Parsed : j <= m /\ beliefs[j].visited # NotAList}
    BY <1>0, ParsedGrows
  <2>2. \A k \in Parsed : beliefs'[k] = beliefs[k]
    BY <1>0, ParsedGrows
  <2> QED BY <2>1, <2>2 DEF VisitedBy
<1>2. \A k \in Parsed : k \in 0 .. n
  BY <1>0, ParsedGrows
<1>3. VisitedBy(n + 1)' = IF b = None THEN cum.visited ELSE MergeVisited(b)
  <2> DEFINE old == {j \in Parsed : j <= n /\ beliefs[j].visited # NotAList}
             new == {j \in Parsed' : j <= n + 1 /\ beliefs'[j].visited # NotAList}
  <2>0. VisitedBy(n + 1)' = UNION {beliefs'[k].visited : k \in new}
    BY DEF VisitedBy
  <2>1. VisitedBy(n) = UNION {beliefs'[k].visited : k \in old}
    BY <1>0, ParsedGrows DEF VisitedBy
  <2>2. CASE b = None \/ b.visited = NotAList
    <3>1. new = old
      BY <1>0, <2>2, ParsedGrows, BeliefsGrow
    <3> QED BY <1>0, <2>0, <2>1, <2>2, <3>1 DEF MergeVisited
  <2>3. CASE b # None /\ b.visited # NotAList
    <3>1. new = old \cup {n + 1}
      BY <1>0, <2>3, ParsedGrows, BeliefsGrow
    <3>2. UNION {beliefs'[k].visited : k \in new}
            = (UNION {beliefs'[k].visited : k \in old}) \cup beliefs'[n + 1].visited
      BY <3>1
    <3> QED BY <1>0, <2>0, <2>1, <2>3, <3>2, BeliefsGrow DEF MergeVisited
  <2> QED BY <2>2, <2>3
<1> QED BY <1>0, <1>1, <1>2, <1>3

LEMMA ObjectsStep ==
  ASSUME IInv, NEW b \in Beliefs \cup {None}, Step(b)
  PROVE  /\ DOMAIN cum'.objects = {o \in Things : Mentions(o)' # {}}
         /\ \A o \in Things : \A k \in Latest(Mentions(o)') : cum'.objects[o] = beliefs'[k].objects[o]
<1> DEFINE n == Len(beliefs)
<1>0. n \in Nat /\ n = Len(beliefs) /\ Records
  BY BeliefsGrow DEF IInv
<1>1. ASSUME NEW o
      PROVE  /\ Mentions(o) \subseteq 1 .. n /\ Mentions(o) \subseteq Parsed
             /\ Mentions(o)' = IF b # None /\ o \in DOMAIN b.objects
                               THEN Mentions(o) \cup {n + 1} ELSE Mentions(o)
  BY <1>0, ParsedGrows, BeliefsGrow DEF Mentions
<1>2. ASSUME NEW o, b = None \/ o \notin DOMAIN b.objects
      PROVE  Latest(Mentions(o)') = Latest(Mentions(o))
             /\ \A k \in Latest(Mentions(o)) : beliefs'[k] = beliefs[k]
  BY <1>0, <1>1, <1>2, ParsedGrows DEF Latest
<1>3. CASE b = None
  <2>1. cum' = cum
    BY <1>3 DEF Step
  <2> QED BY <1>1, <1>2, <1>3, <2>1 DEF IInv, CumulativeIsReplay
<1>4. CASE b # None
  <2>1. cum'.objects = MergeDict(cum.objects, b.objects)
    BY <1>4 DEF Step, Merge
  <2>2. DOMAIN b.objects \subseteq Things
    BY <1>4, BeliefAssumption DEF Beliefs
  <2>3. DOMAIN cum.objects = {o \in Things : Mentions(o) # {}}
    BY DEF IInv, CumulativeIsReplay
  <2>4. DOMAIN cum'.objects = DOMAIN cum.objects \cup DOMAIN b.objects
    BY <2>1 DEF MergeDict
  <2>5. DOMAIN cum'.objects = {o \in Things : Mentions(o)' # {}}
    BY <1>1, <1>4, <2>2, <2>3, <2>4
  <2>6. ASSUME NEW o \in Things, NEW k \in Latest(Mentions(o)')
        PROVE  cum'.objects[o] = beliefs'[k].objects[o]
    <3>1. CASE o \in DOMAIN b.objects
      <4>1. k = n + 1
        BY <1>0, <1>1, <1>4, <3>1, <2>6, LatestGrows
      <4> QED BY <1>0, <2>1, <2>4, <3>1, <4>1, BeliefsGrow DEF MergeDict
    <3>2. CASE o \notin DOMAIN b.objects
      <4>1. k \in Latest(Mentions(o)) /\ beliefs'[k] = beliefs[k]
        BY <1>2, <2>6, <3>2
      <4>2. o \in DOMAIN cum.objects /\ cum.objects[o] = beliefs[k].objects[o]
        BY <4>1, <2>3 DEF IInv, CumulativeIsReplay, Latest
      <4> QED BY <2>1, <3>2, <4>1, <4>2 DEF MergeDict
    <3> QED BY <3>1, <3>2
  <2> QED BY <2>5, <2>6
<1> QED BY <1>3, <1>4

LEMMA PhaseStep ==
  ASSUME IInv, NEW b \in Beliefs \cup {None}, Step(b)
  PROVE  /\ Phased' = {} => cum'.phase = "find"
         /\ \A k \in Latest(Phased') : cum'.phase = beliefs'[k].phase
<1> DEFINE n == Len(beliefs)
<1>0. n \in Nat /\ n = Len(beliefs) /\ Records
  BY BeliefsGrow DEF IInv
<1>1. /\ Phased \subseteq 1 .. n /\ Phased \subseteq Parsed
      /\ Phased' = IF b # None /\ b.phase # "" THEN Phased \cup {n + 1} ELSE Phased
  BY <1>0, ParsedGrows, BeliefsGrow DEF Phased
<1>2. CASE b # None /\ b.phase # ""
  <2>1. Phased' # {} /\ Latest(Phased') = {n + 1}
    BY <1>0, <1>1, <1>2, LatestGrows
  <2>2. cum'.phase = b.phase
    BY <1>2 DEF Step, Merge
  <2> QED BY <1>0, <2>1, <2>2, BeliefsGrow
<1>3. CASE b = None \/ b.phase = ""
  <2>1. cum'.phase = cum.phase
    BY <1>3 DEF Step, Merge
  <2>2. Phased' = Phased /\ \A k \in Latest(Phased) : beliefs'[k] = beliefs[k]
    BY <1>0, <1>1, <1>3, ParsedGrows DEF Latest
  <2> QED BY <2>1, <2>2 DEF IInv, CumulativeIsReplay
<1> QED BY <1>2, <1>3

\* The candidates shrink only when a list of candidates comes, by all visits
\* up to that turn.
LEMMA CandidatesStep ==
  ASSUME IInv, NEW b \in Beliefs \cup {None}, Step(b)
  PROVE  cum'.candidates = (Places \cup Named') \ UNION {VisitedBy(k)' : k \in Latest(Listings')}
<1> PICK n \in Nat : n = Len(beliefs)
  BY BeliefsGrow DEF IInv
<1> DEFINE V == UNION {VisitedBy(k) : k \in Latest(Listings)}
<1>0. n \in Nat /\ n = Len(beliefs) /\ Records
  BY BeliefsGrow DEF IInv
<1>1. /\ Listings \subseteq 1 .. n /\ Listings \subseteq Parsed
      /\ Listings' = IF b # None /\ b.candidates # NotAList
                     THEN Listings \cup {n + 1} ELSE Listings
  BY <1>0, ParsedGrows, BeliefsGrow DEF Listings
<1>2. Named = UNION {beliefs'[k].candidates : k \in Listings}
  BY <1>0, <1>1, ParsedGrows DEF Named
<1>3. cum.candidates = (Places \cup Named) \ V /\ cum.visited = VisitedBy(n)
  BY DEF IInv, CumulativeIsReplay
<1>4. CASE b = None \/ b.candidates = NotAList
  <2>1. cum'.candidates = cum.candidates
    BY <1>4 DEF Step, Merge, MergeCandidates
  <2>2. Listings' = Listings /\ Named' = Named
    BY <1>1, <1>2, <1>4 DEF Named
  <2>3. \A k \in Latest(Listings) : VisitedBy(k)' = VisitedBy(k)
    BY <1>1, VisitsGrow DEF Latest
  <2>4. UNION {VisitedBy(k)' : k \in Latest(Listings')} = V
    BY <2>2, <2>3
  <2> QED BY <1>3, <2>1, <2>2, <2>4
<1>5. CASE b # None /\ b.candidates # NotAList
  <2>1. cum'.candidates = (cum.candidates \cup b.candidates) \ MergeVisited(b)
    BY <1>5 DEF Step, Merge, MergeCandidates
  <2>2. Latest(Listings') = {n + 1}
    BY <1>0, <1>1, <1>5, LatestGrows
  <2>3. Named' = Named \cup b.candidates
    <3>1. Named' = UNION {beliefs'[k].candidates : k \in Listings \cup {n + 1}}
      BY <1>1, <1>5 DEF Named
    <3>2. beliefs'[n + 1] = b
      BY <1>0, BeliefsGrow
    <3> QED BY <1>2, <3>1, <3>2
  <2>4. UNION {VisitedBy(k)' : k \in Latest(Listings')} = MergeVisited(b)
    <3>1. VisitedBy(n + 1)' = MergeVisited(b)
      BY <1>5, VisitsGrow
    <3> QED BY <2>2, <3>1
  <2>5. V \subseteq MergeVisited(b)
    <3>1. \A k \in Latest(Listings) : VisitedBy(k) \subseteq VisitedBy(n)
      <4> SUFFICES ASSUME NEW k \in Listings PROVE VisitedBy(k) \subseteq VisitedBy(n)
        BY DEF Latest
      <4>1. k \in Nat /\ k <= n /\ Parsed \subseteq Nat
        BY <1>0, <1>1, ParsedGrows
      <4>2. \A j \in Parsed : j <= k => j <= n
        BY <4>1
      <4> QED BY <4>2 DEF VisitedBy
    <3>2. VisitedBy(n) \subseteq MergeVisited(b)
      BY <1>3 DEF MergeVisited
    <3> QED BY <3>1, <3>2
  <2> HIDE DEF V
  <2> QED BY <1>3, <2>1, <2>3, <2>4, <2>5
<1> QED BY <1>4, <1>5

LEMMA PromptStep ==
  ASSUME IInv, NEW b \in Beliefs \cup {None}, Step(b), Records', Carried', HistoriesAligned'
  PROVE  PromptIsOneTurnBehind'
<1>0. Len(buffer) \in Nat /\ Len(buffer') = Len(buffer) + 1
  BY AppendProperties DEF IInv, Records, Carried, Step, Saved
<1> PICK t \in Nat : t = Len(buffer')
  BY <1>0
<1>a. (IF t > HistoryLength THEN t - HistoryLength + 1 ELSE 1) \in Nat
  BY DEF HistoryLength
<1> PICK from \in Nat : from = IF t > HistoryLength THEN t - HistoryLength + 1 ELSE 1
  BY <1>a
<1>1. /\ t = Len(buffer') /\ t = Len(buffer) + 1 /\ Len(buffer) \in Nat
      /\ buffer' \in Seq([obs : Nat]) /\ DOMAIN buffer' = 1 .. t
  BY <1>0 DEF Records
<1>2. prompt' = [belief |-> cum, window |-> SubSeq(buffer', from, t), obs |-> t]
  BY <1>1 DEF IInv, Carried, Step, PromptOf, Window
<1>3. from \in Int /\ from >= 1 /\ from <= t /\ t - from + 1 = IF t < HistoryLength THEN t ELSE HistoryLength
  <2>1. t \in Nat /\ t >= 1
    BY <1>1
  <2>2. CASE t > 2
    BY <2>1, <2>2 DEF HistoryLength
  <2>3. CASE ~(t > 2)
    BY <2>1, <2>3 DEF HistoryLength
  <2> QED BY <2>2, <2>3
<1>4. /\ SubSeq(buffer', from, t) \in Seq([obs : Nat])
      /\ Len(SubSeq(buffer', from, t)) = t - from + 1
      /\ \A i \in 1 .. t - from + 1 : SubSeq(buffer', from, t)[i] = buffer'[from + i - 1]
  <2>1. ASSUME NEW i \in from .. t PROVE buffer'[i] \in [obs : Nat]
    <3>1. i \in 1 .. Len(buffer')
      BY <1>1, <1>3
    <3> QED BY <1>1, <3>1, ElementOfSeq
  <2>2. from \in Int /\ t \in Int /\ from <= t
    BY <1>1, <1>3
  <2> QED BY <2>1, <2>2, SubSeqProperties
<1>5. \A j \in 1 .. t - from + 1 : prompt'.window[j].obs = t - (t - from + 1) + j - 1
  <2> SUFFICES ASSUME NEW j \in 1 .. t - from + 1
               PROVE  prompt'.window[j].obs = t - (t - from + 1) + j - 1
    OBVIOUS
  <2>1. from + j - 1 \in 1 .. t
    BY <1>1, <1>3
  <2>2. buffer'[from + j - 1].obs = from + j - 1 - 1
    BY <1>1, <2>1 DEF Carried
  <2>3. prompt'.window[j] = buffer'[from + j - 1]
    BY <1>2, <1>4
  <2>4. t - (t - from + 1) + j - 1 = from + j - 1 - 1
    OBVIOUS
  <2> QED BY <2>2, <2>3, <2>4
<1>6. prompt'.belief = CASE t = 0 -> None [] t = 1 -> FreshCum [] OTHER -> infos'[t - 1]
  <2>1. Len(infos) = Len(buffer) /\ Len(infos') = t
    BY <1>1 DEF IInv, HistoriesAligned
  <2>2. PICK S : infos \in Seq(S)
    BY DEF IInv, Records
  <2>3. infos \in Seq(S \cup {cum'})
    BY <2>2
  <2>4. \A k \in 1 .. Len(infos) : infos'[k] = infos[k]
    BY <2>3, AppendProperties DEF Step
  <2>5. CASE t = 1
    BY <1>1, <1>2, <2>1, <2>5 DEF IInv, Carried
  <2>6. CASE t > 1
    <3>1. Len(infos) > 0 /\ t - 1 = Len(infos) /\ t - 1 \in 1 .. Len(infos)
      BY <1>1, <2>1, <2>6
    <3>2. cum = infos[t - 1] /\ infos'[t - 1] = infos[t - 1]
      BY <3>1, <2>4 DEF IInv, Carried
    <3> QED BY <1>1, <1>2, <2>6, <3>2
  <2> QED BY <1>1, <2>5, <2>6
<1>7. DOMAIN prompt'.window = 1 .. t - from + 1 /\ Len(prompt'.window) = t - from + 1
  BY <1>1, <1>2, <1>3, <1>4
<1>8. prompt'.obs = t
  BY <1>2
<1> QED BY <1>3, <1>5, <1>6, <1>7, <1>8 DEF PromptIsOneTurnBehind

LEMMA StepIInv == ASSUME IInv, NEW b \in Beliefs \cup {None}, Step(b) PROVE IInv'
<1>1. Records' /\ Carried' /\ HistoriesAligned'
  BY RecordsStep
<1>2. PromptIsOneTurnBehind'
  BY <1>1, PromptStep
<1>3. cum'.visited = VisitedBy(Len(beliefs))'
  <2>1. cum'.visited = IF b = None THEN cum.visited ELSE MergeVisited(b)
    BY DEF Step, Merge
  <2>2. PICK n : n = Len(beliefs) + 1
    OBVIOUS
  <2>3. VisitedBy(n)' = cum'.visited
    BY <2>1, <2>2, VisitsGrow
  <2>4. n = Len(beliefs')
    BY <2>2, BeliefsGrow DEF IInv
  <2> QED BY <2>3, <2>4
<1>4. CumulativeIsReplay'
  BY <1>3, ObjectsStep, PhaseStep, CandidatesStep DEF CumulativeIsReplay
<1> QED BY <1>1, <1>2, <1>4 DEF IInv

LEMMA Inductive == Spec => []IInv
<1>1. Init => IInv
  BY FreshIInv DEF Init, Fresh
<1>2. IInv /\ [Next]_vars => IInv'
  <2> SUFFICES ASSUME IInv, [Next]_vars PROVE IInv'
    OBVIOUS
  <2>1. CASE Reset
    <3>1. Fresh'
      BY <2>1 DEF Reset, Fresh, CumAtReset, FreshCum, InitialPrompt
    <3>2. Fresh' => IInv'
      BY FreshIInv, PTL
    <3> QED BY <3>1, <3>2
  <2>2. CASE \E b \in Beliefs \cup {None} : Step(b)
    BY <2>2, StepIInv
  <2>3. CASE UNCHANGED vars
    <3>1. /\ Parsed' = Parsed /\ Listings' = Listings /\ Named' = Named /\ Phased' = Phased
          /\ \A o : Mentions(o)' = Mentions(o)
      BY <2>3 DEF vars, Parsed, Listings, Named, Phased, Mentions
    <3>2. \A n : VisitedBy(n)' = VisitedBy(n)
      BY <2>3, <3>1 DEF vars, VisitedBy
    <3>3. VisitedBy(Len(beliefs))' = VisitedBy(Len(beliefs))
      BY <2>3, <3>1 DEF vars, VisitedBy
    <3>4. Records' /\ Carried' /\ HistoriesAligned' /\ PromptIsOneTurnBehind'
      BY <2>3, <3>1 DEF vars, IInv, Records, Carried, HistoriesAligned, PromptIsOneTurnBehind
    <3>5. CumulativeIsReplay'
      <4>1. UNION {VisitedBy(k)' : k \in Latest(Listings')} = UNION {VisitedBy(k) : k \in Latest(Listings)}
        BY <3>1, <3>2
      <4> QED BY <2>3, <3>1, <3>3, <4>1 DEF vars, IInv, CumulativeIsReplay
    <3> QED BY <3>4, <3>5 DEF IInv
  <2> QED BY <2>1, <2>2, <2>3 DEF Next
<1> QED BY <1>1, <1>2, PTL DEF Spec

-----------------------------------------------------------------------------
\* Whatever the model writes, and in whatever order resets come: the records
\* of the episode agree, the cumulative belief is what they say, and the prompt
\* shows the last two turns and the belief of one turn earlier.
THEOREM BeliefIsReplay == EnvsSpec => []EpisodeIsReplayed
<1>1. IInv => EpisodeIsReplayed
  BY DEF IInv, EpisodeIsReplayed
<1>2. EnvsInit => Init
  BY DEF EnvsInit
<1>3. [EnvsNext]_<<envName, vars, shopVars>> => [Next]_vars
  <2>1. UNCHANGED <<envName, vars>> => UNCHANGED vars
    OBVIOUS
  <2>2. UNCHANGED <<envName, vars, shopVars>> => UNCHANGED vars
    OBVIOUS
  <2> QED BY <2>1, <2>2 DEF EnvsNext
<1>4. EnvsSpec => Spec
  BY <1>2, <1>3, PTL DEF EnvsSpec, Spec
<1> QED BY <1>1, <1>4, Inductive, PTL

-----------------------------------------------------------------------------
(* One step of a session.                                                  *)

Names == {OptionOf[v] : v \in Values}
Baskets == UNION {[D -> Values] : D \in SUBSET Names}
Pages == {"index", "search_results", "item_page", "item_sub_page"}
ItemPages == {"item_page", "item_sub_page"}

Session ==
  [at : Pages \cup {"done"}, goal : Goals, keywords : DOMAIN Hits \cup {Nothing},
   page : Int \cup {Nothing}, asin : Products \cup {Nothing}, options : Baskets]

\* What may be on a page: results of a search, and a product that they list.
Sound(s) ==
  /\ s \in Session /\ s.at \in Pages
  /\ s.at # "index" => s.keywords \in DOMAIN Hits /\ s.page \in Int
  /\ s.at = "search_results" => s.options = <<>>
  /\ s.at \in ItemPages => s.asin \in Products /\ s.asin \in OnPage(s.keywords, s.page)

LEMMA ButtonsAreApart ==
  /\ \A x \in Buttons : x \notin Products /\ x \notin Values
  /\ \A x \in Products : x \notin Values /\ x \notin Buttons
  /\ \A x \in Values : x \notin Products /\ x \notin Buttons
  BY ShopAssumption

LEMMA NoChoice == <<>> \in Baskets
<1>1. <<>> \in [{} -> Values]
  OBVIOUS
<1> QED BY <1>1 DEF Baskets

LEMMA OneMoreChoice ==
  ASSUME NEW o \in Baskets, NEW v \in Values
  PROVE  Chosen(o, v) \in Baskets
<1>1. PICK D \in SUBSET Names : o \in [D -> Values]
  BY DEF Baskets
<1>2. D \cup {OptionOf[v]} \in SUBSET Names
  BY DEF Names
<1>3. Chosen(o, v) \in [D \cup {OptionOf[v]} -> Values]
  BY <1>1 DEF Chosen
<1> QED BY <1>2, <1>3 DEF Baskets

LEMMA OnPageProducts ==
  ASSUME NEW q \in DOMAIN Hits, NEW n
  PROVE  OnPage(q, n) \subseteq Products
  BY ShopAssumption DEF OnPage

LEMMA ActionKinds ==
  ASSUME NEW a \in Actions
  PROVE  /\ a.kind = "search" => a.arg \in DOMAIN Hits
         /\ a.kind \in {"search", "click", "other"}
<1>1. \/ \E q \in DOMAIN Hits : \E form : a = Search(q, form)
      \/ \E x : \E form : a = Click(x, form)
      \/ a = OtherText
  <2>1. a \in Searches \/ a \in Clicks \/ a = OtherText
    BY DEF Actions
  <2>2. ASSUME a \in Searches PROVE \E q \in DOMAIN Hits : \E form : a = Search(q, form)
    <3>1. PICK q \in DOMAIN Hits : a \in {Search(q, form) : form \in FormsOf(q)}
      BY <2>2 DEF Searches
    <3> QED BY <3>1
  <2>3. ASSUME a \in Clicks PROVE \E x : \E form : a = Click(x, form)
    <3>1. PICK x \in Buttons \cup Products \cup Values : a \in {Click(x, form) : form \in FormsOf(x)}
      BY <2>3 DEF Clicks
    <3> QED BY <3>1
  <2> QED BY <2>1, <2>2, <2>3
<1>2. ASSUME NEW q \in DOMAIN Hits, NEW form, a = Search(q, form)
      PROVE  a.kind = "search" /\ a.arg \in DOMAIN Hits
  BY <1>2 DEF Search
<1>3. ASSUME NEW x, NEW form, a = Click(x, form) PROVE a.kind = "click"
  BY <1>3 DEF Click
<1>4. a = OtherText => a.kind = "other"
  BY DEF OtherText
<1> QED BY <1>1, <1>2, <1>3, <1>4

LEMMA IndexIsSound ==
  ASSUME NEW g \in Goals
  PROVE  Sound(Index(g)) /\ Index(g).at = "index" /\ Index(g).goal = g
  BY NoChoice DEF Index, Sound, Session, Pages, ItemPages

LEMMA ResultsAreSound ==
  ASSUME NEW s \in Session, NEW q \in DOMAIN Hits, NEW n \in Int
  PROVE  /\ Sound(SearchResults(s, q, n))
         /\ SearchResults(s, q, n).at = "search_results"
         /\ SearchResults(s, q, n).goal = s.goal
  BY NoChoice DEF SearchResults, Sound, Session, Pages, ItemPages

\* What a click that works may do to a page.
ToIndex(s, x, t) == t = Index(s.goal)
ToResults(s, x, t) == \E q \in DOMAIN Hits, n \in Int : t = SearchResults(s, q, n)
Opens(s, x, t) ==
  /\ s.at = "search_results" /\ x \in Products /\ x \in OnPage(s.keywords, s.page)
  /\ t = [s EXCEPT !.at = "item_page", !.asin = x]
Chooses(s, x, t) ==
  /\ s.at = "item_page" /\ x \in Values
  /\ t = [s EXCEPT !.at = "item_page", !.options = Chosen(s.options, x)]
TurnsOver(s, x, t) ==
  /\ s.at \in ItemPages /\ x \notin Products /\ x \notin Values
  /\ \E p \in ItemPages : t = [s EXCEPT !.at = p]
Buys(s, x, t) == s.at = "item_page" /\ x = "buy now" /\ t = Done(s)

LEMMA ClickCases ==
  ASSUME NEW s, Sound(s), NEW x \in Clickables(s), x # "search"
  PROVE  LET t == Clicked(s, x)
         IN  \/ ToIndex(s, x, t) \/ ToResults(s, x, t) \/ Opens(s, x, t)
             \/ Chooses(s, x, t) \/ TurnsOver(s, x, t) \/ Buys(s, x, t)
<1> DEFINE t == Clicked(s, x)
<1>0. s \in Session /\ s.at \in Pages /\ s.at # "index"
  BY DEF Sound, Clickables
<1>1. s.keywords \in DOMAIN Hits /\ s.page \in Int
  BY <1>0 DEF Sound
<1>2. CASE x = "back to search"
  BY <1>2 DEF Clicked, SubPages, ToIndex
<1>3. CASE s.at = "search_results" /\ x # "back to search"
  <2>1. x \in {"next >", "< prev"} \cup OnPage(s.keywords, s.page)
    BY <1>3 DEF Clickables
  <2>2. CASE x = "next >"
    <3>1. t = SearchResults(s, s.keywords, s.page + 1)
      BY <1>3, <2>2 DEF Clicked, SubPages
    <3>2. s.page + 1 \in Int
      BY <1>1
    <3> QED BY <1>1, <3>1, <3>2 DEF ToResults
  <2>3. CASE x = "< prev"
    <3>1. t = SearchResults(s, s.keywords, s.page - 1)
      BY <1>3, <2>3 DEF Clicked, SubPages
    <3>2. s.page - 1 \in Int
      BY <1>1
    <3> QED BY <1>1, <3>1, <3>2 DEF ToResults
  <2>4. CASE x \in OnPage(s.keywords, s.page)
    <3>1. x \in Products /\ x \notin Values /\ x \notin Buttons
      BY <1>1, <2>4, OnPageProducts, ButtonsAreApart
    <3>2. t = ItemPage(s, x)
      BY <3>1 DEF Clicked, Buttons, SubPages
    <3>3. t = [s EXCEPT !.at = "item_page", !.asin = x]
      BY <1>0, <3>1, <3>2 DEF ItemPage, Session
    <3> QED BY <1>3, <2>4, <3>1, <3>3 DEF Opens
  <2> QED BY <2>1, <2>2, <2>3, <2>4
<1>4. CASE s.at = "item_page" /\ x # "back to search"
  <2>0. s.asin \in Products /\ Offers[s.asin] \subseteq Values
    BY <1>4, ShopAssumption DEF Sound, ItemPages
  <2>1. x \in {"< prev", "buy now", "description"} \cup Offers[s.asin]
    BY <1>4 DEF Clickables, SubPages
  <2>2. CASE x = "< prev"
    <3>1. t = SearchResults(s, s.keywords, s.page)
      BY <1>4, <2>2 DEF Clicked, SubPages
    <3> QED BY <1>1, <3>1 DEF ToResults
  <2>3. CASE x = "buy now"
    <3>1. t = Done(s)
      BY <2>3 DEF Clicked, SubPages
    <3> QED BY <1>4, <2>3, <3>1 DEF Buys
  <2>4. CASE x = "description"
    <3>1. t = [s EXCEPT !.at = "item_sub_page"]
      BY <2>4 DEF Clicked, SubPages, ItemSubPage
    <3>2. x \notin Products /\ x \notin Values
      BY <2>4, ButtonsAreApart DEF Buttons
    <3> QED BY <1>4, <3>1, <3>2 DEF TurnsOver, ItemPages
  <2>5. CASE x \in Offers[s.asin]
    <3>1. x \in Values /\ x \notin Products /\ x \notin Buttons
      BY <2>0, <2>5, ButtonsAreApart
    <3>2. t = ItemPage(s, x)
      BY <3>1 DEF Clicked, Buttons, SubPages
    <3>3. t = [s EXCEPT !.at = "item_page", !.options = Chosen(s.options, x)]
      BY <1>0, <3>1, <3>2 DEF ItemPage, Session
    <3> QED BY <1>4, <3>1, <3>3 DEF Chooses
  <2> QED BY <2>1, <2>2, <2>3, <2>4, <2>5
<1>5. CASE s.at = "item_sub_page" /\ x # "back to search"
  <2>1. x = "< prev"
    BY <1>5 DEF Clickables
  <2>2. x \notin Products /\ x \notin Values
    BY <2>1, ButtonsAreApart DEF Buttons
  <2>3. t = ItemPage(s, x)
    BY <1>5, <2>1 DEF Clicked, SubPages
  <2>4. t = [s EXCEPT !.at = "item_page"]
    BY <1>0, <2>2, <2>3 DEF ItemPage, Session
  <2> QED BY <1>5, <2>2, <2>4 DEF TurnsOver, ItemPages
<1> QED BY <1>0, <1>2, <1>3, <1>4, <1>5 DEF Pages

-----------------------------------------------------------------------------
(* What the agent has chosen is what the session holds.                    *)

Choice == [product : Products \cup {Nothing}, options : Baskets]

Agrees(s, c) == s.at \in ItemPages => s.asin = c.product /\ s.options = c.options

\* The page s that answers an action is right if the one before was.
Follows(s, c) ==
  /\ s \in Session /\ s.goal = site.goal /\ c \in Choice
  /\ s.at # "done" => Sound(s) /\ Agrees(s, c)
  /\ s.at = "done" => s.asin = chosen.product /\ s.options = chosen.options /\ s.asin \in Products

LEMMA NoProductYet == NoProduct \in Choice
  BY NoChoice DEF NoProduct, Choice

LEMMA ServedFollows ==
  ASSUME Sound(site), Agrees(site, chosen), chosen \in Choice, NEW a \in Actions
  PROVE  Follows(Served(site, a), ChosenBy(a, Served(site, a)))
<1> DEFINE s == Served(site, a)  c == ChosenBy(a, s)  x == a.arg
<1>0. site \in Session /\ site.at \in Pages /\ site.at # "done" /\ site.goal \in Goals
  BY DEF Sound, Session, Pages
<1>1. CASE ~Acts(site, a)
  <2>1. s = site
    BY <1>1 DEF Served
  <2>2. c \in {NoProduct, chosen} /\ (s.at \in ItemPages => c = chosen)
    BY <1>0, <1>1, <2>1 DEF ChosenBy, ItemPages
  <2> QED BY <1>0, <2>1, <2>2, NoProductYet DEF Follows, Agrees
<1>2. CASE Acts(site, a) /\ a.kind = "search"
  <2>1. s = SearchResults(site, x, 1) /\ x \in DOMAIN Hits
    BY <1>2, ActionKinds DEF Served
  <2>2. Sound(s) /\ s.at = "search_results" /\ s.goal = site.goal
    BY <1>0, <2>1, ResultsAreSound
  <2>3. c = NoProduct
    BY <2>2 DEF ChosenBy
  <2> QED BY <2>2, <2>3, NoProductYet DEF Follows, Agrees, ItemPages, Sound
<1>3. CASE Acts(site, a) /\ a.kind # "search"
  <2>1. s = Clicked(site, x) /\ x \in Clickables(site) /\ x # "search"
    BY <1>3 DEF Served, Acts
  <2>2. \/ ToIndex(site, x, s) \/ ToResults(site, x, s) \/ Opens(site, x, s)
        \/ Chooses(site, x, s) \/ TurnsOver(site, x, s) \/ Buys(site, x, s)
    BY <2>1, ClickCases
  <2>3. CASE ToIndex(site, x, s)
    <3>1. Sound(s) /\ s.at = "index" /\ s.goal = site.goal
      BY <1>0, <2>3, IndexIsSound DEF ToIndex
    <3>2. c = NoProduct
      BY <3>1 DEF ChosenBy
    <3> QED BY <3>1, <3>2, NoProductYet DEF Follows, Agrees, ItemPages, Sound
  <2>4. CASE ToResults(site, x, s)
    <3>1. Sound(s) /\ s.at = "search_results" /\ s.goal = site.goal
      BY <1>0, <2>4, ResultsAreSound DEF ToResults
    <3>2. c = NoProduct
      BY <3>1 DEF ChosenBy
    <3> QED BY <3>1, <3>2, NoProductYet DEF Follows, Agrees, ItemPages, Sound
  <2>5. CASE Opens(site, x, s)
    <3>1. /\ s \in Session /\ s.at = "item_page" /\ s.goal = site.goal /\ s.asin = x
          /\ s.options = <<>> /\ s.keywords = site.keywords /\ s.page = site.page
      BY <1>0, <2>5 DEF Opens, Session, Sound, Pages
    <3>2. Sound(s)
      BY <2>5, <3>1 DEF Opens, Sound, Pages, ItemPages
    <3>3. c = [product |-> x, options |-> <<>>]
      BY <1>3, <2>5, <3>1 DEF Opens, ChosenBy
    <3>4. c \in Choice
      BY <2>5, <3>3, NoChoice DEF Choice, Opens
    <3> QED BY <3>1, <3>2, <3>3, <3>4 DEF Follows, Agrees
  <2>6. CASE Chooses(site, x, s)
    <3>1. Chosen(site.options, x) \in Baskets
      BY <1>0, <2>6, OneMoreChoice DEF Chooses, Session
    <3>2. /\ s \in Session /\ s.at = "item_page" /\ s.goal = site.goal /\ s.asin = site.asin
          /\ s.options = Chosen(site.options, x)
          /\ s.keywords = site.keywords /\ s.page = site.page
      BY <1>0, <2>6, <3>1 DEF Chooses, Session, Pages
    <3>3. Sound(s)
      BY <2>6, <3>2 DEF Chooses, Sound, Pages, ItemPages
    <3>4. x \in Values /\ x \notin Products
      BY <2>6, ButtonsAreApart DEF Chooses
    <3>5. c = [chosen EXCEPT !.options = Chosen(chosen.options, x)]
      BY <1>3, <3>2, <3>4 DEF ChosenBy
    <3>6. chosen.options = site.options /\ chosen.product = site.asin
      BY <2>6 DEF Chooses, Agrees, ItemPages
    <3>7. c \in Choice /\ c.product = s.asin /\ c.options = s.options
      BY <3>1, <3>2, <3>5, <3>6 DEF Choice
    <3> QED BY <3>2, <3>3, <3>7 DEF Follows, Agrees
  <2>7. CASE TurnsOver(site, x, s)
    <3>1. /\ s \in Session /\ s.at \in ItemPages /\ s.goal = site.goal /\ s.asin = site.asin
          /\ s.options = site.options /\ s.keywords = site.keywords /\ s.page = site.page
      BY <1>0, <2>7 DEF TurnsOver, Session, Pages, ItemPages
    <3>2. Sound(s)
      BY <2>7, <3>1 DEF TurnsOver, Sound, Pages, ItemPages
    <3>3. c = chosen
      BY <1>3, <2>7, <3>1 DEF TurnsOver, ChosenBy, ItemPages
    <3> QED BY <2>7, <3>1, <3>2, <3>3 DEF TurnsOver, Follows, Agrees, ItemPages
  <2>8. CASE Buys(site, x, s)
    <3>1. /\ s \in Session /\ s.at = "done" /\ s.goal = site.goal /\ s.asin = site.asin
          /\ s.options = site.options
      BY <1>0, <2>8 DEF Buys, Done, Session, Pages
    <3>2. x \notin Products /\ x \notin Values
      BY <2>8, ButtonsAreApart DEF Buys, Buttons
    <3>3. c = chosen
      BY <1>3, <3>1, <3>2 DEF ChosenBy
    <3>4. site.at \in ItemPages /\ site.asin \in Products
      BY <2>8 DEF Buys, Sound, ItemPages
    <3> QED BY <3>1, <3>3, <3>4 DEF Follows, Agrees
  <2> QED BY <2>2, <2>3, <2>4, <2>5, <2>6, <2>7, <2>8
<1> QED BY <1>1, <1>2, <1>3

-----------------------------------------------------------------------------
(* The invariant of an episode.                                            *)

Settled ==
  /\ ~over => site.goal = task
  /\ over => /\ result.won <=> FullScore(task, result.bought.product, result.bought.options)
             /\ result.bought # NoProduct

ShopInv ==
  /\ Sound(site) /\ Agrees(site, chosen) /\ chosen \in Choice
  /\ over \in BOOLEAN /\ Settled
  /\ lastInfos = Available(site)
  /\ TurnsAreJudgedByTheirPages

ShopFresh ==
  \E g \in Goals :
    /\ site = Index(g) /\ task = g /\ lastInfos = Available(Index(g))
    /\ turn = Nothing /\ over = FALSE /\ chosen = NoProduct

LEMMA FreshShop == ShopFresh => ShopInv
<1> SUFFICES ASSUME NEW g \in Goals,
                    site = Index(g), task = g, lastInfos = Available(Index(g)),
                    turn = Nothing, over = FALSE, chosen = NoProduct
             PROVE  ShopInv
  BY DEF ShopFresh
<1>1. Sound(site) /\ site.at = "index" /\ site.goal = g
  BY IndexIsSound
<1>2. Agrees(site, chosen) /\ chosen \in Choice
  BY <1>1, NoProductYet DEF Agrees, ItemPages
<1>3. TurnsAreJudgedByTheirPages
  BY DEF TurnsAreJudgedByTheirPages, AvailableIsWhatActs, EvidenceKeepsUp
<1> QED BY <1>1, <1>2, <1>3 DEF ShopInv, Settled

\* The action is judged by the page that it was chosen on.
LEMMA ActionIsJudged ==
  ASSUME NEW a \in Actions, Sound(site), lastInfos = Available(site), NEW b, ShopStep(a, b)
  PROVE  AvailableIsWhatActs'
<1> DEFINE x == a.arg
<1> DEFINE button == a.kind = "click" /\ x = "search"
<1>1. /\ turn'.kind = (IF button THEN "search button" ELSE a.kind)
      /\ turn'.form = a.form
      /\ turn'.page = site.at
      /\ turn'.available = ActionAvailable(a, lastInfos)
      /\ turn'.acted = Acts(site, a)
  BY DEF ShopStep, PageOfTheTurn
<1>2. lastInfos.bar = (site.at = "index") /\ lastInfos.clickables = Clickables(site)
  BY DEF Available
<1>4. "search" \in Clickables(site) <=> site.at = "index"
  <2>1. "search" \notin Products /\ "search" \notin Values
    BY ButtonsAreApart DEF Buttons
  <2>2. CASE site.at = "index"
    BY <2>2 DEF Clickables
  <2>3. CASE site.at = "search_results"
    <3>1. "search" \notin OnPage(site.keywords, site.page)
      BY <2>1, <2>3, OnPageProducts DEF Sound
    <3> QED BY <2>3, <3>1 DEF Clickables
  <2>4. CASE site.at = "item_page"
    <3>1. "search" \notin Offers[site.asin]
      BY <2>1, <2>4, ShopAssumption DEF Sound, ItemPages
    <3> QED BY <2>4, <3>1 DEF Clickables, SubPages
  <2>5. CASE site.at = "item_sub_page"
    BY <2>5 DEF Clickables
  <2> QED BY <2>2, <2>3, <2>4, <2>5 DEF Sound, Pages
<1>5. turn'.available <=> /\ a.form # "trailing"
                          /\ \/ a.kind = "search" /\ site.at = "index"
                             \/ a.kind = "click" /\ x \in Clickables(site)
  BY <1>1, <1>2 DEF ActionAvailable
<1>6. turn'.acted <=> /\ a.form # "inexact"
                      /\ \/ a.kind = "search"
                         \/ a.kind = "click" /\ x \in Clickables(site) /\ x # "search"
  BY <1>1 DEF Acts
<1>7. turn'.kind = "other" => a.kind \notin {"search", "click"}
  BY <1>1
<1> QED BY <1>1, <1>4, <1>5, <1>6, <1>7 DEF AvailableIsWhatActs

\* Where the page that answered prints an attribute, the belief is judged by it.
LEMMA KnownIsJudged ==
  ASSUME NEW t, NEW o \in DOMAIN t.attrs, NEW v
  PROVE  Verdict(t, o, v) = IF v = t.attrs[o] THEN "supported" ELSE "contradicted"
<1>1. CASE v # t.attrs[o]
  BY <1>1 DEF Verdict
<1>2. CASE v = t.attrs[o]
  <2>1. {o, v} \cap Evidence(t) # {}
    BY DEF Evidence
  <2> QED BY <1>2, <2>1 DEF Verdict
<1> QED BY <1>1, <1>2

LEMMA BeliefIsJudged ==
  ASSUME NEW a, NEW b, ShopStep(a, b)
  PROVE  EvidenceKeepsUp'
<1> DEFINE s == Served(site, a)
<1>1. turn'.claims = Claims(b) /\ turn'.printed = Printed(s) /\ turn'.verdicts = Verdicts(known', b)
  BY DEF ShopStep
<1>2. known'.attrs = Overlaid(known.attrs, Printed(s))
  BY DEF ShopStep, Track
<1>3. ASSUME NEW o \in DOMAIN Claims(b) \cap DOMAIN Printed(s)
      PROVE  Verdicts(known', b)[o] = IF Claims(b)[o] = Printed(s)[o] THEN "supported" ELSE "contradicted"
  <2>1. o \in DOMAIN known'.attrs /\ known'.attrs[o] = Printed(s)[o]
    BY <1>2, <1>3 DEF Overlaid
  <2>2. Verdicts(known', b)[o] = Verdict(known', o, Claims(b)[o])
    BY <1>3 DEF Verdicts
  <2> QED BY <2>1, <2>2, KnownIsJudged
<1> QED BY <1>1, <1>3 DEF EvidenceKeepsUp

LEMMA ShopStepInv ==
  ASSUME ShopInv, NEW a \in Actions, NEW b, ShopStep(a, b)
  PROVE  ShopInv'
<1> DEFINE s == Served(site, a)  c == ChosenBy(a, s)
<1>0. Sound(site) /\ Agrees(site, chosen) /\ chosen \in Choice /\ over \in BOOLEAN /\ Settled
  BY DEF ShopInv
<1>1. Follows(s, c)
  BY <1>0, ServedFollows
<1>2. /\ site' \in NextSites(s) /\ chosen' = c /\ lastInfos' = Available(site')
      /\ over' = (over \/ s.at = "done") /\ task' = task
      /\ result' = IF s.at = "done" /\ ~over THEN [bought |-> chosen, won |-> Won(s)] ELSE result
  BY DEF ShopStep
<1>3. TurnsAreJudgedByTheirPages'
  BY ActionIsJudged, BeliefIsJudged DEF TurnsAreJudgedByTheirPages, ShopInv
<1>4. chosen' \in Choice /\ over' \in BOOLEAN
  BY <1>0, <1>1, <1>2 DEF Follows
<1>5. CASE s.at # "done"
  <2>1. site' = s /\ over' = over /\ result' = result
    BY <1>0, <1>2, <1>5 DEF NextSites
  <2>2. Sound(site') /\ Agrees(site', chosen') /\ site'.goal = site.goal
    BY <1>1, <1>2, <1>5, <2>1 DEF Follows
  <2>3. Settled'
    BY <1>0, <1>2, <2>1, <2>2 DEF Settled
  <2> QED BY <1>2, <1>3, <1>4, <2>2, <2>3 DEF ShopInv
<1>6. CASE s.at = "done"
  <2>1. over' = TRUE
    BY <1>2, <1>6
  <2>2. PICK g \in Goals : site' = Index(g)
    BY <1>2, <1>6 DEF NextSites
  <2>3. Sound(site') /\ site'.at = "index"
    BY <2>2, IndexIsSound
  <2>4. Agrees(site', chosen')
    BY <2>3 DEF Agrees, ItemPages
  <2>5. s.goal = site.goal /\ s.asin = chosen.product /\ s.options = chosen.options /\ s.asin \in Products
    BY <1>1, <1>6 DEF Follows
  <2>6. Settled'
    <3>1. CASE over
      BY <1>0, <1>2, <2>1, <3>1 DEF Settled
    <3>2. CASE ~over
      <4>1. result' = [bought |-> chosen, won |-> Won(s)]
        BY <1>2, <1>6, <3>2
      <4>2. Won(s) <=> FullScore(task, chosen.product, chosen.options)
        BY <1>0, <1>6, <2>5, <3>2 DEF Won, Settled
      <4>3. chosen # NoProduct
        BY <2>5, ShopAssumption DEF NoProduct
      <4> QED BY <1>2, <2>1, <4>1, <4>2, <4>3 DEF Settled
    <3> QED BY <3>1, <3>2
  <2> QED BY <1>2, <1>3, <1>4, <2>3, <2>4, <2>6 DEF ShopInv
<1> QED BY <1>5, <1>6

LEMMA ShopInductive == EnvsSpec => []ShopInv
<1>1. EnvsInit => ShopInv
  BY FreshShop DEF EnvsInit, ShopInit, ShopFresh
<1>2. ShopInv /\ [EnvsNext]_<<envName, vars, shopVars>> => ShopInv'
  <2> SUFFICES ASSUME ShopInv, [EnvsNext]_<<envName, vars, shopVars>> PROVE ShopInv'
    OBVIOUS
  <2>1. CASE ShopReset
    <3>1. ShopFresh'
      BY <2>1 DEF ShopReset, StartEpisode, ShopFresh
    <3>2. ShopFresh' => ShopInv'
      BY FreshShop, PTL
    <3> QED BY <3>1, <3>2
  <2>2. CASE \E a \in Actions, b \in ShopBeliefs \cup {Nothing} : ShopStep(a, b)
    BY <2>2, ShopStepInv
  <2>3. CASE UNCHANGED shopVars
    BY <2>3 DEF shopVars, ShopInv, Settled, TurnsAreJudgedByTheirPages, AvailableIsWhatActs, EvidenceKeepsUp
  <2>4. UNCHANGED <<envName, vars, shopVars>> => UNCHANGED shopVars
    OBVIOUS
  <2>5. UNCHANGED <<envName, shopVars>> => UNCHANGED shopVars
    OBVIOUS
  <2> QED BY <2>1, <2>2, <2>3, <2>4, <2>5 DEF EnvsNext, ShopNext
<1> QED BY <1>1, <1>2, PTL DEF EnvsSpec

-----------------------------------------------------------------------------
\* In every shop and whatever the agent does, whether its action was available
\* is read off the page of its prompt, and what its belief claims is judged by
\* the page that answered wherever that page prints the attribute.
THEOREM TurnsAreJudged == EnvsSpec => []TurnsAreJudgedByTheirPages
<1>1. ShopInv => TurnsAreJudgedByTheirPages
  BY DEF ShopInv
<1> QED BY <1>1, ShopInductive, PTL

\* In every shop, for every search engine, page size and set of goals: the
\* session holds what the agent has chosen, and success is decided by that and
\* by the task of the prompts, although the shop plays on with another goal.
THEOREM PurchaseIsChosen == EnvsSpec => []PurchaseIsWhatWasChosen
<1>1. ShopInv => PurchaseIsWhatWasChosen
  BY DEF ShopInv, PurchaseIsWhatWasChosen, SessionIsTheAgents, Sound, Agrees, Settled, ItemPages
<1> QED BY <1>1, ShopInductive, PTL
=============================================================================
