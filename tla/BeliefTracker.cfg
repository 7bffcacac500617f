\* GroundTruthTracker: two objects, a counter and a microwave with a door.
\* RebelRewardCalculator: beliefs about three objects, two of whose ids overlap,
\* and three receptacles; the phase and the prediction of a turn, in any format
\* and at three weights.
SPECIFICATION ClassesSpec
CONSTANTS
  counter = counter
  microwave = microwave
  breadsliced = breadsliced
  Surfaces = {counter}
  Openables = {microwave}
  Objects = {breadsliced, mug}
  Treats <- MicrowaveHeats
  Spells <- SlicedSpells
  Ends <- NothingEnds
  Nowhere = Nowhere
  InHand = InHand
  None = None
  knife = knife
  butterknife = butterknife
  apple = apple
  Things = {knife, butterknife, apple}
  Places = {p1, p2, p3}
  Includes <- KnifeOverlap
  Treatments <- PromptWords
  Carried = Carried
  Unknown = Unknown
  Nothing = Nothing
  MaxKnown = 2
  Vocabulary = {"open", "closed", "drawer", "apple", "1"}
  Short = {"1"}
  Noise = {"open", "closed"}
  Texts <- TwoTexts
  GamePhases = {"find", "transform"}
  Full = 10
  Kept <- ThreeWeights
  MaxWords = 3
INVARIANTS
  CandidatesAreUnseen
  PhaseKnowsStationsOnly
  BeliefsAreWorthWriting
PROPERTIES
  FactsTrackTheGame
  TruthPays
