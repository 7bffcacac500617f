\* AlfWorld: what the model writes, lists or not, over two turns.
\* WebShop: every session, with a belief each turn.
SPECIFICATION EnvsSpec
CONSTANTS
  apple = apple
  p1 = p1
  p2 = p2
  InHand = InHand
  Places = {p1, p2}
  Things = {apple}
  Phases <- TwoPhases
  ObjectMaps <- SomeObjects
  NotAList = NotAList
  None = None
  AlwaysLists = FALSE
  MaxTurns = 2
  tee = tee
  mug = mug
  red = red
  blue = blue
  mint = mint
  Products = {tee, mug}
  Values = {red, mint}
  OptionOf <- TheOptions
  Offers <- TheOffers
  Goals <- TheGoals
  GoalOptions <- TheGoalOptions
  Suits <- TheSuits
  Hits <- TheHits
  PageSize = 1
  Sloppy <- SomeSloppy
  Nothing = Nothing
  Watched = {"color"}
  Says <- TheDescriptions
  Thankful = {mug}
  ShopBeliefs <- TheBeliefs
  Malformed = Malformed
  MaxPage = 2
INVARIANTS
  EpisodeIsReplayed
  TurnsAreJudgedByTheirPages
  PurchaseIsWhatWasChosen
PROPERTIES
  BeliefsAreSettled
