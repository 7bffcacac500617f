\* The phases of two objects, a counter and a microwave with a door.
SPECIFICATION Spec
CONSTANTS
  counter = counter
  microwave = microwave
  breadsliced = breadsliced
  Surfaces = {counter}
  Openables = {microwave}
  Objects = {breadsliced, mug}
  Treats <- MicrowaveHeats
  Spells <- SlicedSpells
  Ends <- NothingEnds
  Nowhere = Nowhere
  InHand = InHand
  None = None
INVARIANTS
  FourPhases
