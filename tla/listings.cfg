SPECIFICATION Spec
CONSTANTS
  W = W
  Walkers <- OneWalker
  Limits <- JustTwo
  Columns <- TwoColumns
  MaxId = 3
  MaxFaults = 1
INVARIANTS TypeOK NothingMissed NothingRepeated
PROPERTY TotalsCover
