SPECIFICATION StackSpec
CONSTANTS
  Runs = {p1, p2}
  Keys <- TwoKeys
  Owners <- TwoOwners
  Strangers = {"x"}
  PageSize = 2
INVARIANTS
  StackTypeOK
  SuccessMeansSeeded
  PassMeansBound
  SeededStackPasses
