SPECIFICATION PlannersSpec
CONSTANTS
  Fm = Fm
  Im = Im
  m = m
  n = n
  PageScope = PageScope
  XObjectNames = {Fm, Im}
  Matrices = {m, n}
  Contents <- MCContents
  Recipes <- MCRecipes
  Requests <- MCRequests
  MaxRequests = 2
INVARIANTS
  WalkerStateIsEnclosing
  StreamsWholeOrAbsent
  SelectionAnswered
  PatchesServeTheirTarget
  KeysIdentifyTransforms
  DecisionsFollowObservations
