SPECIFICATION Spec
CONSTANTS
  Roots <- MCRoots
  Kind <- MCKind
  Dated <- MCDated
  Broken <- MCBroken
  Starts <- MCStarts
  Requests = {r1, r2, r3}
  Limit = 2
  MaxVersion = 2
  Plans <- MCPlans
SYMMETRY RequestSymmetry
INVARIANTS
  IndexIsFolder
  PagesCoverIndex
  ThumbnailMadeOnce
CHECK_DEADLOCK FALSE
