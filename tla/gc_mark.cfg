SPECIFICATION Spec
CONSTANTS
  l1 = l1
  l2 = l2
  l3 = l3
  l4 = l4
  LS = {l1, l2, l3, l4}
  NoLS = NoLS
  MaxCost = 10
  OLabels = {0, 1, 2, 3}
  LatticeBeam = 1
  GenLattice = TRUE
  UsePool = TRUE
  Lattices <- MCLattices
  Tokens <- MCTokens
INVARIANTS
  MarksReachable
  MarksAreReferences
  PartialIsCommon
CHECK_DEADLOCK FALSE
