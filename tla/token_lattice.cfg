SPECIFICATION Spec
CONSTANTS
  NoLS = NoLS
  LS = {l1, l2, l3}
  OLabels = {0}
  MaxCost = 10
  LatticeBeam = 2
  GenLattice = TRUE
  UsePool = TRUE
  Costs = {0, 1, 2}
  GcChecks = TRUE
SYMMETRY Symmetry
INVARIANTS
  TokensLive
  BackPointersLive
  NoAliasing
  AllocationsBalance
  IndexesArePositions
  OneStart
  ForwardsCostJustified
  BestArcInLattice
PROPERTIES
  GcCollects
CHECK_DEADLOCK FALSE
