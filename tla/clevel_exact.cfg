SPECIFICATION HSpec
CONSTANTS
  LS = {l1, l2, l3, l4, l5, l6, l7, l8, l9, l10, l11, l12, l13, l14, l15, l16, l17, l18, l19, l20, l21, l22, l23, l24, l25, l26}
  NoLS = NoLS
  MaxCost = 1000
  OLabels = {0, 1, 2}
  LatticeBeam = 1000
  GenLattice = FALSE
  UsePool = TRUE
  Networks <- AllNetworks
  Hmms <- MCHmms
  Utterances <- AllUtterances
  MaxUtterances = 1
  LatticeClasses = {"Lattice", "SimpleLattice"}
  Beam = 1000
  Band = 100
  GcPeriod = 1
  PruneEps = TRUE
  Costs <- MCCosts
  Weights = {0, 1}
  AmCosts = {0, 1}
  Frames = 4
INVARIANTS
  ViterbiExact
  BestResult
  TracebackAddsUp
CHECK_DEADLOCK FALSE
