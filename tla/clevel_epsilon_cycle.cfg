SPECIFICATION FairSpec
CONSTANTS
  LS = {l1, l2, l3, l4, l5, l6, l7, l8, l9, l10, l11, l12, l13}
  NoLS = NoLS
  MaxCost = 1000
  OLabels = {0, 1, 2}
  LatticeBeam = 1000
  GenLattice = FALSE
  UsePool = TRUE
  Networks <- CycleNetworks
  Hmms <- MCHmms
  Utterances <- AllUtterances
  MaxUtterances = 1
  LatticeClasses = {"Lattice"}
  Beam = 3
  Band = 100
  GcPeriod = 1
  PruneEps = TRUE
  Costs <- MCCosts
  Weights = {1}
  AmCosts = {0, 1}
  Frames = 2
PROPERTY EpsilonExpansionEnds
CHECK_DEADLOCK FALSE
