SPECIFICATION HSpec
CONSTANTS
  LS = {l1, l2, l3, l4, l5, l6, l7, l8, l9, l10, l11, l12, l13, l14, l15, l16, l17}
  NoLS = NoLS
  MaxCost = 1000
  OLabels = {0, 1, 2}
  LatticeBeam = 1
  GenLattice = TRUE
  UsePool = TRUE
  Networks <- AllNetworks
  Hmms <- MCHmms
  Utterances <- AllUtterances
  MaxUtterances = 2
  LatticeClasses = {"Lattice"}
  Beam = 2
  Band = 2
  GcPeriod = 2
  PruneEps = TRUE
  Costs <- MCCosts
  Weights = {0, 1}
  AmCosts = {0, 2}
  Frames = 3
INVARIANTS
  NeverBelowViterbi
  TokensMatchLattice
  ListsCoherent
  NeverFails
CHECK_DEADLOCK FALSE
