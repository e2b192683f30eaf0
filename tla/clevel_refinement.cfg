SPECIFICATION FairSpec
CONSTANTS
  LS = {l1, l2, l3, l4, l5, l6, l7, l8, l9, l10, l11, l12, l13, l14, l15}
  NoLS = NoLS
  MaxCost = 1000
  OLabels = {0, 1, 2}
  LatticeBeam = 2
  GenLattice = TRUE
  UsePool = TRUE
  Networks <- AllNetworks
  Hmms <- MCHmms
  Utterances <- AllUtterances
  MaxUtterances = 2
  LatticeClasses = {"Lattice"}
  Beam = 3
  Band = 2
  GcPeriod = 1
  PruneEps = TRUE
  Costs <- MCCosts
  Weights = {1}
  AmCosts = {0, 1}
  Frames = 3
PROPERTIES
  ImplementsTokenLattice
  Terminates
CHECK_DEADLOCK FALSE
