SPECIFICATION HSpec
CONSTANTS
  LS = {l1, l2, l3, l4, l5, l6, l7, l8, l9, l10, l11, l12, l13}
  NoLS = NoLS
  MaxCost = 1000
  OLabels = {0, 1, 2}
  LatticeBeam = 1000
  GenLattice = FALSE
  UsePool = TRUE
  Networks <- UnfinishedNetworks
  Hmms <- MCHmms
  Utterances <- AllUtterances
  MaxUtterances = 1
  LatticeClasses = {"Lattice"}
  Beam = 1000
  Band = 100
  GcPeriod = 1
  PruneEps = TRUE
  Costs <- MCCosts
  Weights = {0, 2}
  AmCosts = {0, 1}
  Frames = 3
INVARIANT BackoffFindsBest
CHECK_DEADLOCK FALSE
