SPECIFICATION HFairSpec
CONSTANTS
  Graphs <- MCGraphs
  FeatureSets <- MCFeatureSets
  OptionSets <- MCOptionSets
  Huge = 1000
  FirstSize = 2
  HashRatio = 1
  BlockSize = 2
  MaxUtterances = 2
  AcCosts = {0, 2}
  ArcWeights = {0, 2}
INVARIANTS
  RefCountsExact
  ElementsAccounted
  TableFinds
  TokenPathsAreReal
  UnprunedIsViterbi
  BestExpansionSurvives
  ResultIsBest
PROPERTY UtterancesEnd
CHECK_DEADLOCK FALSE
