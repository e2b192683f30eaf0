SPECIFICATION Spec
CONSTANTS
  LS = {ls}
  NoLS = NoLS
  MaxCost = 1000
  IlabelInfos <- MCIlabelInfos
  CentralPosition = 1
  Topology <- MCTopology
  Compute <- MCCompute
  TransitionId <- MCTransitionId
  TransitionCost <- MCTransitionCost
  NumTransitionIds = 500
  Options <- MCOptions
  Scales = {1, 2}
  Networks <- MCNetworks
  MaxCalls = 5
  EntryCosts = {0, 3}
  AcousticCosts <- MCAcousticCosts
  MaxFrames = 5
INVARIANTS
  SharingIsInvisible
  ExpansionIsEager
  LeftToRightIsGeneric
CHECK_DEADLOCK FALSE
