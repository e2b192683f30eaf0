SPECIFICATION FairSpec
CONSTANTS
  Archives <- MCArchives
  Pipelines <- MCPipelines
  Commands <- MCCommands
  Size <- MCSize
  PipeCapacity = 1
  NShortest <- MCNShortest
  Machines <- MCMachines
INVARIANTS
  AnswersMatchQuestions
  PathsPrinted
PROPERTY FilterEnds
CHECK_DEADLOCK FALSE
