SPECIFICATION FairSpec
CONSTANTS
  Registrations <- MCRegistrations
  Normal <- MCNormal
  Numeral <- MCNumeral
  Files <- MCFiles
  Arguments <- MCArguments
  Worlds <- MCWorlds
  MaxCost = 1000
  Base = 3
  Width = 2
INVARIANTS
  OptionsAsSpecified
  ObjectsWellUsed
  RecordsMatchUtterances
  OutcomeJustified
PROPERTIES
  Ends
CHECK_DEADLOCK FALSE
