SPECIFICATION FairSpec
CONSTANTS
  NbFilters = 3
  MaxInputs = 2
INVARIANTS RefusedHasCycle AcceptedIsAcyclic StackFits
PROPERTY Terminates
CHECK_DEADLOCK FALSE
