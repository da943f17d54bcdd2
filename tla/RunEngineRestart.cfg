CONSTANTS
  Tasks = {1, 2, 3}
  MaxAttempts = 2
  Faults = {"crash", "retry"}
  NoPlan = NoPlan
  Plans <- OnlyChain
SPECIFICATION FairSpec
INVARIANTS
  ControlSound
PROPERTIES
  AttemptsInTurn
  OperationsEnd
  
