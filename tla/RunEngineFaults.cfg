CONSTANTS
  Tasks = {1, 2, 3}
  MaxAttempts = 2
  Faults = {"crash", "error", "retry"}
  NoPlan = NoPlan
  Plans <- ChainAndFork
SPECIFICATION Spec
INVARIANTS
  EngineSound
PROPERTIES
  CompletedUndoneByReview
  RecoveryLeavesNoOrphans
