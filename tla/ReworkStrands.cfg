CONSTANTS
  Tasks = {1, 2, 3}
  MaxAttempts = 2
  Faults = {}
  NoPlan = NoPlan
  Plans <- OnlyAdvised
SPECIFICATION Spec
INVARIANTS
  PendingWaits
