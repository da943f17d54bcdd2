SPECIFICATION AttemptsSpec

CONSTANTS
    Tasks = {1, 2, 3}
    Plans <- SomePlans
    MaxAttempts = 2
    Hazards = {}
    Writers = {"implement", "verify"}
    MaxStops = 0

INVARIANT StartsFromDependencies
CHECK_DEADLOCK FALSE
