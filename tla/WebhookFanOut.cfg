CONSTANTS
  Events = {"received"}
  Tests = {}
  Subs = {"agent", "audit"}
  Wanted <- WantsAll
  Concurrency = 1
  BatchSize = 2
  MaxAttempts = 2
  MaxRestarts = 0
  MaxFaults = 0
SPECIFICATION Spec
INVARIANTS FansOutToAll
