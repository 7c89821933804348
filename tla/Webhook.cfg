CONSTANTS
  Events = {"received"}
  Tests = {"test"}
  Subs = {"agent"}
  Wanted <- WantsAll
  Concurrency = 1
  BatchSize = 2
  MaxAttempts = 2
  MaxRestarts = 2
  MaxFaults = 1
SPECIFICATION FairSpec
INVARIANTS TypeOK BatchOwned
PROPERTIES BoardSpec EventuallySettled
