CONSTANTS
  Media = {"voice"}
  Routed = {"voice"}
  Rank <- VoiceFirst
  Concurrency = 2
  BatchSize = 2
  MaxAttempts = 2
  Backends = {"firebase"}
  Orderly = {}
  MaxRestarts = 2
  MaxFaults = 1
SPECIFICATION FairSpec
INVARIANTS ConcurrencyRespected AttemptsBounded DoneMeansStored
PROPERTIES EventuallyTerminal
