CONSTANTS
  Media = {"voice", "photo"}
  Routed = {"voice"}
  Rank <- VoiceFirst
  Concurrency = 2
  BatchSize = 1
  MaxAttempts = 2
  Backends = {"firebase", "noop"}
  Orderly = {"voice", "photo"}
  MaxRestarts = 1
  MaxFaults = 1
SPECIFICATION Spec
INVARIANTS SoleOwner NoLostWake
PROPERTIES BoardSpec
