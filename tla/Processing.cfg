CONSTANTS
  Media = {"voice", "photo"}
  Known = {"voice"}
  Rank <- VoiceFirst
  Concurrency = 2
  BatchSize = 2
  MaxAttempts = 2
  MaxRestarts = 2
  MaxFaults = 1
SPECIFICATION MCSpec
INVARIANTS TypeOK SoleOwner AnnouncedOnce NoLostWake AnnouncedWithResult
PROPERTIES BoardSpec EventuallyTerminal
