CONSTANTS
  Media = {"voice"}
  Known = {"voice"}
  Rank <- VoiceFirst
  Concurrency = 1
  BatchSize = 1
  MaxAttempts = 2
  MaxRestarts = 1
  MaxFaults = 0
SPECIFICATION FairSpec
PROPERTIES ResultIsAnnounced
