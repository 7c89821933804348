CONSTANTS
  Sockets = {"s1", "s2"}
  ExitAfter = 2
  MaxDeaths = 1
  MaxThrows = 1
  Messages = {"m1", "m2", "status"}
  Receiptable = {"m1", "m2"}
  BatchSize = 1
  AckedMax = 1
  KeyFiles = {k1, k2}
  ImportSlice = 1
  LastPairing = 2
  MaxFaults = 1
SPECIFICATION MCSpec
INVARIANTS BotTypeOK OneLiveSocket NothingForgotten AckedOnce
PROPERTIES RenamedIsImported PairingKept ComesBack PairsAfresh
CHECK_DEADLOCK FALSE
