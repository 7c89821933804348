CONSTANTS
  Chats = {"work", "home"}
  Sessions = {"w1", "w2", "h1"}
  ChatOf <- Chat
  Callers = {"call"}
  Cap = 1
  MaxFailures = 2
SPECIFICATION FairSpec
INVARIANTS TypeOK CapRespected SessionsWatched
PROPERTIES NoGhostTyping SessionsEnd
