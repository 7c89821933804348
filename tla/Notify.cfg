CONSTANTS
  Requests = {"first", "again", "other"}
  Keys = {"k1", "k2"}
  Persons = {"anna"}
  KeyOf <- Duplicated
  PersonOf <- ToOne
  MinuteLimit = 2
  DayLimit = 2
  RecipientLimit = 1
  MaxRestarts = 1
  MaxFaults = 1
SPECIFICATION Spec
INVARIANTS OneHolder SentOnce SentIsTrue RecipientLimited
CHECK_DEADLOCK FALSE
