CONSTANTS
  Messages = {"m1", "m2"}
  Events = {"new", "history", "edit1", "edit2", "batch", "react", "remove", "clear"}
  Kind <- As
  Payload <- Given
  MaxFaults = 1
SPECIFICATION Spec
INVARIANTS TypeOK EditsAreHistory HandledIsStored AnnouncedIsStored
PROPERTIES ReactionsInOrder
CHECK_DEADLOCK FALSE
