CONSTANTS
  Messages = {"m1", "m2"}
  Events = {"new", "edit1", "edit2"}
  Kind <- As
  Payload <- Given
  MaxFaults = 1
SPECIFICATION Spec
INVARIANT LiveRowIsLatest
CHECK_DEADLOCK FALSE
