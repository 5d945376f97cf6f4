SPECIFICATION Spec
CONSTANTS
  Processes = {"client"}
  FirstName = "client"
  Users = {"client_u1", "client_u2"}
  MaxDay = 1
  MaxSessions = 3
  MaxLines = 2
INVARIANTS LinesKept LinesInFileOfDay LinesInOrder
CHECK_DEADLOCK FALSE
