SPECIFICATION LinkSpec
CONSTANTS
  Conn = {a, p1, p2, p3}
  agentConn = a
  RoomId = {r1}
  IP = {i1}
  None = None
  maxRooms = 1
  maxConnsPerIP = 4
  MaxFaults = 2
\* A client that was closed stays so.
CHECK_DEADLOCK FALSE
INVARIANTS
  OneAttempt
PROPERTIES
  ComesBack
