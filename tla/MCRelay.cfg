SPECIFICATION Spec
CONSTANTS
  Conn = {c1, c2, c3, c4}
  RoomId = {r1, r2}
  IP = {i1}
  None = None
  maxRooms = 1
  maxConnsPerIP = 3
SYMMETRY Symmetry
INVARIANTS
  Accounting
  PeersTold
  LossOwed
  ProbeFlagOwned
