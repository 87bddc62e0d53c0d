SPECIFICATION FairSpec
CONSTANTS
  MaxPages = 3
  MaxDrops = 2
  MaxQueue = 2
INVARIANTS
  PairingSafe
PROPERTIES
  PairingCompletes
\* An attempt ends paired, rejected or expired.
CHECK_DEADLOCK FALSE
