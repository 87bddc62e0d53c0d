SPECIFICATION Spec
CONSTANTS
  Room = {a, b}
  Pointer = {p, q}
  None = None
  MaxRequest = 1
INVARIANTS
  WakeSelects
  SwipeIsOneFingers
PROPERTIES
  OneCardOneAnswer
  CardNotStolen
  PairedKept
