SPECIFICATION Spec
CONSTANTS
  approve = approve
  deny = deny
  Answer <- MCAnswer
  MaxRequest = 1
  maxSent = 1
  MaxReloads = 2
  Faults = {"early"}
INVARIANT NoSecondInvitation
