SPECIFICATION Spec
CONSTANTS
  approve = approve
  deny = deny
  Answer <- MCOneAnswer
  MaxRequest = 2
  maxSent = 1
  MaxReloads = 1
  Faults = {"storage", "early", "tab"}
CONSTRAINT FirstAnswered
INVARIANTS
  DeliveryTrue
PROPERTIES
  KeepsPromise
  ShownForward
