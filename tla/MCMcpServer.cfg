SPECIFICATION Spec
CONSTANTS
  Caller = {c1, c2}
  Direct = {d}
  Attempt = {k1, k2, k3}
  Session = {s1, s2}
  None = None
SYMMETRY Symmetry
INVARIANTS
  AttemptShared
  CodeCurrent
  SessionStable
PROPERTIES
  ApprovalsKeepSession
