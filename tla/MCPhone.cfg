SPECIFICATION FairSpec
CONSTANTS
  approve = approve
  deny = deny
  Answer <- MCAnswer
  MaxRequest = 2
  maxSent = 1
  MaxReloads = 1
  Faults = {}

INVARIANTS
  OneAnswer
  NoSecondInvitation
  AnswerDurable
PROPERTIES
  TerminalReceiptKept
  NoRevival
  SigningEnds
