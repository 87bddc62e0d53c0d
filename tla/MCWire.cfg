SPECIFICATION Spec
CONSTANTS
  Absent = Absent
  Input <- MCInput
  Typed <- MCTyped
  Document <- MCDocument
  Limit <- MCLimit
  Known <- MCKnown
  Nested <- MCNested
  NestedKnown <- MCNestedKnown
  MaxOptions = 2
  MaxText = 10
  MaxExpires = 9
  MaxSafeInteger = 99
  MaxDepth = 2
  MaxPlaintext = 64
  PadBlock = 8
  Fixed = 3
  Sequence = {1, 99}
  Deadline = {0, 11}
INVARIANTS
  NothingLost
  TranscriptsDistinct
  DecodersAgree
