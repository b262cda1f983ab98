SPECIFICATION RuntimeSpec
CONSTANTS
  Images <- Programs
  AddrSpace = 65536
  Origin = 32768
  StackSize = 4
INVARIANTS
  RuntimeTypeOK
  AssocMirrorsStack
  ControlFlowPreserved
  ReturnsReachable
PROPERTY RunsLikeGuest
