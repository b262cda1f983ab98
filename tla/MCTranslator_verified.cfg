SPECIFICATION Spec
CONSTANTS
  Images <- LoopToOrigin
  AddrSpace = 65536
  Origin = 32768
INVARIANT OutputVerified
