SPECIFICATION Spec
CONSTANTS
  Images <- OutOfFile
  AddrSpace = 65536
  Origin = 32768
PROPERTY BadJumpReported
