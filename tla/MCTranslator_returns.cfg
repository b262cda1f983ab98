SPECIFICATION Spec
CONSTANTS
  Images <- SharedReturn
  AddrSpace = 65536
  Origin = 32768
INVARIANT ReturnsRegistered
