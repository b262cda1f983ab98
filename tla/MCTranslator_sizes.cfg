SPECIFICATION Spec
CONSTANTS
  Images <- IndirectFile
  AddrSpace = 65536
  Origin = 32768
PROPERTY SizesAgree
