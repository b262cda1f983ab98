SPECIFICATION FamilySpec
CONSTANTS
  Chosen = {"arithmetic", "modification", "stack", "addressing"}
  Instructions <- AllInstructions
  Cells = {0, 1, 256, 257, 511}
  Wild = {0, 256}
  InitBytes = {0, 1, 128}
  InitFlags <- BothFlags
  MaxPushed = 2
INVARIANT TypeOK
INVARIANT StackHolds
PROPERTY AdditionExact
PROPERTY SubtractionExact
PROPERTY CompareExact
PROPERTY LeftShiftsExact
PROPERTY PullRestores
PROPERTY WritesStayInPage
