SPECIFICATION FamilySpec
CONSTANTS
  Chosen = {"rightshifts"}
  Instructions <- AllInstructions
  Cells = {}
  Wild = {}
  InitBytes = {0}
  InitFlags <- BothFlags
  MaxPushed = 0
PROPERTY RightShiftsExact
