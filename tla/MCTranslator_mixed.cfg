SPECIFICATION Spec
CONSTANTS
  Images <- MixedAndWrap
  AddrSpace = 8
  Origin = 4
INVARIANT TypeOK
INVARIANT LookupNeverFails
INVARIANT TransferLandsOnLabel
INVARIANT SecondPassInBounds
INVARIANT PassesAdvance
INVARIANT ReturnDestsAreContinuations
INVARIANT ErrorsOnlyOutOfStep
INVARIANT WellFormedOutput
PROPERTY Termination
