SPECIFICATION Spec
CONSTANT CommandLines <- CommandLinesMC
INVARIANTS
  TypeOK
  AllConsumed
  FaultReported
  GetDefined
  RequiredGiven
  FirstInputTranslated
  HelpComesFirst
