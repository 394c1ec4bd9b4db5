CONSTANTS
  MaxItems = 3
  MaxCodes = 3
  RouterCalls <- SmallCalls
  RequestTexts <- SmallTexts
  VarsBound <- GatewayBinds
SPECIFICATION Spec
INVARIANTS
  PipesObeyTheirLaws
  ReadsAreAllThereIs
  LayersComputeWhatIsMeant
  AcceptedIsComputable
  UnusedConstantsAreUnused
  AcceptedRoutersStart
  RoutesAreServed
  EditsStayInside
  FormatsSettle
CHECK_DEADLOCK FALSE
