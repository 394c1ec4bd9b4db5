CONSTANTS
  a1 = a1
  a2 = a2
  proxy = proxy
  junk = junk
  Address <- MCAddress
  TrustedProxies <- MCTrustedProxies
  Endpoints <- MCEndpoints
  StaticVars <- MCStaticVars
  Contents <- MCContents
  Verdict <- RuleVerdict
  RuleHolds <- Holds
  Errors = {"Timeout"}
  MaxRequests = 3
  Limit = 1
  Window = 2
  MaxTime = 2
SPECIFICATION Spec
INVARIANTS UnauthorisedRunsNothing CountersAddUp
PROPERTIES ClientsKeepTheirBudgets EveryRequestAnswered
CHECK_DEADLOCK FALSE
