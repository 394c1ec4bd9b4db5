CONSTANTS
  Call = {1, 2, 3}
  Nobody = Nobody
  s1 = s1
  s2 = s2
  Source = {s1, s2}
  Requests <- MCRequests
  MaxConnections = 1
SPECIFICATION Spec
INVARIANTS OneEntryPerSource QueriesBounded NoAttemptSkipped
PROPERTIES FallbackStands CallsSettle
