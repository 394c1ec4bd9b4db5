CONSTANTS
  Caller = {c1, c2}
  Gateway = {g1, g2}
  NoGateway = NoGateway
  Source = {a, b, broken, crash}
  Valid = {a, b, crash}
  Crashing = {crash}
SPECIFICATION Spec
INVARIANTS NoGatewayOutOfReach OneGateway GatewayServesFile ErrorIsCurrent
PROPERTY EveryCallSettles
