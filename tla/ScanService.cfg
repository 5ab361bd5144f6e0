SPECIFICATION ServiceSpec
CONSTANTS
  Subscriber = {alice}
  Operator = operator
  Scan = {s1}
  Call = {c1}
  Approval = {a1}
  Spawn = {x1}
  DespawnAt <- MCDespawnAt
  Dates <- MCDates
  Limits <- MCLimits
  DefaultLimit = 1
  DayLength = 2
  MaxRetries = 1
  Grace = 1
  MaxNow = 2
  NoRow = NoRow
  NoPool = NoPool
INVARIANTS
  HalvesAgree
PROPERTIES
  ChargeIsAnswered
  ImplementsLedger
  ImplementsPools
