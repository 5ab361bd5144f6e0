SPECIFICATION FairSpec
CONSTANTS
  Subscriber = {alice}
  Operator = operator
  Scan = {s1}
  x1 = x1
  x2 = x2
  Spawn = {x1, x2}
  DespawnAt <- MCDespawnAt
  Approval = {a1, a2}
  MaxRetries = 1
  Grace = 1
  MaxNow = 4
  NoPool = NoPool
INVARIANT ApprovedIsPublished
