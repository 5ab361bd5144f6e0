SPECIFICATION FairSpec
CONSTANTS
  Device = {d1, d2}
  d1 = d1
  d2 = d2
  x1 = x1
  r1 = r1
  r2 = r2
  Spawn = {x1}
  Announcement = {a1, a2}
  SpawnOf <- MCSpawnOf
  Registration = {r1, r2}
  Malformed = {r2}
  Unreadable = Unreadable
  Config <- MCConfig
  Handler = {h1, h2}
  Flush = {f1, f2}
  NoRow = NoRow
INVARIANTS
  BatchesAreApart
  AtMostOnce
PROPERTIES
  NewerReplaces
  RemovesOnlyMalformed
  EveryBatchEnds
