SPECIFICATION FairTopicSpec
CONSTANTS
  Entity = {e1}
  End = {2, 4}
  Malformed = Malformed
  NoRow = NoRow
  NoCopy = NoCopy
  Retention = 0
  Buffer = 1
  DayLength = 2
  MaxTime = 3
  MaxQueue = 2
  MaxRestarts = 1
INVARIANTS
  RelayAgrees
PROPERTIES
  TakesOnlyWhatWasOver
  OverIsSwept
  CreatedIsNew
