SPECIFICATION SerialSpec
CONSTANTS
  Subscriber = {alice}
  Scan = {s1, s2}
  Call = {c1, c2}
  Dates <- MCDates
  Limits <- MCLimits
  DefaultLimit = 1
  DayLength = 2
  MaxNow = 4
  NoRow = NoRow
SYMMETRY Symmetry
INVARIANTS
  AccessOnlyByGrant
  CounterInRange
  AnswersAgree
  CountMatchesScans
PROPERTY ImplementsDailyQuota
