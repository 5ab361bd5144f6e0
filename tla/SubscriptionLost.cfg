SPECIFICATION Spec
CONSTANTS
  Call = {c1}
  Job = {j1}
  StaleAfter = 1
  ReplayWindow = 2
  MaxDelay = 2
  Unmarked = Unmarked
  MaxBreaks = 1
  MaxReloads = 1
PROPERTIES
  SubscriptionsSurvive
