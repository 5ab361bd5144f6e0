SPECIFICATION FairSpec
CONSTANTS
  Call = {c1, c2}
  Job = {j1, j2}
  StaleAfter = 1
  ReplayWindow = 2
  MaxDelay = 2
  Unmarked = Unmarked
  MaxBreaks = 1
  MaxReloads = 1
INVARIANTS
  HandledAtMostOnce
  AnsweredIsHandled
PROPERTIES
  StuckIsHealed
