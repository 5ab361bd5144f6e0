SPECIFICATION FairWatchSpec
CONSTANTS
  Requester = {r1}
  Entries = 2
  Groups = 2
  QuestRetries = 1
  WatchRetries = 1
INVARIANTS
  GateIsHonest
  OneSearchEach
  AtMostOneLeak
  AutoOncePerDay
  SeenIsSearched
PROPERTIES
  EveryCallerGoesOn
  CheckEnds
  SearchedOnce
