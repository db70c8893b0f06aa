\* One run, started, cut off, cancelled and resumed under the eyes of the page.
SPECIFICATION FairSpec
CONSTANTS
  Logs = {1, 2}
  Runs = {r1}
  RingSize = 2
  Limit = 1
  None = None
  MaxEvents = 2
  MaxKills = 1
INVARIANTS
  TypeOK
  CompleteIsTrue
  FeedInOrder
  FeedLosesOnlyOld
  StopsOnVerdict
PROPERTIES
  PollingEnds
CHECK_DEADLOCK FALSE
