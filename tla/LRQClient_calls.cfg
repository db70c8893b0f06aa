\* Two threads share a bucket that gains a token every second tick.
SPECIFICATION FairSpec
CONSTANTS
  Capacity = 2
  Refill = 1
  Cost = 2
  Window = 2
  Calls = {c1, c2}
  PollInterval = 1
  Wall = 1
  Expiry = 1
  Refusals = {"429"}
INVARIANTS
  TypeOK
  RateBound
  NoOrphan
  OneLatePoll
PROPERTIES
  OkIsComplete
  BucketContract
  EveryCallReturns
CHECK_DEADLOCK FALSE
