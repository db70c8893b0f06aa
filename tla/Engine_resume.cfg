\* Two processes: transient errors, rejections, cancel, a kill between two
\* subdivisions, and the resume that follows.
SPECIFICATION Spec
CONSTANTS
  q1 = q1
  day = day
  am = am
  pm = pm
  today = today
  first1 = first1
  first2 = first2
  last1 = last1
  last2 = last2
  Queries = {q1}
  Windows <- MCWindows
  Span <- MCSpan
  Split <- MCSplit
  Plans <- MCPlans
  PastWindows <- MCPast
  Workers = {w1, w2}
  NoJob = NoJob
  MaxAttempts = 2
  AbortOnPermanent = TRUE
  SubdivideOnTimeout = TRUE
  Precheck = TRUE
  Outcomes = {"ok", "syntax", "error"}
  Crashes = "between_splits"
  MaxRuns = 2
  MaxThrottles = 0
SYMMETRY MCSymmetry
INVARIANTS
  SoleOwner
  LedgerMatchesPool
  DoneHasResult
  NoDoubleCount
  ReturnSettles
  CompleteIsCovered
PROPERTIES
  LifecycleSpec
