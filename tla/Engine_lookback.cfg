\* A lookback run is resumed later, when its window has moved.
SPECIFICATION Spec
CONSTANTS
  q1 = q1
  day = day
  am = am
  pm = pm
  today = today
  first1 = first1
  first2 = first2
  last1 = last1
  last2 = last2
  Queries = {q1}
  Windows <- DriftWindows
  Span <- DriftSpan
  Split <- DriftSplit
  Plans <- DriftPlans
  PastWindows = {}
  Workers = {w1, w2}
  NoJob = NoJob
  MaxAttempts = 2
  AbortOnPermanent = TRUE
  SubdivideOnTimeout = TRUE
  Precheck = FALSE
  Outcomes = {"ok"}
  Crashes = "never"
  MaxRuns = 2
  MaxThrottles = 0
SYMMETRY MCSymmetry
INVARIANTS
  NoDoubleCount
