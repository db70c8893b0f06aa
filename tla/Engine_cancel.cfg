\* The run is cancelled while workers wait for a slot.
SPECIFICATION Spec
CONSTANTS
  q1 = q1
  day = day
  am = am
  pm = pm
  today = today
  first1 = first1
  first2 = first2
  last1 = last1
  last2 = last2
  Queries = {q1}
  Windows <- MCWindows
  Span <- MCSpan
  Split <- MCSplit
  Plans <- MCPlans
  PastWindows = {}
  Workers = {w1, w2}
  NoJob = NoJob
  MaxAttempts = 2
  AbortOnPermanent = TRUE
  SubdivideOnTimeout = TRUE
  Precheck = FALSE
  Outcomes = {"ok"}
  Crashes = "never"
  MaxRuns = 1
  MaxThrottles = 0
SYMMETRY MCSymmetry
PROPERTIES
  NoLaunchAfterCancel
