\* Windows that begin and end anywhere, three queries of which some may run.
SPECIFICATION Spec
CONSTANTS
  Second = 2
  Day = 32
  Floor = 8
  host = host
  domain = domain
  source = source
  a = a
  b = b
  Entity = entity
  SubjectVars = {entity, host}
  PivotVars = {domain}
  OtherVars = {source}
  Missing = Missing
  Requests <- MCRequests
  MaxSplits = 2
  MaxLost = 1
  MaxResumes = 1
INVARIANTS
  TypeOK
  SlicesTile
  CountsAreExact
  DistinctIsBound
  ExtremesAreExact
  NeverTenantWide
  PreviewIsBound
PROPERTIES
  ReplanAddsNothing
CHECK_DEADLOCK FALSE
