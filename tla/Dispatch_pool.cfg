\* Three workers, and a limit that is halved twice and grows again.
SPECIFICATION FairSpec
CONSTANTS
  a = a
  b = b
  c = c
  key = key
  host = host
  name = name
  day = day
  Nothing = Nothing
  Unit = 4
  MinLimit = 1
  MaxLimit = 2
  InitialLimit = 2
  IncreaseAfter = 2
  Fields = {host, name}
  Sources = {day}
  Writers = {a, b}
  Keys = {key}
  KeyOf <- MCKeyOf
  Jobs = {a, b, c}
  FieldOf <- MCFieldOf
  SourceOf <- MCSourceOf
  Workers = {w1, w2, w3}
  MaxThrottles = 2
INVARIANTS
  TypeOK
  SkipIsProven
  ProbedOnce
  SlotsAccounted
PROPERTIES
  GrowthIsEarned
  CacheContract
  EveryJobSettles
CHECK_DEADLOCK FALSE
