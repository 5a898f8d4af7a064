SPECIFICATION MCSpec
CONSTANTS
  v1 = v1
  v2 = v2
  c1 = c1
  c2 = c2
  p1 = p1
  p2 = p2
  t1 = t1
  t2 = t2
  t3 = t3
  w1 = w1
  Appender = {t1, t2}
  Watcher = {w1}
  Transfer <- Transfers
  SmallWindow = 2
  Rapid = 2
  FanOut = 2
  Large = 2
  MaxLog = 3
  MaxAttach = 2
  Process = {p1, p2}
  Thread = {t1, t2, t3}
  Home <- Homes
  Client = {alice}
  Id = {x}
  NoId = noId
  MaxRequests = 2
  Window = 1
  Second = 2
  MaxCalls = 1
  MaxEntities = 1
  PeriodLen = 2
  MaxTime = 2
  MaxSent = 3
  Concept = {c1, c2}
  Actor = {v1, v2}
  Document <- Both
  HasSpec = {c1}
  Author = {v1, v2}
  NMin = 1
  MaxBlocks = 2
  OntologyMin = 1
  MaxEvents = 3
  MaxForks = 1
  Node = {c1, c2, c3}
  Predicate = {"p", "q"}
  Confidence = {1, 2}
  NoGraph = noGraph
  MaxRelated = 2
  Capability = {c1, c2}
  Text = {s, t}
  RebuildAbs = 2
  MaxVectors = 3
SYMMETRY Symmetry
INVARIANTS AtMostOneValidation NoProductionValidation EndIsFinal   MirrorFollowsTable LiveRowsPointRight
PROPERTIES OnlyForkOverwrites StatusNeverFallsBack
CHECK_DEADLOCK FALSE
