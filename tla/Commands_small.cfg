SPECIFICATION MCSpec
CONSTANTS
  Procs = {p1}
  Actors = {alice, bob}
  Addressee = bob
  Anybody = none
  RevealIn = 1
  Window = 1
  Skew = 1
  MaxTime = 2
  MaxEvents = 4
  n1 = n1
  n2 = n2
  n3 = n3
  unknown = unknown
  noId = noId
  noName = noName
  d1 = d1
  d2 = d2
  d3 = d3
  d4 = d4
  Invalid = Invalid
INVARIANTS   NormalizedOnce PipelineIsRun 
PROPERTIES VerdictIsFinal 
CHECK_DEADLOCK FALSE
