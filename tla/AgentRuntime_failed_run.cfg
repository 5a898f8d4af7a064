SPECIFICATION FairSpec
CONSTANTS
  a1 = a1
  a2 = a2
  t1 = t1
  t2 = t2
  dependsOn = dependsOn
  validates = validates
  Task = {t1}
  Agent = {a1, a2}
  Client = client
  NoAgent = noAgent
  NoTask = noTask
  Capabilities <- MCCapabilities
  Required <- OneRequired
  Priority <- OnePriority
  MaxReworks = 1
  MaxEnqueues = 2
  MaxStops = 1
PROPERTIES FailedRunIsRetried
CHECK_DEADLOCK FALSE
