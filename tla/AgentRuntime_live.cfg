SPECIFICATION FairSpec
CONSTANTS
  a1 = a1
  a2 = a2
  t1 = t1
  t2 = t2
  dependsOn = dependsOn
  validates = validates
  Task = {t1, t2}
  Agent = {a1, a2}
  Client = client
  NoAgent = noAgent
  NoTask = noTask
  Capabilities <- MCCapabilities
  Required <- MCRequired
  Priority <- MCPriority
  MaxReworks = 1
  MaxEnqueues = 1
  MaxStops = 1
PROPERTIES  QueuedIsTaken
CHECK_DEADLOCK FALSE
