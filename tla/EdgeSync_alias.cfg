SPECIFICATION Spec
CONSTANTS
  Edge = {e1, e2}
  Center = center
  MaxEvents = 3
  MaxTime = 2
  MaxSyncs = 3
PROPERTIES OthersStayIntact
CHECK_DEADLOCK FALSE
