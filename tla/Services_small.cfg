SPECIFICATION MCSpec
CONSTANTS
  c1 = c1
  c2 = c2
  c3 = c3
  Chain = {c1, c2, c3}
  Sorted <- MCSorted
  Anchorer = {th1, th2}
  MaxChainEvents = 2
  MaxAnchors = 2
  Keep = 1
  Threshold = 2
  MaxEvents = 8
  MaxStores = 4
  Command = {th1, th2}
  AdminToken = TRUE
  MaxMade = 2
  MaxFaults = 1
  MaxAtOnce = 3
  Thread = {th1, th2}
  MaxTaskEvents = 4
  MaxCrashes = 1
  Process = {th1, th2}
  Actor = {a1, a2}
  Scope = {}
  MinScopes = 2
  RefuteThreshold = 2
  MaxReceipts = 2
  MaxGoverned = 3
SYMMETRY Symmetry
INVARIANTS   AnchorsAreExact
PROPERTIES EvidenceHolds LostOnlyToStaleWriter
CHECK_DEADLOCK FALSE
