SPECIFICATION MCSpec
CONSTANTS
  firstLeaf = x
  Kind <- Kinds
  Format = {"jsonl", "zst"}
  Keep = 1
  MaxLogged = 5
  MaxEvents = 3
  MaxTime = 2
  MaxSyncs = 3
  Edge = {e1, e2}
  Center = center
  Replica = {e1, e2}
  Confidences = {1, 2}
  MaxMade = 3
  MaxStamp = 2
  Leaf = {x, y, z}
  MaxLeaves = 7
  Worker = {"d1", "r1", "s1", "m1"}
  RoleOf <- MCRoleOf
  Signer = {"r1", "s1", "m1"}
  Other = {"o"}
  NMin = 1
  Untouched = FALSE
  MaxRuns = 1
  MaxMoves = 4
INVARIANTS  ChainsStayWhole EffectsAccounted MergedDominates EveryProofVerifies 
PROPERTIES  SyncIsComplete
CHECK_DEADLOCK FALSE
