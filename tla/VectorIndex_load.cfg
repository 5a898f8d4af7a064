SPECIFICATION VectorSpec
CONSTANTS
  Capability = {a, b}
  Text = {s, t}
  RebuildAbs = 2
  MaxVectors = 3
INVARIANTS LoadedIsAnIndex
CHECK_DEADLOCK FALSE
