SPECIFICATION ChainSpec
CONSTANTS
  Kind <- FewKinds
  Format = {"jsonl"}
  Keep = 1
  MaxLogged = 5
INVARIANTS VerdictIsSound
CHECK_DEADLOCK FALSE
