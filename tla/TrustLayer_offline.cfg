SPECIFICATION TrustSpec
CONSTANTS
  Web <- DidWeb
  KeyDid = {k1}
  MinValidators = 1
  MaxValidations = 2
  MaxChecks = 2
INVARIANTS NeverRaises
CHECK_DEADLOCK FALSE
