SPECIFICATION MCSpec
CONSTANTS
  a1 = a1
  a2 = a2
  k1 = k1
  Admin = {ad}
  Thread = {th1, th2}
  Agent = {a1, a2}
  OntologyMin = 1
  StartFiles <- MCStartFiles
  MaxRequests = 3
  MaxCommands = 1
  MaxCrashes = 1
  Web <- DidWeb
  KeyDid = {k1}
  MinValidators = 1
  MaxValidations = 2
  MaxChecks = 2
  Process = {th1, th2}
  Name = {a1, a2}
  Key = {k1, k2}
  WebDid = web
  MaxWrites = 2
  MaxEvents = 1
  MaxNews = 1
SYMMETRY Symmetry
INVARIANTS StandingIsTraced  
PROPERTIES AccuraciesHold
CHECK_DEADLOCK FALSE
