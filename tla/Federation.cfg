CONSTANTS
  L = L
  G = G
  A = A
  B = B
  Leader = L
  Aggregator = G
  Trainers <- MCTrainers
  Scripts <- MCScripts
SPECIFICATION FairSpec
INVARIANTS
  TypeOK
  NoWaitCycle
  AwaitedRequestsExist
  TrainedIsCounted
  
PROPERTIES
  CallsReturn
CHECK_DEADLOCK FALSE
