SPECIFICATION Spec
CONSTANTS
  p = p
  q = q
  u = u
  None = None
  Conns = {p, q, u}
  Scripts <- SafetyScripts
  Threads = 2
  MaxJobs = 2
  Patient = FALSE
  MayShutdown = TRUE
INVARIANTS TypeOK  
CHECK_DEADLOCK FALSE
