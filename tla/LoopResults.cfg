SPECIFICATION FairSpec
CONSTANTS
  p = p
  q = q
  u = u
  None = None
  Conns = {p, q, u}
  Scripts <- ResultScripts
  Threads = 2
  MaxJobs = 3
  Patient = TRUE
  MayShutdown = FALSE
PROPERTIES ResultsSent
CHECK_DEADLOCK FALSE
