SPECIFICATION FairSpec
CONSTANTS
  p = p
  q = q
  u = u
  None = None
  Conns = {p, q, u}
  Scripts <- LiveScripts
  Threads = 2
  MaxJobs = 2
  Patient = TRUE
  MayShutdown = FALSE
 
PROPERTIES PagesServed RequestsEnd
CHECK_DEADLOCK FALSE
