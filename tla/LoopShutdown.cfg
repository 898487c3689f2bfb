SPECIFICATION Spec
CONSTANTS
  p = p
  q = q
  u = u
  None = None
  Conns = {p, q, u}
  Scripts <- ShutdownScripts
  Threads = 2
  MaxJobs = 2
  Patient = FALSE
  MayShutdown = TRUE
INVARIANTS DropFindsClient
CHECK_DEADLOCK FALSE
