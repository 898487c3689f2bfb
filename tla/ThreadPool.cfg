SPECIFICATION FairSpec
CONSTANTS
  Workers = {w1, w2}
  Jobs = {j1, j2, j3}
  NoJob = NoJob
INVARIANTS TypeOK CountsExact TaskExclusive QueueSound PoolOutlivesThreads
PROPERTIES ImplementsJobQueue ShutdownCompletes AcceptedJobStarts
CHECK_DEADLOCK FALSE
