\* Two callers whose startups, shutdowns, joins and registrations overlap, two
\* workers, and a job that calls the scheduler itself.
CONSTANTS
  Users = {u1, u2}
  Workers = {w1, w2}
  NoThread = NoThread
  JobCalls <- StopCalls
  EarlyRemove = FALSE
  UserModulus = 8
  MaxCalls = 4
  MaxJobs = 1
SPECIFICATION FairSpec
INVARIANTS NoLostWakeup WorkersQuiesce ServiceHasWork
PROPERTIES ShutdownDeferred ShutdownReturns JoinReturns
CHECK_DEADLOCK FALSE
