\* One caller, so start() and stop() alternate; two workers and three names:
\* two connections served while a third waits for a client.
CONSTANTS
  Callers = {a1}
  Workers = {w1, w2}
  NoThread = NoThread
  Conns = {c1, c2, c3}
  NoConn = NoConn
  Ssl = TRUE
  WaitFlags = {FALSE}
  AssignOnDispatch = FALSE
  PayloadThrows = FALSE
  UserModulus = 4
SPECIFICATION FairSpec
INVARIANTS OneAcceptChain StopTerminatesAll FinishNeverRelocks
PROPERTY StopReturns
CHECK_DEADLOCK FALSE
