CONSTANTS
  Callers = {a1, a2}
  Workers = {w1, w2}
  NoThread = NoThread
  Conns = {c1, c2, c3}
  NoConn = NoConn
  Ssl = FALSE
  WaitFlags = {TRUE, FALSE}
  AssignOnDispatch = TRUE
  PayloadThrows = TRUE
  UserModulus = 4
SPECIFICATION Spec
SYMMETRY Symmetry
INVARIANTS PoolCoversActive StoppedIsQuiet ListeningHasAccept UserBalance
PROPERTY KeepsContract
CHECK_DEADLOCK FALSE
