\* Four reads: the first one outside the strand, and three that follow it.
CONSTANTS
  Workers = {w1, w2, w3}
  NoWorker = NoWorker
  MaxReads = 4
SPECIFICATION FairSpec
INVARIANTS ReadHasTimer WaitsBounded
PROPERTY ReadEnds
CHECK_DEADLOCK FALSE
