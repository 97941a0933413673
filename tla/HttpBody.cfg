\* Two messages of any of the forms, in reads of at most three bytes, with chunk
\* sizes in base 2.
CONSTANTS
  Messages <- Served
  MaxMessages = 2
  ReadMax = 3
  Base = 2
SPECIFICATION BodyFairSpec
INVARIANTS RequestsAligned PayloadExact
PROPERTY RequestsHandled
CHECK_DEADLOCK FALSE
