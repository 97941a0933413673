\* A body for a resource that has no payload handler.
CONSTANTS
  Messages <- Ignored
  MaxMessages = 2
  ReadMax = 3
  Base = 2
SPECIFICATION BodySpec
INVARIANT RequestsAligned
CHECK_DEADLOCK FALSE
