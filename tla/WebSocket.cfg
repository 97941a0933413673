\* Three frames of one or two bytes; the buffer holds three bytes, and a message
\* at most one fragment before its final frame.
CONSTANTS
  Sizes = {1, 2}
  MaxSent = 3
  ReadMax = 3
  receive_buffer_max_size = 3
  frames_max_count = 1
  MaxPieces = 1
  Liberties = {}
SPECIFICATION FairSpec
INVARIANTS MessagesWhole StorageBounded FramesOut
PROPERTY MessagesDelivered
CHECK_DEADLOCK FALSE
