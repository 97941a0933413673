\* Responses of up to three pieces and two chunks, before the last, to clients of each version.
CONSTANTS
  Requests <- Versions
  PieceSizes = {0, 1, 2}
  MaxPieces = 3
  MaxChunks = 2
  MaxEdits = 2
  Liberties <- ByTheRules
SPECIFICATION FairSpec
INVARIANTS ResponseDecodable HeaderKeepsWord FinishedOnce
PROPERTIES ResponseFinishes
CHECK_DEADLOCK FALSE
