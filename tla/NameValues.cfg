\* Every query string and cookie header of up to six characters, every body of
\* up to two parts with up to two headers each.
CONSTANTS
  MaxLength = 6
  MaxParts = 2
  MaxHeaders = 2
  NameMax = 2
  ValueMax = 2
  Liberties = {}
SPECIFICATION Spec
INVARIANTS PairsExact TakenApart
CHECK_DEADLOCK FALSE
