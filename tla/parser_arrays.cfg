SPECIFICATION ParserSpec
CONSTANTS
  n1 = n1
  n2 = n2
  n3 = n3
  MaxCount = 3
  MaxSize = 2
  Names = {n1, n2, n3}
  Hints = {0, 1, 2, 7}
  Layouts <- ArrayLayouts
INVARIANTS
  FoundInPlace
CHECK_DEADLOCK FALSE
