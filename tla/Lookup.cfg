SPECIFICATION MCSpec
CONSTANTS
  Char = {0, 1, 2}
  L = 2
  MaxCount = 4
  NameChar = {1, 2}
  MaxLen = 3
  MaxNames = 3
CHECK_DEADLOCK FALSE
INVARIANTS FindsName FindsLongest TableFinds TableOwns
PROPERTIES SearchesEnd TableIsMap
