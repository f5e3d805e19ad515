SPECIFICATION Spec
CONSTANTS
  Addr = {1, 2, 3}
  Value = {1, 2, 3}
  Score <- MCScore
  Loops <- MCLoops
  MaxLevel = 2
  Nil = Nil
INVARIANTS
  ListSound
  TablesMatch
  QueriesRight
  LoopRight
PROPERTIES
  RanksKept
