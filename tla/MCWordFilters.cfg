SPECIFICATION Spec
CONSTANTS
  Word <- MCWord
  Text <- MCText
  Skip = {"-"}
  MaxAdd = 4
  LengthBits = 2
  SmallSort = 3
INVARIANTS
  TrieRight
  CoreRight
CHECK_DEADLOCK FALSE
