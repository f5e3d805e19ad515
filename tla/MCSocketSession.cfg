SPECIFICATION Spec
SYMMETRY NodeSymmetry
CONSTANTS
  Node = {n1, n2, n3}
  x = x
  y = y
  Text <- MCText
  Seps <- MCSeps
  Maxes = {0, 2}
  MaxOut = 3
  MinBuffer = 2
  MaxBuffer = 4
INVARIANTS
  TypeOK
  ListsSound
  OutputKept
  OutputWaits
  DeadCause
  SearchRight
PROPERTIES
  InputQueue
