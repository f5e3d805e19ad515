SPECIFICATION Spec
CONSTANTS
  Conn = {c1, c2}
  Listener = {l1}
  Httpd = {h1}
  Request = {r1, r2}
  Query = {q1}
  MaxDepth = 2
  MaxUsed = 4
  Given = {1}
  Nobody = Nobody
SYMMETRY Symmetry
INVARIANTS
  RefsExact
  DanglingCause
  FdOwned
CHECK_DEADLOCK FALSE
