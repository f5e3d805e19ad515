SPECIFICATION FairSpec
CONSTANTS
  Co = {c1, c2}
  Task = {t1, t2, t3}
  Session = {s1, s2}
  MaxWake = 2
  MaxDepth = 2
  None = None
INVARIANTS
  OneHome
  ForkExact
  WakeupKept
  WakeupPrompt
PROPERTIES
  WakeupServed
