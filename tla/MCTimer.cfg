SPECIFICATION FairSpec
CONSTANTS
  Slot = {s1, s2}
  Coroutine = {c1, c2}
  Ticker = {k1, k2}
  Zero = {k2}
  Main = Main
  Lost = Lost
  None = None
INVARIANTS
  FreeExact
  TimerHeld
  DueOwned
  AllReleased
PROPERTIES
  Woken
CHECK_DEADLOCK FALSE
