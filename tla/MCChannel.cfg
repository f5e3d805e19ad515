SPECIFICATION Spec
CONSTANTS
  A = A
  B = B
  MaxAsk <- TwoAndOne
  OneWay = {B}
  Callback = {B}
  App = App
  Main = Main
  None = None
INVARIANTS
  CallerHeld
  WokenOnce
  OnePlace
PROPERTIES
  InOrder
  AtMostOnce
