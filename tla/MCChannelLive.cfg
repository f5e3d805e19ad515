SPECIFICATION FairSpec
CONSTANTS
  A = A
  B = B
  MaxAsk <- OneEach
  OneWay = {}
  Callback = {B}
  App = App
  Main = Main
  None = None
PROPERTIES
  Answered
