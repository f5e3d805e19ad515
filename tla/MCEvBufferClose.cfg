SPECIFICATION FairSpec
CONSTANTS
  Buf = {b1, b2}
  MaxOut = 2
  MaxDepth = 2
  Nobody = Nobody
PROPERTY
  CloseCompletes
