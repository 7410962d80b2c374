SPECIFICATION Spec
CONSTANTS
  g1 = g1
  g2 = g2
  Guardian = {g1}
  MaxWrites = 1
  MaxSeq <- FourEach
  MaxPrimary = 2
  MaxFaults = 1
  None = None
  Torn = Torn
\* all snapshot numbers may be used up
CHECK_DEADLOCK FALSE
INVARIANT OldPrimaryStaysOut
