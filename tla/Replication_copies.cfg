SPECIFICATION Spec
CONSTANTS
  g1 = g1
  g2 = g2
  Guardian = {g1, g2}
  MaxWrites = 1
  MaxSeq <- FourThenTwo
  MaxPrimary = 2
  MaxFaults = 1
  None = None
  Torn = Torn
SYMMETRY GuardianSymmetry
\* all snapshot numbers may be used up
CHECK_DEADLOCK FALSE
INVARIANTS TypeOK SeqOrdersContent CopyListsHolder
