SPECIFICATION Spec
CONSTANTS
  a1 = a1
  a2 = a2
  Agent = {a1, a2}
  Guardian = {g1, g2}
  Roster <- SameRoster
  ContactId = {1, 2, 3}
  FaultKinds = {}
  None = None
  OldPrimary = OldPrimary
  Service = Service
  MaxFaults = 0
  MaxOvertaken = 1
INVARIANT AtMostOnePrimary
