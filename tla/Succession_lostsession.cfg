SPECIFICATION Spec
CONSTANTS
  a1 = a1
  a2 = a2
  Agent = {a1}
  Guardian = {g1}
  Roster <- OneRow
  ContactId = {1, 2, 3}
  FaultKinds = {"crash"}
  None = None
  OldPrimary = OldPrimary
  Service = Service
  MaxFaults = 1
  MaxOvertaken = 1
INVARIANT ConfirmedIsReady
