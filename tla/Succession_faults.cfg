SPECIFICATION FairSpec
CONSTANTS
  a1 = a1
  a2 = a2
  Agent = {a1, a2}
  Guardian = {g1}
  Roster <- SameRoster
  ContactId = {1, 2, 3, 4}
  FaultKinds = {"late", "crash", "restart", "registry"}
  None = None
  OldPrimary = OldPrimary
  Service = Service
  MaxFaults = 2
  MaxOvertaken = 1
\* a lone guardian that restarted cannot act again
CHECK_DEADLOCK FALSE
INVARIANTS TypeOK KeyBeforeData RegistryNamesHolder OnePrimaryWithoutFaults
PROPERTIES SomeoneTakesOver AttemptEnds HandedOver
