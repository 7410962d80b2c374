SPECIFICATION Spec
CONSTANTS
  i1 = i1
  i2 = i2
  None = None
  Torn = Torn
  Key <- MCKey
  Id <- MCId
  MaxFaults = 2
  MaxConfirms = 2
INVARIANTS TypeOK KeyKept RegistrationsAreBounded
