SPECIFICATION FairSpec
CONSTANTS
  g1 = g1
  b1 = b1
  e1 = e1
  e2 = e2
  MaxMachines = 6
  Price = 2
  Funds = 3
  ExternalGuardian = {g1}
  ExternalBackup = {b1}
  Target = 2
  Evaluation = {e1, e2}
  MaxFaults = 1
  None = None
INVARIANTS TypeOK CreationsAreBounded SurplusIsBounded
 
