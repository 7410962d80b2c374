SPECIFICATION FairSpec
CONSTANTS
  g1 = g1
  g2 = g2
  b1 = b1
  i1 = i1
  i2 = i2
  Guardian = {g1}
  Backup = {b1}
  Image = {i1, i2}
  ImageOf <- Mixed
  Approved = {}
  Endpoints = 2
  Hanging = {1}
  MaxAttempts = 2
  MaxFaults = 0
  None = None
\* every client may be admitted, refused or out of attempts
CHECK_DEADLOCK FALSE
INVARIANT OneEndpointSuffices
