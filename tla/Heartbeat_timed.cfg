SPECIFICATION Spec
CONSTANTS
  b1 = b1
  b2 = b2
  g1 = g1
  g2 = g2
  Backup = {b1}
  Guardian = {g1}
  Interval = 6
  Threshold = 3
  Timeout = 3
  MaxStreak = 2
  None = None
INVARIANTS TypeOK StreakIsUninterrupted DeathIsNoticed
PROPERTY NoAlarmWithoutMisses
