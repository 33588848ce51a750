CONSTANTS
  ALRM = ALRM
  CHLD = CHLD
  Sig = {ALRM, CHLD}
  Kid = {1, 2}
  Counted = {ALRM}
  MaxOwed = 1
SPECIFICATION Spec
INVARIANTS CountsHonest MaskRestored AlarmNeverKills DeathNoticed
PROPERTIES SleepLasts SleepWakes WaitReturns Wait0Returns
CHECK_DEADLOCK FALSE
