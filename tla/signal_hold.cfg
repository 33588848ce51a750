CONSTANTS
  ALRM = ALRM
  CHLD = CHLD
  Sig = {ALRM, CHLD}
  Kid = {1}
  Counted = {ALRM, CHLD}
  MaxOwed = 1
SPECIFICATION Spec
PROPERTY HeldNotLost
CHECK_DEADLOCK FALSE
