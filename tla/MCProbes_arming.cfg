SPECIFICATION FairSpec
CONSTANTS
  a = a
  b = b
  Borrowers = {a, b}
  Net <- NetMC
  Debt <- NetMC
  PREARM_TTL = 1
  PREARM_REFRESH = 1
  PREARM_MAX = 1
  SPEC_MAX_PROBES = 1
  SPEC_WINDOW_GAP = 1
  SPEC_QUEUE = TRUE
  DEDUP = 3
  REVERT_COOLDOWN = 3
  MaxLag = 1
  Falling = {}
PROPERTY QueueServed WindowsClose EdgeArmed
