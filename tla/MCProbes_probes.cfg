SPECIFICATION Spec
CONSTANTS
  a = a
  b = b
  Borrowers = {a, b}
  Net <- NetMC
  Debt <- NetMC
  PREARM_TTL = 1
  PREARM_REFRESH = 1
  PREARM_MAX = 1
  SPEC_MAX_PROBES = 1
  SPEC_WINDOW_GAP = 0
  SPEC_QUEUE = FALSE
  DEDUP = 3
  REVERT_COOLDOWN = 4
  MaxLag = 1
  Falling = {b}
INVARIANT TypeOK
PROPERTY SizedAfterReactive
