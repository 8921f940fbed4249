\* Two borrowers, three shots, a day roll, and the process is killed once.
SPECIFICATION Spec
CONSTANTS
  b1 = b1
  b2 = b2
  Borrowers <- Pair
  MaxTx = 3
  MaxProbes = 0
  MAX_CONSEC_REVERTS = 2
  MAX_DAILY_GAS = 4
  CAP_COUNT_WINS = FALSE
  DEDUP_SEC = 1
  REVERT_COOLDOWN_SEC = 1
  PENDING_STALE_SEC = 1
  STALE_POLL_SEC = 1
  SENT_RETENTION_SEC = 2
  RAW_TX = TRUE
  SPEC_QUEUE = TRUE
  GasEst <- OneEst
  GasActual <- Dear
  MaxClock = 3
  LastFire = 2
  MaxDay = 1
  MaxRefused = 0
  MaxCrashes = 1
  MaxResets = 0
SYMMETRY Swap
INVARIANTS OneLiveShot SettledOnce ConsecExact GasExact
PROPERTIES KillSwitchHolds
CHECK_DEADLOCK FALSE
