\* The blocking cast path, wins charged to the cap, one operator reset.
SPECIFICATION Spec
CONSTANTS
  b1 = b1
  b2 = b2
  Borrowers <- Pair
  MaxTx = 3
  MaxProbes = 0
  MAX_CONSEC_REVERTS = 2
  MAX_DAILY_GAS = 4
  CAP_COUNT_WINS = TRUE
  DEDUP_SEC = 1
  REVERT_COOLDOWN_SEC = 1
  PENDING_STALE_SEC = 1
  STALE_POLL_SEC = 1
  SENT_RETENTION_SEC = 2
  RAW_TX = FALSE
  SPEC_QUEUE = TRUE
  GasEst <- OneEst
  GasActual <- CheapOrDear
  MaxClock = 3
  LastFire = 2
  MaxDay = 1
  MaxRefused = 0
  MaxCrashes = 1
  MaxResets = 1
SYMMETRY Swap
INVARIANTS ConsecExact GasExact
CHECK_DEADLOCK FALSE
