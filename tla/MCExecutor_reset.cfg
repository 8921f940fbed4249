\* The operator resets while reactive shots, probes and refused sends are about,
\* and the process is killed once; one borrower, so that fairness can be checked.
SPECIFICATION FairSpec
CONSTANTS
  b1 = b1
  b2 = b2
  Borrowers <- Single
  MaxTx = 3
  MaxProbes = 1
  MAX_CONSEC_REVERTS = 2
  MAX_DAILY_GAS = 2
  CAP_COUNT_WINS = FALSE
  DEDUP_SEC = 1
  REVERT_COOLDOWN_SEC = 1
  PENDING_STALE_SEC = 1
  STALE_POLL_SEC = 1
  SENT_RETENTION_SEC = 9
  RAW_TX = TRUE
  SPEC_QUEUE = FALSE
  GasEst <- OneEst
  GasActual <- Dear
  MaxClock = 3
  LastFire = 1
  MaxDay = 0
  MaxRefused = 1
  MaxCrashes = 1
  MaxResets = 1
INVARIANTS TypeOK OneLiveShot ConsecExact
PROPERTIES PendingNotForever
CHECK_DEADLOCK FALSE
