\* Expected violation: a repeated post turns a delivered shot into a refused one.
SPECIFICATION Spec
CONSTANTS
  u1 = u1
  u2 = u2
  Urls <- OneUrl
  WriteNode = u1
  KEEPALIVE = TRUE
  NONCE_PREWARM_SEC = 1
  NONCE_SEND_WINDOW_SEC = 1
  MaxShots = 1
  MaxClock = 0
INVARIANTS RefusedNeverLands
CHECK_DEADLOCK FALSE
