\* Two nodes, two shots over the keep-alive transport.
SPECIFICATION Spec
CONSTANTS
  u1 = u1
  u2 = u2
  Urls <- TwoUrls
  WriteNode = u1
  KEEPALIVE = TRUE
  NONCE_PREWARM_SEC = 1
  NONCE_SEND_WINDOW_SEC = 1
  MaxShots = 2
  MaxClock = 2
INVARIANTS TypeOK BackedByASend NoGapSigned
PROPERTIES DeliveryKept NonceOwned
CHECK_DEADLOCK FALSE
