SPECIFICATION Spec
CONSTANTS
  N = 3
  RETRIES = 3
  BENCH = 5
  HARD = 2
  Last = 6
  CHUNK = 5
  FLOOR = 2
  MAX_FAIL = 3
INVARIANTS TypeOK ReadOnce AllTried
PROPERTIES ReadEnds
