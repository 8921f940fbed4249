\* Two borrowers, the first one new, a chunk of one in every other iteration,
\* over two kills: the files may be one save apart.  The window
\* is the head alone, so that a failed discovery or a late one puts a block
\* out of reach, and the node that serves the logs may be a block behind.
SPECIFICATION FairSpec
CONSTANTS
  Borrowers <- Two
  Seed <- Last
  SWEEP_CHUNK = 1
  SWEEP_EVERY = 2
  INCR_WINDOW = 0
  LogLag = 1
  MaxBlock = 2
  MaxRestarts = 2
INVARIANTS TypeOK DiscoveryComplete
PROPERTIES CycleCoversBook AlwaysFoundAgain
CHECK_DEADLOCK FALSE
