\* Three peers and a limit of two per window of two intervals.
CONSTANTS
  Peers = {a, b, c}
  MaxPeersPerMinute = 2
  MinPeerScore = 5000
  Minute = 2
  StaleAfter = 1
  MsPerTick = 30000
  MaxTime = 3
SPECIFICATION Spec
\* The clock is bounded, and everything may have stopped.
CHECK_DEADLOCK FALSE
INVARIANTS TypeOK RateLimited NeverStuck
PROPERTIES StopCompletes
