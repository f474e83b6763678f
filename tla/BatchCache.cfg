\* Two calls that share the caches and the counters.
CONSTANTS
  Callers = {c1, c2}
  Servers = {1, 2}
  ServerLists = {{}, {1, 2}}
  Times = {1, 2}
  Bad = Bad
  Sent <- Mingled
  NoServer = NoServer
  NoCaller = NoCaller
  DirectCallers = {c2}
  Options <- AllOptions
  TTL = 0
  MaxAge = 0
  MaxNow = 2
SPECIFICATION BatchSpec
\* Every caller calls once, and the clock is bounded.
CHECK_DEADLOCK FALSE
INVARIANTS TypeOK ResultSound QuorumFailureJustified BatchSound BatchAccount
PROPERTIES Terminates
