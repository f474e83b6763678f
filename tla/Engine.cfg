\* Three goroutines, each of which calls any one of the methods.
CONSTANTS
  Goroutines = {g1, g2, g3}
  NoGoroutine = NoGoroutine
  Calls = {"GetView", "GetLeader", "SetView", "SetLeader", "ElectLeader", "IsLeader", "IsLeaderNode", "StartViewChange", "StartOrStop", "ProposeTimestamp", "GetState"}
  Validators = 3
  IntViews = 4
SPECIFICATION EngineSpec
\* Every goroutine calls once, and StartViewChange blocks.
CHECK_DEADLOCK FALSE
INVARIANTS RacesOnlyOnLeader PanicsOnlyBeyondInt
PROPERTIES CallsReturn LeaderReadsReturn
