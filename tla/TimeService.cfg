\* Two IDs, three servers, and one call while the registry changes.
CONSTANTS
  IDs = {"a", "b"}
  Objects <- ThreeServers
  Self <- FirstServer
  NoServer = NoServer
  Areas = {east, west}
  Wanted = east
  Torn = Torn
  Callers = {c1}
  RegionIDs = {r1, r2}
  ServerIDs = {s1}
  NoRegion = NoRegion
SPECIFICATION Spec
\* A request without signatures ends the process.
CHECK_DEADLOCK FALSE
INVARIANTS TypeOK SelectionExact VerdictRight NoDanglingAssignment
