\* Three nodes, of which two are a majority.
CONSTANTS
  Nodes = {n1, n2, n3}
  MaxView = 2
  MaxAsks = 4
SPECIFICATION Spec
\* The views and the requests are bounded.
CHECK_DEADLOCK FALSE
INVARIANTS ViewWasAskedFor
