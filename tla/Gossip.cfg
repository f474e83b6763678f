\* A triangle, over which a message comes to a node twice, and one node beyond it;
\* reads may fail on two connections.
CONSTANTS
  Nodes = {a, b, c, d}
  Links = {{a, b}, {b, c}, {a, c}, {c, d}}
  Origins = {a}
  FaultyChoices = {{}, {b}}
  MaxSent = 1
  MaxLost = 2
  MaxWipes = 1
SPECIFICATION GossipSpec
\* The broadcasts are finitely many.
CHECK_DEADLOCK FALSE
INVARIANTS GossipTypeOK HandledOnce
PROPERTIES Delivered
