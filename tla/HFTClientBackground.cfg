\* Three servers, all of which respond sooner or later.
CONSTANTS
  Callers = {c1}
  Servers = {s1, s2, s3}
  ServerLists = {{s1, s2, s3}}
  Times = {1}
  Bad = Bad
  Sent <- Honest
  NoServer = NoServer
  Options <- Eager
SPECIFICATION ResponsiveSpec
\* Every caller calls once.
CHECK_DEADLOCK FALSE
PROPERTIES BackgroundCollects
