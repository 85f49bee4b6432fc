SPECIFICATION SpecBoth
CONSTANTS
  q1 = q1  q2 = q2  c1 = c1  c2 = c2  i1 = i1  i2 = i2
  None = None
  NoRoom = NoRoom
  Room <- TwoRooms
  Caller = {c1, c2}
  Read = {i1, i2}
  Last = 1
  PendingMax = 1
  News = {0}
  AskFrom = {}
  Fault = {"outage", "http", "hook"}
  MaxFaults = 1
  LastVersion = 1
  MaxGen = 2
INVARIANTS SessionTypesOK PassedIsOwedOrHanded OnlyCurrentWrites 
SYMMETRY Symmetry
CHECK_DEADLOCK FALSE
