SPECIFICATION SpecServe
CONSTANTS
  q1 = q1  q2 = q2  i1 = i1  i2 = i2  r1 = r1  r2 = r2
  p1 = p1  p2 = p2  w1 = w1  w2 = w2  w3 = w3
  Nobody = Nobody  None = None
  MaxEntries = 3
  Max = 3
  Room = {q1}
  RoomOf <- OneRoom
  Instance = {i1}
  Run = {r1}
  ProcOf <- OneProcess
  Seat <- OneSeat
  Text <- Distinct
  Claim = {}
  Refusable = {2}
  Stubborn = {1}
  Faults = {"crash", "transient", "lost", "refresh", "session", "stop"}
  MaxFaults = 2
INVARIANTS InFlightIsTended
PROPERTIES ServeGetsThere
CHECK_DEADLOCK FALSE
