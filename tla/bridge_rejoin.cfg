SPECIFICATION Spec
CONSTANTS
  q1 = q1  q2 = q2  i1 = i1  i2 = i2  r1 = r1  r2 = r2
  p1 = p1  p2 = p2  w1 = w1  w2 = w2  w3 = w3
  Nobody = Nobody
  MaxEntries = 2
  Max = 2
  Room = {q1, q2}
  RoomOf <- TwoRooms
  Instance = {i1}
  Run = {r1, r2}
  ProcOf <- OneProcess
  Seat <- OneSeat
  Text <- Distinct
  Claim = {}
  Refusable = {1}
  Stubborn = {}
  Faults = {"crash", "stop", "session", "lost"}
  MaxFaults = 3
INVARIANTS OutcomesAreTrue RightRoom
