SPECIFICATION FairSpec
CONSTANTS
  a1 = a1  p1 = p1  h1 = h1  q1 = q1
  Agent = {a1}
  Person = {p1}
  PersonOf <- OneHarness
  Hook = {h1}
  HookOf <- HooksOfOne
  Pull = {}
  PullOf <- PullsOfOne
  AskFrom = {}
  News <- AllNews
  RingMax = 1
  Last = 2
  Faults = {"outage", "crash", "stop", "rejoin", "frame", "unfilled", "unsaved", "silence", "hook"}
  MaxFaults = 2
PROPERTIES EventuallyTold
CHECK_DEADLOCK FALSE
