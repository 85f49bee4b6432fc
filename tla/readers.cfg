SPECIFICATION Spec
CONSTANTS
  a1 = a1  p1 = p1  h1 = h1  q1 = q1
  Agent = {a1}
  Person = {p1}
  PersonOf <- OneHarness
  Hook = {h1}
  HookOf <- HooksOfOne
  Pull = {q1}
  PullOf <- PullsOfOne
  AskFrom = {}
  News <- AllNews
  RingMax = 1
  Last = 2
  Faults = {"crash", "rejoin", "unsaved", "late", "hook", "outage", "unfilled"}
  MaxFaults = 1
INVARIANTS ReadersTypeOK ToldOrOwed GivenOrOwed
CHECK_DEADLOCK FALSE
