SPECIFICATION SpecView
CONSTANTS
  a = a  b = b  p = p
  Kind = {"claim", "staged"}
  FrameReader = {"refresh"}
  Peeker = {"watch"}
  MaxEvents = 2
  Host = {a, b}
  Request = {1, 2}
  Base = 1
  Cap = 3
  Longest = 4
  Jitter = 1
  RetryAfter = {0, 6}
  MaxTime = 5
  Human = {a, b}
  RingMax = 3
  MaxRows = 5
  MaxLosses = 2
  Widget = {a, b}
  Sharer = {p}
  Shown = 1
  MemoMax = 2
  MaxPosts = 3
  MaxTroubles = 1
INVARIANTS ViewTypesOK StaysAway GlanceIsFresh WallIsRight SaysOfBeacon
SYMMETRY Symmetry
CHECK_DEADLOCK FALSE
