SPECIFICATION SpecDaemon
CONSTANTS
  a = a  b = b  f1 = f1  f2 = f2  f3 = f3  r1 = r1  r2 = r2  k1 = k1  k2 = k2
  None = None
  Client <- TwoClients
  Room <- TwoRooms
  Front <- ThreeFronts
  Startup <- AnyStartup
  Spawns = 2
  MaxSaves = 2
  MaxFaults = 1
  MaxClaims = 3
  MaxTroubles = 2
  MaxJoins = 2
  MaxMishaps = 1
INVARIANTS DaemonTypesOK LinksAreSpentOnce FrontEndFollows RoomsSurvive
SYMMETRY Symmetry
CHECK_DEADLOCK FALSE
