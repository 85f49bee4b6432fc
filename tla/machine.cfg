SPECIFICATION SpecMachine
CONSTANTS
  a = a  b = b  p = p  q = q  r1 = r1  r2 = r2  other = other
  Serve = {p, q}
  Entry = {a, b}
  QueueMax = 2
  MaxCalls = 3
  MaxFaults = 1
  MaxExpiries = 1
  Proc = {p, q}
  MaxStarts = 3
  MaxLogins = 2
  MaxLapses = 1
  MaxMishaps = 1
  Run = {p, q}
  Account = {a, b}
  Other = other
  MaxRuns = 3
  MaxSnags = 1
  Room = {r1, r2}
  Org = {"ours", "theirs"}
  orgOf <- Orgs
  Owner = {a, b}
  Mate = other
  MaxCommands = 1
  MaxChanges = 2
  Hook = {p, q}
  Line <- FourLines
  File <- ThreeFiles
  Starter <- OneRule
  Category = {"kubernetes", "cloud"}
  Assignment = {"K=v"}
  holds <- Holds
  MaxHooks = 2
  MaxKeys = 2
  MaxEdits = 1
  Installer = {p, q}
  MaxInstalls = 3
  MaxHostEdits = 1
  MaxKills = 1
  Id = {a, b}
  MaxLines = 3
  MaxTears = 2
  Absorber = {a, b}
  MaxSeq = 3
INVARIANTS MachineTypesOK   SignInKeeps ConnectResumes 
  PolicyIsKept ShareIsTold
SYMMETRY Symmetry
CHECK_DEADLOCK FALSE
