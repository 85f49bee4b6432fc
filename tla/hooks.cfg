SPECIFICATION MCSpec
CONSTANTS
  claude = claude
  codex = codex
  s1 = s1
  s2 = s2
  f1 = f1
  h1 = h1
  h2 = h2
  Serve = {s1, s2}
  Front = {f1}
  Daemon = daemon
  Harness = {claude, codex}
  Watcher = {claude}
  HarnessOf <- Hosts
  Hook = {h1, h2}
  Kind = {"wake", "prompt", "block"}
  Fleets = {"overlap", "hosts", "serves"}
  Last = 2
  Fault = {"end", "late", "lost", "kill"}
  MaxFaults = 1
INVARIANT TypeOK
 
 
 
CHECK_DEADLOCK FALSE
