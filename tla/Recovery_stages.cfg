SPECIFICATION FairSpec
CONSTANTS
  Restores = {u1, u2}
  Calls = {c1, c2}
  Polls = {p1}
  None = None
  Attempts = 2
  MaxCrashes = 2
  MaxFailures = 1
INVARIANTS
  OpensWhole
  NoReplay
PROPERTIES
  KeepsManifest
  EndsUnlessInterrupted
CHECK_DEADLOCK FALSE
