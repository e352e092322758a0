CONSTANTS
  Tasks = {t1, t2}
  Procs = {p1}
  None = None
  MaxUp = 1
  Replayable = {t1, t2}
  BatchSize = 1
  EnqueueLease = 1
  RunningLease = 2
  EnqueueBackoff = 1
  StalledAfter = 1
  JobAttempts = 2
  JobBackoff <- NoBackoff
  MaxStalls = 1
  Outcomes <- AlwaysOk
  Faults <- QueueFaults
  MaxRedisLosses = 1
  EffectCap = 2
  Prompt = TRUE
SPECIFICATION FairSpec
INVARIANT EffectAtMostOnce
PROPERTY ReachesTerminal
