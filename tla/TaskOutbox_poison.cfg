\* One Tick is 300 s: leases of 600 s, a timeout of 1200 s, see RealBackoff.
SPECIFICATION FairSpec
CONSTANTS
  Tasks = {t1}
  Procs = {p1}
  None = None
  MaxUp = 1
  Replayable = {t1}
  BatchSize = 1
  EnqueueLease = 1
  RunningLease = 2
  EnqueueBackoff = 1
  StalledAfter = 2
  JobAttempts = 5
  JobBackoff <- RealBackoff
  MaxStalls = 1
  Outcomes <- AlwaysError
  Faults <- NoFault
  MaxRedisLosses = 1
  EffectCap = 0
  Prompt = TRUE
PROPERTY PoisonEnds
