CONSTANTS
  Tasks = {t1}
  Procs = {p1, p2}
  None = None
  MaxUp = 2
  Replayable = {t1}
  BatchSize = 1
  EnqueueLease = 1
  RunningLease = 2
  EnqueueBackoff = 1
  StalledAfter = 1
  JobAttempts = 2
  JobBackoff <- NoBackoff
  MaxStalls = 1
  Outcomes <- AnyOutcome
  Faults <- SafetyFaults
  MaxRedisLosses = 1
  EffectCap = 0
  Prompt = FALSE
SPECIFICATION Spec
SYMMETRY ProcSymmetry
INVARIANTS
  TypeOK
  ExecutorKeepsRow
  OneExecutor
PROPERTIES
  TerminalIsFinal
  KeepsPromise
