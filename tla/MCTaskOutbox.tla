---------------------------- MODULE MCTaskOutbox ----------------------------
(***************************************************************************)
(* Small instances of TaskOutbox.                                          *)
(***************************************************************************)
EXTENDS TaskOutboxRefines, TLC

(* Delays after the n-th failure, in Ticks.                                *)
NoBackoff == [n \in 1 .. JobAttempts |-> 0]

(* The real delays, 5 s * 2^(n-1), at one Tick = 300 s: the six retries    *)
(* within the first Tick count as one, and the others (320 s, 640 s, ...)  *)
(* are rounded up.                                                         *)
RealBackoff == <<0, 2, 3, 5, 9>>

AnyOutcome == [t \in Tasks |-> {"ok", "error"}]
AlwaysOk == [t \in Tasks |-> {"ok"}]
AlwaysError == [t \in Tasks |-> {"error"}]

NoFault == {}

(* To the rows and the queue a SIGTERM does what a crash does.             *)
SafetyFaults == FaultKinds \ {"lateHeartbeat", "sigterm"}

QueueFaults == {"redisLoss", "redisError"}
RecoveryFaults == {"crash", "sigterm", "redisLoss"}

ProcSymmetry == Permutations(Procs)
=============================================================================
