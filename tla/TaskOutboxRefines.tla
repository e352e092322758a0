------------------------- MODULE TaskOutboxRefines -------------------------
(***************************************************************************)
(* TaskOutbox keeps TaskPromise: a row's statuses between creation and end *)
(* are one open phase, and a task's executors are the processes between    *)
(* claimRunning and the end of the try block.                              *)
(***************************************************************************)
EXTENDS TaskOutbox

PhaseOf(t) ==
  CASE status[t] = "ABSENT" -> "absent"
    [] status[t] = "SUCCEEDED" -> "succeeded"
    [] status[t] = "FAILED" -> "failed"
    [] OTHER -> "open"

phaseBar == [t \in Tasks |-> PhaseOf(t)]
executorsBar == [t \in Tasks |-> {p \in Procs : Executing(p, t)}]

Promise == INSTANCE TaskPromise WITH phase <- phaseBar, executors <- executorsBar

(* With heartbeats on time the outbox and its workers implement the        *)
(* promise: one execution at a time, one end, and the timeout only decides *)
(* tasks nobody executes (failTimedOutTasks against renewRunningLease).    *)
KeepsPromise == Promise!PromiseSpec
=============================================================================
