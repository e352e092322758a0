---------------------------- MODULE TaskPromise ----------------------------
(***************************************************************************)
(* What the unified task table promises the rest of the platform           *)
(* (docs/prds/prd.md 9.1): a submitted task is open until it ends once; it *)
(* is executed by one process at a time, each execution ending in success, *)
(* in failure or, after an error or a crash, in another attempt; a task    *)
(* nobody executes can also be declared failed.                            *)
(***************************************************************************)
CONSTANTS Tasks, Procs

VARIABLES phase, executors

Phases == {"absent", "open", "succeeded", "failed"}

PromiseInit ==
  /\ phase = [t \in Tasks |-> "absent"]
  /\ executors = [t \in Tasks |-> {}]

Submit(t) ==
  /\ phase[t] = "absent"
  /\ phase' = [phase EXCEPT ![t] = "open"]
  /\ UNCHANGED executors

Begin(t, p) ==
  /\ phase[t] = "open"
  /\ executors[t] = {}
  /\ executors' = [executors EXCEPT ![t] = {p}]
  /\ UNCHANGED phase

(* The execution ends; the task is decided, or stays open for a retry.     *)
End(t, p) ==
  /\ phase[t] = "open"
  /\ executors[t] = {p}
  /\ executors' = [executors EXCEPT ![t] = {}]
  /\ \E f \in {"open", "succeeded", "failed"} : phase' = [phase EXCEPT ![t] = f]

(* The timeout decides any number of tasks at once, none under execution.  *)
Expire ==
  \E S \in SUBSET {t \in Tasks : phase[t] = "open" /\ executors[t] = {}} :
    /\ phase' = [t \in Tasks |-> IF t \in S THEN "failed" ELSE phase[t]]
    /\ UNCHANGED executors

PromiseNext ==
  \/ \E t \in Tasks : Submit(t) \/ \E p \in Procs : Begin(t, p) \/ End(t, p)
  \/ Expire

PromiseSpec == PromiseInit /\ [][PromiseNext]_<<phase, executors>>
=============================================================================
