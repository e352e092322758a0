----------------------------- MODULE TaskOutbox -----------------------------
(***************************************************************************)
(* The unified background-task table, which doubles as a light outbox      *)
(* (packages/tasks), and the worker process that delivers its rows to      *)
(* BullMQ and executes them (apps/worker).                                 *)
(*                                                                         *)
(* A worker process runs two actors over the same rows: the scheduler      *)
(* (tick: time out, claim a batch, deliver each row) and the BullMQ        *)
(* consumer (handleJob: load, claim, run, mark).  Every SQL statement and  *)
(* every Redis call is one step, so a crash, another process or the clock  *)
(* can come between any two of them.                                       *)
(*                                                                         *)
(* Instants are kept as the time left until them, in Tick units; "left 0"  *)
(* is the code's `<= now`.  lease_expires_at is NULL exactly when          *)
(* lease_owner is, so one of the two, `owner`, carries the NULL.           *)
(***************************************************************************)
EXTENDS Naturals, FiniteSets

CONSTANTS
  Tasks,            \* task_uuid values
  Procs,            \* worker processes; a restarted one is a new element
  None,             \* SQL NULL
  MaxUp,            \* worker processes alive at once (1 in docker-compose)
  Replayable,       \* tasks of a type in SAFELY_REPLAYABLE_TASK_TYPES
  BatchSize,        \* TASK_ENQUEUE_BATCH_SIZE
  EnqueueLease,     \* TASK_ENQUEUE_LEASE_SECONDS
  RunningLease,     \* TASK_RUNNING_LEASE_SECONDS
  EnqueueBackoff,   \* computeEnqueueBackoffSeconds(0), the only use
  StalledAfter,     \* STALLED_QUEUED_REQUEUE_MINUTES
  JobAttempts,      \* attempts of the BullMQ job options
  JobBackoff,       \* [1 .. JobAttempts -> Nat]: delay after the n-th failure
  MaxStalls,        \* BullMQ maxStalledCount
  Outcomes,         \* [Tasks -> SUBSET {"ok", "error"}]: what a processor may do
  Faults,           \* which faults of the environment can happen
  MaxRedisLosses,   \* bound: how often Redis loses its data
  EffectCap,        \* bound: how far successful executions are counted (0: not at all)
  Prompt            \* TRUE: work that takes less than a Tick is done before it

FaultKinds == {"crash", "sigterm", "redisLoss", "redisError", "sqlError", "lateHeartbeat"}

(* The owners of a lease: randomUUID per role and per process start.       *)
SchedulerId(p) == <<"scheduler", p>>
WorkerId(p) == <<"worker", p>>
OwnerIds == {"scheduler", "worker"} \X Procs

ASSUME TaskOutboxAssumption ==
  /\ None \notin Tasks \cup Procs \cup OwnerIds
  /\ MaxUp \in Nat /\ BatchSize \in Nat \ {0}
  /\ Replayable \subseteq Tasks
  /\ EnqueueLease \in Nat \ {0}
  /\ RunningLease \in Nat \ {0, 1}
  /\ EnqueueBackoff \in Nat /\ StalledAfter \in Nat /\ MaxStalls \in Nat
  /\ JobAttempts \in Nat \ {0}
  /\ JobBackoff \in [1 .. JobAttempts -> Nat]
  /\ Outcomes \in [Tasks -> SUBSET {"ok", "error"}]
  /\ Faults \subseteq FaultKinds
  /\ MaxRedisLosses \in Nat
  /\ EffectCap \in Nat
  /\ Prompt \in BOOLEAN

VARIABLES
  (* backstage.background_tasks *)
  status, owner, lease, retry, timeout, age,
  (* the BullMQ queue in Redis, one job per jobId = task_uuid *)
  jobState, jobMade, jobDelay, jobHolder, jobStalls, losses,
  (* the worker processes *)
  up, born,
  (* their schedulers *)
  schedPc, batch, resend, schedTask,
  (* their BullMQ consumers *)
  workPc, workTask, workMade,
  beat,       \* time left until the heartbeat interval fires, while it is armed
  (* history: successful executions of the processor, counted to EffectCap *)
  effects

rowVars == <<status, owner, lease, retry, timeout, age>>
jobVars == <<jobState, jobMade, jobDelay, jobHolder, jobStalls, losses>>
procVars == <<up, born>>
schedVars == <<schedPc, batch, resend, schedTask>>
workVars == <<workPc, workTask, workMade, beat>>
vars == <<rowVars, jobVars, procVars, schedVars, workVars, effects>>

Statuses == {"ABSENT", "PENDING_ENQUEUE", "QUEUED", "RUNNING", "SUCCEEDED", "FAILED"}
Terminal == {"SUCCEEDED", "FAILED"}     \* CANCELLED has no caller in src/
TimeoutAfterOneLease == RunningLease    \* mutant: no time left to reclaim the row
TimeoutAfter == 2 * RunningLease
HeartbeatEvery == RunningLease \div 2
SchedPcs == {"idle", "timeout", "claim", "deliver", "remove", "add", "mark", "release"}
WorkPcs == {"idle", "load", "claim", "run", "succeed", "fail", "ackDone", "ackFail"}
JobStates == {"none", "waiting", "delayed", "active", "completed", "failed"}

RowTypeOK ==
  /\ status \in [Tasks -> Statuses]
  /\ owner \in [Tasks -> OwnerIds \cup {None}]
  /\ lease \in [Tasks -> Nat] /\ retry \in [Tasks -> Nat] /\ timeout \in [Tasks -> Nat]
  /\ age \in [Tasks -> 0 .. StalledAfter]

(* A job that may run has an attempt left.                                 *)
JobTypeOK ==
  /\ jobState \in [Tasks -> JobStates]
  /\ jobMade \in [Tasks -> 0 .. JobAttempts]
  /\ jobDelay \in [Tasks -> Nat]
  /\ jobHolder \in [Tasks -> Procs \cup {None}]
  /\ jobStalls \in [Tasks -> 0 .. MaxStalls]
  /\ losses \in 0 .. MaxRedisLosses
  /\ \A t \in Tasks : jobState[t] \notin {"completed", "failed"} => jobMade[t] < JobAttempts

ProcTypeOK ==
  /\ up \subseteq born /\ born \subseteq Procs

(* A busy scheduler has a row at hand.                                     *)
SchedTypeOK ==
  /\ schedPc \in [Procs -> SchedPcs]
  /\ batch \in [Procs -> SUBSET Tasks] /\ resend \in [Procs -> SUBSET Tasks]
  /\ schedTask \in [Procs -> Tasks \cup {None}]
  /\ \A p \in Procs : schedPc[p] \in {"remove", "add", "mark", "release"} => schedTask[p] \in Tasks

(* A busy consumer has a task, and only starts an attempt that is left.    *)
WorkTypeOK ==
  /\ workPc \in [Procs -> WorkPcs]
  /\ workTask \in [Procs -> Tasks \cup {None}]
  /\ workMade \in [Procs -> 0 .. JobAttempts]
  /\ beat \in [Procs -> 0 .. HeartbeatEvery]
  /\ \A p \in Procs : workPc[p] # "idle" => workTask[p] \in Tasks /\ workMade[p] < JobAttempts

EffectTypeOK == effects \in [Tasks -> 0 .. EffectCap]

TypeOK == RowTypeOK /\ JobTypeOK /\ ProcTypeOK /\ SchedTypeOK /\ WorkTypeOK /\ EffectTypeOK

Init ==
  /\ status = [t \in Tasks |-> "ABSENT"] /\ owner = [t \in Tasks |-> None]
  /\ lease = [t \in Tasks |-> 0] /\ retry = [t \in Tasks |-> 0]
  /\ timeout = [t \in Tasks |-> 0] /\ age = [t \in Tasks |-> 0]
  /\ jobState = [t \in Tasks |-> "none"] /\ jobMade = [t \in Tasks |-> 0]
  /\ jobDelay = [t \in Tasks |-> 0] /\ jobHolder = [t \in Tasks |-> None]
  /\ jobStalls = [t \in Tasks |-> 0] /\ losses = 0
  /\ up = {} /\ born = {}
  /\ schedPc = [p \in Procs |-> "idle"] /\ batch = [p \in Procs |-> {}]
  /\ resend = [p \in Procs |-> {}] /\ schedTask = [p \in Procs |-> None]
  /\ workPc = [p \in Procs |-> "idle"] /\ workTask = [p \in Procs |-> None]
  /\ workMade = [p \in Procs |-> 0] /\ beat = [p \in Procs |-> 0]
  /\ effects = [t \in Tasks |-> 0]

-----------------------------------------------------------------------------
(* The rows: creation and the conditional updates of status-transitions.ts *)

(* createPending / insertPendingTaskSql: the stable task_uuid makes a      *)
(* second insert a no-op, so only an ABSENT row changes.                   *)
CreatePending(t) ==
  /\ status[t] = "ABSENT"
  /\ status' = [status EXCEPT ![t] = "PENDING_ENQUEUE"]
  /\ retry' = [retry EXCEPT ![t] = 0]
  /\ UNCHANGED <<owner, lease, timeout, age, jobVars, procVars, schedVars, workVars, effects>>

LeaseOver(t) == owner[t] = None \/ lease[t] = 0

(* Mutant: no third branch, a QUEUED row whose job is lost stays behind.   *)
ClaimableByLease(t) ==
  \/ status[t] = "PENDING_ENQUEUE" /\ retry[t] = 0 /\ LeaseOver(t)
  \/ status[t] \in {"QUEUED", "RUNNING"} /\ owner[t] # None /\ lease[t] = 0 /\ t \in Replayable

(* The WHERE of claimOutboxBatch.                                          *)
Claimable(t) ==
  \/ /\ status[t] = "PENDING_ENQUEUE"
     /\ retry[t] = 0
     /\ LeaseOver(t)
  \/ /\ status[t] \in {"QUEUED", "RUNNING"}
     /\ owner[t] # None /\ lease[t] = 0
     /\ t \in Replayable
  \/ /\ status[t] = "QUEUED"
     /\ owner[t] = None
     /\ age[t] >= StalledAfter
     /\ t \in Replayable

ClearLease(t) ==
  /\ owner' = [owner EXCEPT ![t] = None]
  /\ lease' = [lease EXCEPT ![t] = 0]

(* markSucceeded and markFailed: only the RUNNING row under p's own lease. *)
Finish(p, t, final) ==
  IF status[t] = "RUNNING" /\ owner[t] = WorkerId(p)
    THEN /\ status' = [status EXCEPT ![t] = final]
         /\ ClearLease(t)
         /\ UNCHANGED <<retry, timeout, age>>
    ELSE UNCHANGED rowVars

TimedOut(t) == status[t] = "RUNNING" /\ timeout[t] = 0

-----------------------------------------------------------------------------
(* Worker processes *)

(* onModuleInit: fresh scheduler and worker identities, both loops start.  *)
Start(p) ==
  /\ p \notin born
  /\ Cardinality(up) < MaxUp
  /\ up' = up \cup {p} /\ born' = born \cup {p}
  /\ UNCHANGED <<rowVars, jobVars, schedVars, workVars, effects>>

(* The process is gone: its local state is lost, its leases and its BullMQ *)
(* lock stay behind.  Bound: not the last process that can ever run.       *)
Die(p) ==
  /\ p \in up
  /\ up # {p} \/ born # Procs
  /\ up' = up \ {p}
  /\ schedPc' = [schedPc EXCEPT ![p] = "idle"]
  /\ batch' = [batch EXCEPT ![p] = {}] /\ resend' = [resend EXCEPT ![p] = {}]
  /\ schedTask' = [schedTask EXCEPT ![p] = None]
  /\ workPc' = [workPc EXCEPT ![p] = "idle"]
  /\ workTask' = [workTask EXCEPT ![p] = None]
  /\ workMade' = [workMade EXCEPT ![p] = 0]
  /\ beat' = [beat EXCEPT ![p] = 0]
  /\ UNCHANGED <<born, rowVars, jobVars, effects>>

(* A kill, an OOM, or a SQL error in a tick: start() calls `void tick()`   *)
(* and no unhandledRejection handler is installed, so Node exits.          *)
Crash(p) == "crash" \in Faults /\ Die(p)

(* SIGTERM: shutdown() calls beginShutdown(), which sets shuttingDown;     *)
(* app.close() then reaches onModuleDestroy, which returns at once because *)
(* shuttingDown is set, and process.exit(0) follows.                       *)
Sigterm(p) == "sigterm" \in Faults /\ Die(p)

-----------------------------------------------------------------------------
(* The scheduler: OutboxScheduler.tick *)

TickStart(p) ==
  /\ p \in up
  /\ schedPc[p] = "idle"
  /\ schedPc' = [schedPc EXCEPT ![p] = "timeout"]
  /\ UNCHANGED <<rowVars, jobVars, procVars, batch, resend, schedTask, workVars, effects>>

(* failTimedOutTasks: one UPDATE over every row that is out of time.       *)
FailTimedOut(p) ==
  /\ p \in up
  /\ schedPc[p] = "timeout"
  /\ status' = [t \in Tasks |-> IF TimedOut(t) THEN "FAILED" ELSE status[t]]
  /\ owner' = [t \in Tasks |-> IF TimedOut(t) THEN None ELSE owner[t]]
  /\ lease' = [t \in Tasks |-> IF TimedOut(t) THEN 0 ELSE lease[t]]
  /\ schedPc' = [schedPc EXCEPT ![p] = "claim"]
  /\ UNCHANGED <<retry, timeout, age, jobVars, procVars, batch, resend, schedTask, workVars, effects>>

(* claimOutboxBatch: the oldest claimable rows, at most BatchSize of them, *)
(* get the scheduler's enqueue lease; RETURNING hands back their status.   *)
ClaimBatch(p) ==
  /\ p \in up
  /\ schedPc[p] = "claim"
  /\ LET candidates == {t \in Tasks : Claimable(t)}
     IN \E b \in SUBSET candidates :
          /\ Cardinality(b) <= BatchSize
          /\ b # candidates => Cardinality(b) = BatchSize
          /\ \A t \in b, u \in candidates \ b : age[t] >= age[u]
          /\ owner' = [t \in Tasks |-> IF t \in b THEN SchedulerId(p) ELSE owner[t]]
          /\ lease' = [t \in Tasks |-> IF t \in b THEN EnqueueLease ELSE lease[t]]
          /\ batch' = [batch EXCEPT ![p] = b]
          /\ resend' = [resend EXCEPT ![p] = {t \in b : status[t] # "PENDING_ENQUEUE"}]
          /\ schedPc' = [schedPc EXCEPT ![p] = IF b = {} THEN "idle" ELSE "deliver"]
  /\ UNCHANGED <<status, retry, timeout, age, jobVars, procVars, schedTask, workVars, effects>>

(* The next row of the batch; a row that was QUEUED or RUNNING has its     *)
(* left-over job removed first.                                            *)
NextRow(p) ==
  /\ p \in up
  /\ schedPc[p] = "deliver"
  /\ \E t \in batch[p] :
       /\ schedTask' = [schedTask EXCEPT ![p] = t]
       /\ schedPc' = [schedPc EXCEPT ![p] = IF t \in resend[p] THEN "remove" ELSE "add"]
  /\ UNCHANGED <<rowVars, jobVars, procVars, batch, resend, workVars, effects>>

(* A job whose holder lives is locked; a dead holder's lock may or may not *)
(* have run out yet.                                                       *)
Locked(t) == jobState[t] = "active" /\ jobHolder[t] \in up

NoJob(gone) ==
  /\ jobState' = [t \in Tasks |-> IF t \in gone THEN "none" ELSE jobState[t]]
  /\ jobMade' = [t \in Tasks |-> IF t \in gone THEN 0 ELSE jobMade[t]]
  /\ jobDelay' = [t \in Tasks |-> IF t \in gone THEN 0 ELSE jobDelay[t]]
  /\ jobHolder' = [t \in Tasks |-> IF t \in gone THEN None ELSE jobHolder[t]]
  /\ jobStalls' = [t \in Tasks |-> IF t \in gone THEN 0 ELSE jobStalls[t]]

(* queue.remove returned 1: the job, if any, is gone.                      *)
RemoveJob(p) ==
  /\ p \in up
  /\ schedPc[p] = "remove"
  /\ ~Locked(schedTask[p])
  /\ NoJob({schedTask[p]})
  /\ schedPc' = [schedPc EXCEPT ![p] = "add"]
  /\ UNCHANGED <<rowVars, losses, procVars, batch, resend, schedTask, workVars, effects>>

(* queue.remove returned 0, or remove, add or markQueued threw.            *)
DeliveryThrows(p) ==
  /\ p \in up
  /\ \/ schedPc[p] = "remove" /\ jobState[schedTask[p]] = "active"
     \/ schedPc[p] \in {"remove", "add"} /\ "redisError" \in Faults
     \/ schedPc[p] = "mark" /\ "sqlError" \in Faults
  /\ schedPc' = [schedPc EXCEPT ![p] = "release"]
  /\ UNCHANGED <<rowVars, jobVars, procVars, batch, resend, schedTask, workVars, effects>>

(* queue.add: BullMQ drops it silently when the jobId exists in any state. *)
AddJob(p) ==
  /\ p \in up
  /\ schedPc[p] = "add"
  /\ LET t == schedTask[p] IN
       jobState' = [jobState EXCEPT ![t] = IF @ = "none" THEN "waiting" ELSE @]
  /\ schedPc' = [schedPc EXCEPT ![p] = "mark"]
  /\ UNCHANGED <<rowVars, jobMade, jobDelay, jobHolder, jobStalls, losses, procVars,
                 batch, resend, schedTask, workVars, effects>>

RowDone(p) ==
  LET rest == batch[p] \ {schedTask[p]} IN
    /\ batch' = [batch EXCEPT ![p] = rest]
    /\ resend' = [resend EXCEPT ![p] = @ \cap rest]
    /\ schedTask' = [schedTask EXCEPT ![p] = None]
    /\ schedPc' = [schedPc EXCEPT ![p] = IF rest = {} THEN "idle" ELSE "deliver"]

(* markQueued: also for a row reclaimed while QUEUED or RUNNING.           *)
MarkQueued(p) ==
  /\ p \in up
  /\ schedPc[p] = "mark"
  /\ LET t == schedTask[p] IN
       IF /\ status[t] \in {"PENDING_ENQUEUE", "QUEUED", "RUNNING"}
          /\ owner[t] = SchedulerId(p)
         THEN /\ status' = [status EXCEPT ![t] = "QUEUED"]
              /\ ClearLease(t)
              /\ retry' = [retry EXCEPT ![t] = 0]
              /\ UNCHANGED <<timeout, age>>
         ELSE UNCHANGED rowVars
  /\ RowDone(p)
  /\ UNCHANGED <<jobVars, procVars, workVars, effects>>

(* releaseEnqueueLease: only a PENDING_ENQUEUE row backs off, from the     *)
(* tick's own `now`, which lies in the past; a reclaimed row keeps the     *)
(* enqueue lease until it runs out.                                        *)
ReleaseLease(p) ==
  /\ p \in up
  /\ schedPc[p] = "release"
  /\ LET t == schedTask[p] IN
       IF status[t] = "PENDING_ENQUEUE" /\ owner[t] = SchedulerId(p)
         THEN /\ ClearLease(t)
              /\ \E r \in 0 .. EnqueueBackoff : retry' = [retry EXCEPT ![t] = r]
              /\ UNCHANGED <<status, timeout, age>>
         ELSE UNCHANGED rowVars
  /\ RowDone(p)
  /\ UNCHANGED <<jobVars, procVars, workVars, effects>>

-----------------------------------------------------------------------------
(* The consumer: BackgroundTaskWorker.handleJob *)

(* BullMQ hands a waiting job to a free consumer; concurrency is 1.        *)
Pick(p, t) ==
  /\ p \in up
  /\ workPc[p] = "idle"
  /\ jobState[t] = "waiting"
  /\ jobState' = [jobState EXCEPT ![t] = "active"]
  /\ jobHolder' = [jobHolder EXCEPT ![t] = p]
  /\ workPc' = [workPc EXCEPT ![p] = "load"]
  /\ workTask' = [workTask EXCEPT ![p] = t]
  /\ workMade' = [workMade EXCEPT ![p] = jobMade[t]]
  /\ UNCHANGED <<rowVars, jobMade, jobDelay, jobStalls, losses, procVars, schedVars, beat, effects>>

Goto(p, pc) ==
  /\ workPc' = [workPc EXCEPT ![p] = pc]
  /\ UNCHANGED <<jobVars, procVars, schedVars, workTask, workMade>>

(* loadTaskByUuid: no row, or a terminal one, completes the job unrun.     *)
Load(p) ==
  /\ p \in up
  /\ workPc[p] = "load"
  /\ Goto(p, IF status[workTask[p]] \in Terminal \cup {"ABSENT"} THEN "ackDone" ELSE "claim")
  /\ UNCHANGED <<rowVars, beat, effects>>

(* Mutants: the status filter, or the lease filter, of the WHERE dropped.  *)
MayClaimAnyStatus(p, t) == status[t] = "QUEUED" \/ LeaseOver(t) \/ owner[t] = WorkerId(p)
MayClaimAnyLease(p, t) == status[t] \in {"QUEUED", "RUNNING"}

(* The WHERE of claimRunning.                                              *)
MayClaim(p, t) ==
  \/ status[t] = "QUEUED"
  \/ status[t] = "RUNNING" /\ (LeaseOver(t) \/ owner[t] = WorkerId(p))

(* claimRunning; no row updated throws LeaseNotClaimableError, which is    *)
(* outside the try: nothing is marked and BullMQ counts a failed attempt.  *)
Claim(p) ==
  /\ p \in up
  /\ workPc[p] = "claim"
  /\ LET t == workTask[p] IN
       IF MayClaim(p, t)
         THEN /\ status' = [status EXCEPT ![t] = "RUNNING"]
              /\ owner' = [owner EXCEPT ![t] = WorkerId(p)]
              /\ lease' = [lease EXCEPT ![t] = RunningLease]
              /\ timeout' = [timeout EXCEPT ![t] = TimeoutAfter]
              /\ UNCHANGED <<retry, age>>
              /\ beat' = [beat EXCEPT ![p] = HeartbeatEvery]
              /\ Goto(p, "run")
         ELSE UNCHANGED <<rowVars, beat>> /\ Goto(p, "ackFail")
  /\ UNCHANGED effects

Succeeded(t) == effects' = [effects EXCEPT ![t] = IF @ < EffectCap THEN @ + 1 ELSE @]

(* The processor returned.                                                 *)
ExecOk(p) ==
  /\ p \in up
  /\ workPc[p] = "run"
  /\ "ok" \in Outcomes[workTask[p]]
  /\ Succeeded(workTask[p])
  /\ Goto(p, "succeed")
  /\ UNCHANGED <<rowVars, beat>>

(* The catch block: only the last attempt BullMQ would make marks FAILED.  *)
Caught(p) == Goto(p, IF workMade[p] + 1 >= JobAttempts THEN "fail" ELSE "ackFail")

(* The processor threw.                                                    *)
ExecError(p) ==
  /\ p \in up
  /\ workPc[p] = "run"
  /\ "error" \in Outcomes[workTask[p]]
  /\ Caught(p)
  /\ UNCHANGED <<rowVars, beat, effects>>

MarkSucceeded(p) ==
  /\ p \in up
  /\ workPc[p] = "succeed"
  /\ Finish(p, workTask[p], "SUCCEEDED")
  /\ Goto(p, "ackDone")
  /\ UNCHANGED <<beat, effects>>

MarkFailed(p) ==
  /\ p \in up
  /\ workPc[p] = "fail"
  /\ Finish(p, workTask[p], "FAILED")
  /\ Goto(p, "ackFail")
  /\ UNCHANGED <<beat, effects>>

(* A SQL statement of handleJob threw; one inside the try is caught there. *)
WorkSqlError(p) ==
  /\ "sqlError" \in Faults
  /\ p \in up
  /\ \/ workPc[p] \in {"load", "claim", "fail"} /\ Goto(p, "ackFail")
     \/ workPc[p] = "succeed" /\ Caught(p)
  /\ UNCHANGED <<rowVars, beat, effects>>

(* Between claimRunning and the finally block the heartbeat is armed.      *)
Executing(p, t) ==
  /\ p \in up
  /\ workTask[p] = t
  /\ workPc[p] \in {"run", "succeed", "fail"}

(* Mutants: only one of the two instants renewed.                          *)
RenewLease(t) == lease' = [lease EXCEPT ![t] = RunningLease] /\ UNCHANGED timeout
RenewTimeout(t) == timeout' = [timeout EXCEPT ![t] = TimeoutAfter] /\ UNCHANGED lease

Renew(t) ==
  /\ lease' = [lease EXCEPT ![t] = RunningLease]
  /\ timeout' = [timeout EXCEPT ![t] = TimeoutAfter]

(* renewRunningLease, from the setInterval callback: only the RUNNING row  *)
(* under p's own lease is renewed, otherwise the UPDATE matches nothing.   *)
Heartbeat(p) ==
  /\ beat[p] = 0
  /\ beat' = [beat EXCEPT ![p] = HeartbeatEvery]
  /\ \E t \in Tasks :
       /\ Executing(p, t)
       /\ IF status[t] = "RUNNING" /\ owner[t] = WorkerId(p)
            THEN Renew(t)
            ELSE UNCHANGED <<lease, timeout>>
  /\ UNCHANGED <<status, owner, retry, age, jobVars, procVars, schedVars, workPc, workTask,
                 workMade, effects>>

WorkDone(p) ==
  /\ workPc' = [workPc EXCEPT ![p] = "idle"]
  /\ workTask' = [workTask EXCEPT ![p] = None]
  /\ workMade' = [workMade EXCEPT ![p] = 0]
  /\ beat' = [beat EXCEPT ![p] = 0]

Holds(p, t) == jobState[t] = "active" /\ jobHolder[t] = p

(* handleJob returned: BullMQ completes the job if p still holds it.       *)
AckDone(p) ==
  /\ p \in up
  /\ workPc[p] = "ackDone"
  /\ LET t == workTask[p] IN
       IF Holds(p, t)
         THEN /\ jobState' = [jobState EXCEPT ![t] = "completed"]
              /\ jobHolder' = [jobHolder EXCEPT ![t] = None]
         ELSE UNCHANGED <<jobState, jobHolder>>
  /\ WorkDone(p)
  /\ UNCHANGED <<rowVars, jobMade, jobDelay, jobStalls, losses, procVars, schedVars, effects>>

(* Mutant: off by one, a retry after the last attempt.                     *)
MayRetryOnceMore(made) == made <= JobAttempts

MayRetry(made) == made < JobAttempts

(* handleJob threw: BullMQ retries after the backoff or fails the job.     *)
AckFail(p) ==
  /\ p \in up
  /\ workPc[p] = "ackFail"
  /\ LET t == workTask[p]
         made == workMade[p] + 1
     IN IF Holds(p, t)
          THEN /\ jobMade' = [jobMade EXCEPT ![t] = made]
               /\ jobHolder' = [jobHolder EXCEPT ![t] = None]
               /\ IF MayRetry(made)
                    THEN /\ jobState' = [jobState EXCEPT ![t] = "delayed"]
                         /\ jobDelay' = [jobDelay EXCEPT ![t] = JobBackoff[made]]
                    ELSE /\ jobState' = [jobState EXCEPT ![t] = "failed"]
                         /\ UNCHANGED jobDelay
          ELSE UNCHANGED <<jobState, jobMade, jobDelay, jobHolder>>
  /\ WorkDone(p)
  /\ UNCHANGED <<rowVars, jobStalls, losses, procVars, schedVars, effects>>

-----------------------------------------------------------------------------
(* BullMQ and Redis, as the worker's options use them *)

Promote(t) ==
  /\ jobState[t] = "delayed" /\ jobDelay[t] = 0
  /\ jobState' = [jobState EXCEPT ![t] = "waiting"]
  /\ UNCHANGED <<rowVars, jobMade, jobDelay, jobHolder, jobStalls, losses, procVars, schedVars,
                 workVars, effects>>

MayStall(t) == jobStalls[t] < MaxStalls

(* The lock of a dead holder ran out: back to waiting, or failed without   *)
(* the handler running when it has stalled too often.                      *)
StalledCheck(t) ==
  /\ up # {}
  /\ jobState[t] = "active" /\ jobHolder[t] \notin up
  /\ jobHolder' = [jobHolder EXCEPT ![t] = None]
  /\ IF MayStall(t)
       THEN /\ jobState' = [jobState EXCEPT ![t] = "waiting"]
            /\ jobStalls' = [jobStalls EXCEPT ![t] = @ + 1]
       ELSE /\ jobState' = [jobState EXCEPT ![t] = "failed"]
            /\ UNCHANGED jobStalls
  /\ UNCHANGED <<rowVars, jobMade, jobDelay, losses, procVars, schedVars, workVars, effects>>

(* QueueMaintenance.clean and removeOnComplete/removeOnFail.               *)
CleanJob(t) ==
  /\ jobState[t] \in {"completed", "failed"}
  /\ NoJob({t})
  /\ UNCHANGED <<rowVars, losses, procVars, schedVars, workVars, effects>>

RedisLoss ==
  /\ "redisLoss" \in Faults
  /\ losses < MaxRedisLosses
  /\ \E t \in Tasks : jobState[t] # "none"
  /\ NoJob(Tasks)
  /\ losses' = losses + 1
  /\ UNCHANGED <<rowVars, procVars, schedVars, workVars, effects>>

-----------------------------------------------------------------------------
(* The clock *)

(* An armed interval that should have fired by now.  A punctual event loop *)
(* fires it before time goes on; a blocked one, or a renewal whose UPDATE  *)
(* failed (the error is swallowed), lets time pass: "lateHeartbeat".       *)
HeartbeatDue(p) == beat[p] = 0 /\ \E t \in Tasks : Executing(p, t)

(* Everything that takes well under one Tick has been done.                *)
Settled ==
  /\ up # {} \/ born = Procs
  /\ \A p \in up : schedPc[p] = "idle" /\ workPc[p] \in {"idle", "run"}
  /\ \A t \in Tasks :
       /\ ~TimedOut(t)
       /\ Claimable(t) => /\ status[t] = "QUEUED" /\ owner[t] = None
                          /\ jobState[t] \in {"waiting", "active", "delayed"}
       /\ jobState[t] = "waiting" => \A p \in up : workPc[p] # "idle"
       /\ ~(jobState[t] = "delayed" /\ jobDelay[t] = 0)
       /\ ~(jobState[t] = "active" /\ jobHolder[t] \notin up)

Down(n) == IF n > 0 THEN n - 1 ELSE 0

(* One Tick passes.  The statements of a scheduler tick up to the claim    *)
(* use one `now` and are taken to fit into one Tick.                       *)
Tick ==
  /\ \A p \in Procs : schedPc[p] \notin {"timeout", "claim"}
  /\ "lateHeartbeat" \in Faults \/ \A p \in Procs : ~HeartbeatDue(p)
  /\ Prompt => Settled
  /\ lease' = [t \in Tasks |-> Down(lease[t])]
  /\ retry' = [t \in Tasks |-> Down(retry[t])]
  /\ timeout' = [t \in Tasks |-> Down(timeout[t])]
  /\ age' = [t \in Tasks |-> IF status[t] # "ABSENT" /\ age[t] < StalledAfter THEN age[t] + 1
                             ELSE age[t]]
  /\ jobDelay' = [t \in Tasks |-> Down(jobDelay[t])]
  /\ beat' = [p \in Procs |-> Down(beat[p])]
  /\ UNCHANGED <<status, owner, jobState, jobMade, jobHolder, jobStalls, losses, procVars,
                 schedVars, workPc, workTask, workMade, effects>>

-----------------------------------------------------------------------------
Scheduler(p) ==
  \/ TickStart(p) \/ FailTimedOut(p) \/ ClaimBatch(p) \/ NextRow(p) \/ RemoveJob(p)
  \/ AddJob(p) \/ DeliveryThrows(p) \/ MarkQueued(p) \/ ReleaseLease(p)

(* Every step of handleJob but the timer's.                                *)
HandleJob(p) ==
  \/ Load(p) \/ Claim(p) \/ ExecOk(p) \/ ExecError(p) \/ MarkSucceeded(p) \/ MarkFailed(p)
  \/ WorkSqlError(p) \/ AckDone(p) \/ AckFail(p)

Consumer(p) == (\E t \in Tasks : Pick(p, t)) \/ HandleJob(p) \/ Heartbeat(p)

Queue ==
  \/ \E t \in Tasks : Promote(t) \/ StalledCheck(t) \/ CleanJob(t)
  \/ RedisLoss

Next ==
  \/ \E t \in Tasks : CreatePending(t)
  \/ \E p \in Procs : Start(p) \/ Crash(p) \/ Sigterm(p) \/ Scheduler(p) \/ Consumer(p)
  \/ Queue
  \/ Tick

Spec == Init /\ [][Next]_vars

(* Time passes between the scheduler's ticks (strong: a tick takes it away *)
(* for a moment), the container is restarted, each loop of a live process  *)
(* goes on, BullMQ serves its queue.  A delivery's steps are strongly fair *)
(* because Redis and PostgreSQL do not refuse every time.  Pick is         *)
(* strongly fair: a scheduler may take the waiting job away and put it     *)
(* back between two polls, but not between every two.  No fault is fair.   *)
Fairness ==
  /\ SF_vars(Tick)
  /\ \A p \in Procs :
       /\ WF_vars(Start(p))
       /\ WF_vars(Scheduler(p))
       /\ SF_vars(RemoveJob(p)) /\ SF_vars(AddJob(p)) /\ SF_vars(MarkQueued(p))
       /\ WF_vars(HandleJob(p)) /\ WF_vars(Heartbeat(p))
       /\ \A t \in Tasks : SF_vars(Pick(p, t))
  /\ \A t \in Tasks : WF_vars(Promote(t)) /\ WF_vars(StalledCheck(t))

FairSpec == Spec /\ Fairness

-----------------------------------------------------------------------------
(* Properties *)

(* A live executor keeps its row: while p is between claimRunning and the  *)
(* end of its try block, with its heartbeat on time, the row stays RUNNING *)
(* under p's lease.  Neither claimOutboxBatch nor another claimRunning nor *)
(* failTimedOutTasks takes it away.                                        *)
ExecutorKeepsRow ==
  \A p \in Procs, t \in Tasks :
    Executing(p, t) => status[t] = "RUNNING" /\ owner[t] = WorkerId(p)

(* No task is executed by two processes at once (the heartbeat's purpose:  *)
(* "the same task executed twice", background-task-worker.ts:107).         *)
OneExecutor ==
  \A p, q \in Procs, t \in Tasks : Executing(p, t) /\ Executing(q, t) => p = q

(* A terminal status is never left: a late worker, a redelivered job or a  *)
(* reclaim after the end changes nothing.                                  *)
TerminalIsFinal ==
  [][\A t \in Tasks : status[t] \in Terminal => status'[t] = status[t]]_vars

(* Without a crash and without a failing UPDATE a task whose processor     *)
(* succeeds runs once, however often Redis loses or refuses the job.       *)
EffectAtMostOnce == \A t \in Tasks : effects[t] <= 1

(* Every created task ends, however often Redis loses or refuses its job:  *)
(* the scheduler finds a QUEUED row whose job is gone by its age and sends *)
(* it again (the third branch of claimOutboxBatch).                        *)
ReachesTerminal == \A t \in Tasks : status[t] # "ABSENT" ~> status[t] \in Terminal

(* When the processor does not fail, a crash or a Redis loss never costs   *)
(* the task: it is recovered before timeout_at turns it into FAILED.       *)
ReachesSuccess == \A t \in Tasks : status[t] # "ABSENT" ~> status[t] = "SUCCEEDED"

(* A task whose processor always throws is FAILED in the end: "retries use *)
(* a bounded backoff" (docs/prds/prd.md 9.1) and TASK_MAX_ATTEMPTS.        *)
PoisonEnds ==
  \A t \in Tasks :
    (status[t] # "ABSENT" /\ Outcomes[t] = {"error"}) ~> status[t] = "FAILED"

=============================================================================
