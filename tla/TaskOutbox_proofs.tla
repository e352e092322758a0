-------------------------- MODULE TaskOutbox_proofs --------------------------
(***************************************************************************)
(* The worker's guarantees for every set of tasks and of processes, every  *)
(* lease, backoff and number of attempts, and every fault but a late       *)
(* heartbeat: types, the row stays with its live executor, no task has two *)
(* executors, a terminal status is final, an effect happens at most once;  *)
(* and with heartbeats on time TaskOutbox implements TaskPromise.          *)
(***************************************************************************)
EXTENDS TaskOutboxRefines, TLAPS

USE DEF Terminal

(* The owner ids of distinct processes and roles are distinct, and no id   *)
(* is NULL (randomUUID per role and start, worker-runtime.service.ts:46).  *)
LEMMA OwnersDistinct ==
  /\ \A p \in Procs : WorkerId(p) \in OwnerIds /\ SchedulerId(p) \in OwnerIds
  /\ \A p \in Procs : WorkerId(p) # None /\ SchedulerId(p) # None
  /\ \A p, q \in Procs : WorkerId(p) = WorkerId(q) => p = q
  /\ \A p, q \in Procs : WorkerId(p) # SchedulerId(q)
BY TaskOutboxAssumption DEF WorkerId, SchedulerId, OwnerIds

(* The numbers among the constants.                                        *)
LEMMA ConstantsAreNumbers ==
  /\ RunningLease \in Nat /\ TimeoutAfter \in Nat
  /\ JobAttempts \in Nat /\ JobAttempts > 0
  /\ EnqueueBackoff \in Nat /\ MaxStalls \in Nat /\ StalledAfter \in Nat
<1>1. RunningLease \in Nat /\ JobAttempts \in Nat \ {0}
  BY TaskOutboxAssumption
<1>2. EnqueueBackoff \in Nat /\ MaxStalls \in Nat /\ StalledAfter \in Nat
  BY TaskOutboxAssumption
<1> QED
  BY <1>1, <1>2 DEF TimeoutAfter

(* The heartbeat interval is shorter than the lease it renews.             *)
LEMMA HeartbeatShorter == HeartbeatEvery \in Nat /\ HeartbeatEvery < RunningLease
BY TaskOutboxAssumption DEF HeartbeatEvery

(* An instant that is due stays due, any other comes one Tick closer.      *)
LEMMA DownTypes ==
  \A n \in Nat : Down(n) \in Nat /\ Down(n) <= n /\ (n > 0 => Down(n) = n - 1)
BY DEF Down

(* Initially every variable has its type.                                  *)
LEMMA TypeInit == Init => TypeOK
BY TaskOutboxAssumption, HeartbeatShorter
DEF Init, TypeOK, RowTypeOK, JobTypeOK, ProcTypeOK, SchedTypeOK, WorkTypeOK, EffectTypeOK,
    Statuses, JobStates, SchedPcs, WorkPcs

(* A part of the state that a step leaves alone keeps its type.            *)
LEMMA TypeUnchanged ==
  /\ RowTypeOK /\ UNCHANGED rowVars => RowTypeOK'
  /\ JobTypeOK /\ UNCHANGED jobVars => JobTypeOK'
  /\ ProcTypeOK /\ UNCHANGED procVars => ProcTypeOK'
  /\ SchedTypeOK /\ UNCHANGED schedVars => SchedTypeOK'
  /\ WorkTypeOK /\ UNCHANGED workVars => WorkTypeOK'
  /\ EffectTypeOK /\ UNCHANGED effects => EffectTypeOK'
<1>1. RowTypeOK /\ UNCHANGED rowVars => RowTypeOK'
  BY DEF RowTypeOK, rowVars
<1>2. JobTypeOK /\ UNCHANGED jobVars => JobTypeOK'
  BY DEF JobTypeOK, jobVars
<1>3. ProcTypeOK /\ UNCHANGED procVars => ProcTypeOK'
  BY DEF ProcTypeOK, procVars
<1>4. SchedTypeOK /\ UNCHANGED schedVars => SchedTypeOK'
  BY DEF SchedTypeOK, schedVars
<1>5. WorkTypeOK /\ UNCHANGED workVars => WorkTypeOK'
  BY DEF WorkTypeOK, workVars
<1>6. EffectTypeOK /\ UNCHANGED effects => EffectTypeOK'
  BY DEF EffectTypeOK
<1> QED
  BY <1>1, <1>2, <1>3, <1>4, <1>5, <1>6

(* Every action of the rows, the processes, the scheduler, the consumer,   *)
(* the queue and the clock keeps the types.                                *)
LEMMA TypeStep == TypeOK /\ [Next]_vars => TypeOK'
<1> SUFFICES ASSUME TypeOK, [Next]_vars PROVE TypeOK'
  OBVIOUS
<1> USE TypeUnchanged DEF TypeOK
<1>1. ASSUME NEW t \in Tasks, CreatePending(t) PROVE TypeOK'
  <2>1. RowTypeOK'
    BY <1>1, TaskOutboxAssumption, OwnersDistinct DEF CreatePending, Statuses, RowTypeOK
  <2>2. UNCHANGED <<jobVars, procVars, schedVars, workVars, effects>>
    BY <1>1 DEF CreatePending
  <2> QED
    BY <2>1, <2>2
<1>2. ASSUME NEW p \in Procs, Start(p) PROVE TypeOK'
  <2>1. ProcTypeOK'
    BY <1>2 DEF Start, ProcTypeOK
  <2>2. UNCHANGED <<rowVars, jobVars, schedVars, workVars, effects>>
    BY <1>2 DEF Start
  <2> QED
    BY <2>1, <2>2
<1>3. ASSUME NEW p \in Procs, Crash(p) \/ Sigterm(p) PROVE TypeOK'
  <2>1. ProcTypeOK'
    BY <1>3 DEF Crash, Sigterm, Die, ProcTypeOK
  <2>2. SchedTypeOK'
    BY <1>3 DEF Crash, Sigterm, Die, SchedPcs, SchedTypeOK
  <2>3. WorkTypeOK'
    <3>1. /\ workPc' = [workPc EXCEPT ![p] = "idle"] /\ workTask' = [workTask EXCEPT ![p] = None]
          /\ workMade' = [workMade EXCEPT ![p] = 0] /\ beat' = [beat EXCEPT ![p] = 0]
      BY <1>3 DEF Crash, Sigterm, Die
    <3> QED
      BY <3>1, HeartbeatShorter, TaskOutboxAssumption DEF WorkPcs, WorkTypeOK
  <2>4. UNCHANGED <<rowVars, jobVars, effects>>
    BY <1>3 DEF Crash, Sigterm, Die
  <2> QED
    BY <2>1, <2>2, <2>3, <2>4
<1>4. ASSUME NEW p \in Procs, TickStart(p) PROVE TypeOK'
  <2>1. SchedTypeOK'
    BY <1>4 DEF TickStart, SchedPcs, SchedTypeOK
  <2>2. UNCHANGED <<rowVars, jobVars, procVars, workVars, effects>>
    BY <1>4 DEF TickStart
  <2> QED
    BY <2>1, <2>2
<1>5. ASSUME NEW p \in Procs, FailTimedOut(p) PROVE TypeOK'
  <2>1. RowTypeOK'
    BY <1>5, TaskOutboxAssumption, OwnersDistinct DEF FailTimedOut, Statuses, RowTypeOK, SchedTypeOK
  <2>2. SchedTypeOK'
    BY <1>5 DEF FailTimedOut, SchedPcs, SchedTypeOK
  <2>3. UNCHANGED <<jobVars, procVars, workVars, effects>>
    BY <1>5 DEF FailTimedOut
  <2> QED
    BY <2>1, <2>2, <2>3
<1>6. ASSUME NEW p \in Procs, ClaimBatch(p) PROVE TypeOK'
  <2>1. RowTypeOK'
    BY <1>6, TaskOutboxAssumption, OwnersDistinct DEF ClaimBatch, RowTypeOK, SchedTypeOK
  <2>2. SchedTypeOK'
    BY <1>6 DEF ClaimBatch, SchedPcs, SchedTypeOK
  <2>3. UNCHANGED <<jobVars, procVars, workVars, effects>>
    BY <1>6 DEF ClaimBatch
  <2> QED
    BY <2>1, <2>2, <2>3
<1>7. ASSUME NEW p \in Procs, NextRow(p) PROVE TypeOK'
  <2>1. SchedTypeOK'
    BY <1>7 DEF NextRow, SchedPcs, SchedTypeOK
  <2>2. UNCHANGED <<rowVars, jobVars, procVars, workVars, effects>>
    BY <1>7 DEF NextRow
  <2> QED
    BY <2>1, <2>2
<1>8. ASSUME NEW p \in Procs, RemoveJob(p) PROVE TypeOK'
  <2>1. JobTypeOK'
    BY <1>8, TaskOutboxAssumption DEF RemoveJob, NoJob, JobStates, JobTypeOK, SchedTypeOK
  <2>2. SchedTypeOK'
    BY <1>8 DEF RemoveJob, SchedPcs, SchedTypeOK
  <2>3. UNCHANGED <<rowVars, procVars, workVars, effects>>
    BY <1>8 DEF RemoveJob, NoJob
  <2> QED
    BY <2>1, <2>2, <2>3
<1>9. ASSUME NEW p \in Procs, AddJob(p) PROVE TypeOK'
  <2>1. JobTypeOK'
    BY <1>9, TaskOutboxAssumption DEF AddJob, JobStates, JobTypeOK, SchedTypeOK
  <2>2. SchedTypeOK'
    BY <1>9 DEF AddJob, SchedPcs, SchedTypeOK
  <2>3. UNCHANGED <<rowVars, procVars, workVars, effects>>
    BY <1>9 DEF AddJob
  <2> QED
    BY <2>1, <2>2, <2>3
<1>10. ASSUME NEW p \in Procs, DeliveryThrows(p) PROVE TypeOK'
  <2>1. SchedTypeOK'
    BY <1>10 DEF DeliveryThrows, SchedPcs, SchedTypeOK
  <2>2. UNCHANGED <<rowVars, jobVars, procVars, workVars, effects>>
    BY <1>10 DEF DeliveryThrows
  <2> QED
    BY <2>1, <2>2
<1>11. ASSUME NEW p \in Procs, MarkQueued(p) PROVE TypeOK'
  <2>1. RowTypeOK'
    <3> DEFINE t == schedTask[p]
    <3>1. CASE UNCHANGED rowVars
      BY <3>1
    <3>2. CASE /\ status' = [status EXCEPT ![t] = "QUEUED"] /\ ClearLease(t)
               /\ retry' = [retry EXCEPT ![t] = 0] /\ UNCHANGED <<timeout, age>>
      BY <3>2 DEF ClearLease, Statuses, RowTypeOK
    <3> QED
      BY <1>11, <3>1, <3>2 DEF MarkQueued
  <2>2. SchedTypeOK'
    BY <1>11 DEF MarkQueued, RowDone, SchedPcs, SchedTypeOK
  <2>3. UNCHANGED <<jobVars, procVars, workVars, effects>>
    BY <1>11 DEF MarkQueued
  <2> QED
    BY <2>1, <2>2, <2>3
<1>12. ASSUME NEW p \in Procs, ReleaseLease(p) PROVE TypeOK'
  <2>1. RowTypeOK'
    <3> DEFINE t == schedTask[p]
    <3>1. CASE UNCHANGED rowVars
      BY <3>1
    <3>2. ASSUME NEW r \in 0 .. EnqueueBackoff, ClearLease(t),
                 retry' = [retry EXCEPT ![t] = r], UNCHANGED <<status, timeout, age>>
          PROVE  RowTypeOK'
      <4>1. r \in Nat
        BY TaskOutboxAssumption
      <4> QED
        BY <3>2, <4>1 DEF ClearLease, RowTypeOK
    <3> QED
      BY <1>12, <3>1, <3>2 DEF ReleaseLease
  <2>2. SchedTypeOK'
    BY <1>12 DEF ReleaseLease, RowDone, SchedPcs, SchedTypeOK
  <2>3. UNCHANGED <<jobVars, procVars, workVars, effects>>
    BY <1>12 DEF ReleaseLease
  <2> QED
    BY <2>1, <2>2, <2>3
<1>13. ASSUME NEW p \in Procs, NEW t \in Tasks, Pick(p, t) PROVE TypeOK'
  <2>1. JobTypeOK'
    BY <1>13, TaskOutboxAssumption DEF Pick, JobStates, JobTypeOK, WorkTypeOK
  <2>2. WorkTypeOK'
    BY <1>13, HeartbeatShorter DEF Pick, WorkPcs, WorkTypeOK, JobTypeOK
  <2>3. UNCHANGED <<rowVars, procVars, schedVars, effects>>
    BY <1>13 DEF Pick
  <2> QED
    BY <2>1, <2>2, <2>3
<1>14. ASSUME NEW p \in Procs, Load(p) PROVE TypeOK'
  <2>1. WorkTypeOK'
    BY <1>14, HeartbeatShorter DEF Load, Goto, WorkPcs, WorkTypeOK
  <2>2. UNCHANGED <<rowVars, jobVars, procVars, schedVars, effects>>
    BY <1>14 DEF Load, Goto
  <2> QED
    BY <2>1, <2>2
<1>15. ASSUME NEW p \in Procs, Claim(p) PROVE TypeOK'
  <2>1. RowTypeOK'
    <3> DEFINE t == workTask[p]
    <3>1. CASE UNCHANGED rowVars
      BY <3>1
    <3>2. CASE /\ status' = [status EXCEPT ![t] = "RUNNING"]
               /\ owner' = [owner EXCEPT ![t] = WorkerId(p)]
               /\ lease' = [lease EXCEPT ![t] = RunningLease]
               /\ timeout' = [timeout EXCEPT ![t] = TimeoutAfter]
               /\ UNCHANGED <<retry, age>>
      <4>1. status' \in [Tasks -> Statuses] /\ owner' \in [Tasks -> OwnerIds \cup {None}]
        BY <3>2, OwnersDistinct DEF Statuses, RowTypeOK
      <4>2. lease' \in [Tasks -> Nat] /\ timeout' \in [Tasks -> Nat]
        BY <3>2, ConstantsAreNumbers DEF RowTypeOK
      <4> QED
        BY <3>2, <4>1, <4>2 DEF RowTypeOK
    <3> QED
      BY <1>15, <3>1, <3>2 DEF Claim
  <2>2. WorkTypeOK'
    BY <1>15, HeartbeatShorter DEF Claim, Goto, WorkPcs, WorkTypeOK
  <2>3. UNCHANGED <<jobVars, procVars, schedVars, effects>>
    BY <1>15 DEF Claim, Goto
  <2> QED
    BY <2>1, <2>2, <2>3
<1>16. ASSUME NEW p \in Procs, ExecOk(p) PROVE TypeOK'
  <2>1. WorkTypeOK'
    BY <1>16, HeartbeatShorter DEF ExecOk, Goto, WorkPcs, WorkTypeOK
  <2>2. EffectTypeOK'
    BY <1>16, TaskOutboxAssumption DEF ExecOk, Succeeded, EffectTypeOK, WorkTypeOK
  <2>3. UNCHANGED <<rowVars, jobVars, procVars, schedVars>>
    BY <1>16 DEF ExecOk, Goto
  <2> QED
    BY <2>1, <2>2, <2>3
<1>17. ASSUME NEW p \in Procs, ExecError(p) \/ WorkSqlError(p) PROVE TypeOK'
  <2>1. WorkTypeOK'
    BY <1>17, HeartbeatShorter DEF ExecError, WorkSqlError, Caught, Goto, WorkPcs, WorkTypeOK
  <2>2. UNCHANGED <<rowVars, jobVars, procVars, schedVars, effects>>
    BY <1>17 DEF ExecError, WorkSqlError, Caught, Goto
  <2> QED
    BY <2>1, <2>2
<1>18. ASSUME NEW p \in Procs, MarkSucceeded(p) \/ MarkFailed(p) PROVE TypeOK'
  <2>1. RowTypeOK'
    <3> DEFINE t == workTask[p]
    <3>1. CASE UNCHANGED rowVars
      BY <3>1
    <3>2. ASSUME NEW final \in Terminal, status' = [status EXCEPT ![t] = final],
                 ClearLease(t), UNCHANGED <<retry, timeout, age>>
          PROVE  RowTypeOK'
      BY <3>2 DEF ClearLease, Statuses, RowTypeOK
    <3> QED
      BY <1>18, <3>1, <3>2 DEF MarkSucceeded, MarkFailed, Finish
  <2>2. WorkTypeOK'
    BY <1>18, HeartbeatShorter DEF MarkSucceeded, MarkFailed, Goto, WorkPcs, WorkTypeOK
  <2>3. UNCHANGED <<jobVars, procVars, schedVars, effects>>
    BY <1>18 DEF MarkFailed, MarkSucceeded, Goto
  <2> QED
    BY <2>1, <2>2, <2>3
<1>19. ASSUME NEW p \in Procs, Heartbeat(p) PROVE TypeOK'
  <2>1. RowTypeOK'
    <3>1. CASE UNCHANGED <<lease, timeout>>
      BY <1>19, <3>1 DEF Heartbeat, RowTypeOK
    <3>2. ASSUME NEW t \in Tasks, Renew(t) PROVE RowTypeOK'
      BY <1>19, <3>2, TaskOutboxAssumption DEF Heartbeat, Renew, TimeoutAfter, RowTypeOK
    <3> QED
      BY <1>19, <3>1, <3>2 DEF Heartbeat
  <2>2. WorkTypeOK'
    BY <1>19, HeartbeatShorter DEF Heartbeat, WorkTypeOK
  <2>3. UNCHANGED <<jobVars, procVars, schedVars, effects>>
    BY <1>19 DEF Heartbeat
  <2> QED
    BY <2>1, <2>2, <2>3
<1>20. ASSUME NEW p \in Procs, AckDone(p) PROVE TypeOK'
  <2>1. JobTypeOK'
    <3> DEFINE t == workTask[p]
    <3>1. CASE UNCHANGED jobVars
      BY <3>1
    <3>2. CASE /\ jobState' = [jobState EXCEPT ![t] = "completed"]
               /\ jobHolder' = [jobHolder EXCEPT ![t] = None]
               /\ UNCHANGED <<jobMade, jobDelay, jobStalls, losses>>
      BY <3>2 DEF JobStates, JobTypeOK
    <3> QED
      BY <1>20, <3>1, <3>2 DEF AckDone, jobVars
  <2>2. WorkTypeOK'
    BY <1>20, HeartbeatShorter, TaskOutboxAssumption DEF AckDone, WorkDone, WorkPcs, WorkTypeOK
  <2>3. UNCHANGED <<rowVars, procVars, schedVars, effects>>
    BY <1>20 DEF AckDone, WorkDone
  <2> QED
    BY <2>1, <2>2, <2>3
<1>21. ASSUME NEW p \in Procs, AckFail(p) PROVE TypeOK'
  <2>1. JobTypeOK'
    <3> DEFINE t == workTask[p]
               made == workMade[p] + 1
    <3>1. CASE UNCHANGED jobVars
      BY <3>1
    <3>2. made \in 1 .. JobAttempts
      <4>1. workPc[p] = "ackFail"
        BY <1>21 DEF AckFail
      <4> QED
        <5>1. workMade[p] \in 0 .. JobAttempts /\ workMade[p] < JobAttempts
          BY <4>1 DEF WorkTypeOK
        <5> QED
          BY <5>1, ConstantsAreNumbers
    <3> HIDE DEF made
    <3>5. (jobMade' = [jobMade EXCEPT ![t] = made]) => jobMade' \in [Tasks -> 0 .. JobAttempts]
      <4>1. made \in 0 .. JobAttempts
        BY <3>2
      <4>2. jobMade \in [Tasks -> 0 .. JobAttempts]
        BY DEF JobTypeOK
      <4> QED
        BY <4>1, <4>2
    <3>6. (jobHolder' = [jobHolder EXCEPT ![t] = None]) => jobHolder' \in [Tasks -> Procs \cup {None}]
      BY DEF JobTypeOK
    <3>3. CASE /\ jobMade' = [jobMade EXCEPT ![t] = made]
               /\ jobHolder' = [jobHolder EXCEPT ![t] = None]
               /\ made < JobAttempts
               /\ jobState' = [jobState EXCEPT ![t] = "delayed"]
               /\ jobDelay' = [jobDelay EXCEPT ![t] = JobBackoff[made]]
               /\ UNCHANGED <<jobStalls, losses>>
      <4>1. JobBackoff[made] \in Nat
        BY <3>2, TaskOutboxAssumption
      <4>2. jobState' \in [Tasks -> JobStates] /\ jobDelay' \in [Tasks -> Nat]
        BY <3>3, <4>1 DEF JobStates, JobTypeOK
      <4>3. \A u \in Tasks : jobState'[u] \notin {"completed", "failed"} => jobMade'[u] < JobAttempts
        BY <3>3 DEF JobTypeOK
      <4> QED
        BY <3>3, <3>5, <3>6, <4>2, <4>3 DEF JobTypeOK
    <3>4. CASE /\ jobMade' = [jobMade EXCEPT ![t] = made]
               /\ jobHolder' = [jobHolder EXCEPT ![t] = None]
               /\ jobState' = [jobState EXCEPT ![t] = "failed"]
               /\ UNCHANGED <<jobDelay, jobStalls, losses>>
      <4>1. jobState' \in [Tasks -> JobStates]
        BY <3>4 DEF JobStates, JobTypeOK
      <4>2. \A u \in Tasks : jobState'[u] \notin {"completed", "failed"} => jobMade'[u] < JobAttempts
        BY <3>4 DEF JobTypeOK
      <4> QED
        BY <3>4, <3>5, <3>6, <4>1, <4>2 DEF JobTypeOK
    <3> QED
      BY <1>21, <3>1, <3>3, <3>4 DEF AckFail, MayRetry, jobVars, made
  <2>2. WorkTypeOK'
    BY <1>21, HeartbeatShorter, TaskOutboxAssumption DEF AckFail, WorkDone, WorkPcs, WorkTypeOK
  <2>3. UNCHANGED <<rowVars, procVars, schedVars, effects>>
    BY <1>21 DEF AckFail, WorkDone
  <2> QED
    BY <2>1, <2>2, <2>3
<1>22. ASSUME NEW t \in Tasks, Promote(t) \/ StalledCheck(t) \/ CleanJob(t) PROVE TypeOK'
  <2>1. JobTypeOK'
    <3>1. CASE Promote(t)
      BY <3>1 DEF Promote, JobStates, JobTypeOK
    <3>2. CASE StalledCheck(t)
      <4>1. jobState' \in [Tasks -> JobStates] /\ jobHolder' \in [Tasks -> Procs \cup {None}]
        BY <3>2 DEF StalledCheck, JobStates, JobTypeOK
      <4>2. jobStalls' \in [Tasks -> 0 .. MaxStalls]
        <5>1. MayStall(t) => jobStalls[t] + 1 \in 0 .. MaxStalls
          BY TaskOutboxAssumption DEF MayStall, JobTypeOK
        <5> QED
          BY <3>2, <5>1 DEF StalledCheck, JobTypeOK
      <4>3. UNCHANGED <<jobMade, jobDelay, losses>>
        BY <3>2 DEF StalledCheck
      <4>4. \A u \in Tasks : jobState'[u] \notin {"completed", "failed"} => jobMade'[u] < JobAttempts
        BY <3>2, <4>3 DEF StalledCheck, JobTypeOK
      <4> QED
        BY <4>1, <4>2, <4>3, <4>4 DEF JobTypeOK
    <3>3. CASE CleanJob(t)
      BY <3>3, TaskOutboxAssumption DEF CleanJob, NoJob, JobStates, JobTypeOK
    <3> QED
      BY <1>22, <3>1, <3>2, <3>3
  <2>2. UNCHANGED <<rowVars, procVars, schedVars, workVars, effects>>
    BY <1>22 DEF CleanJob, Promote, StalledCheck, NoJob
  <2> QED
    BY <2>1, <2>2
<1>23. CASE RedisLoss
  <2>1. JobTypeOK'
    BY <1>23, TaskOutboxAssumption DEF RedisLoss, NoJob, JobTypeOK, JobStates
  <2>2. UNCHANGED <<rowVars, procVars, schedVars, workVars, effects>>
    BY <1>23 DEF RedisLoss
  <2> QED
    BY <2>1, <2>2
<1>24. CASE Tick
  <2>1. RowTypeOK'
    <3>1. UNCHANGED <<status, owner>>
      BY <1>24 DEF Tick
    <3>2. lease' \in [Tasks -> Nat] /\ retry' \in [Tasks -> Nat] /\ timeout' \in [Tasks -> Nat]
      BY <1>24, DownTypes DEF Tick, RowTypeOK
    <3>3. age' \in [Tasks -> 0 .. StalledAfter]
      BY <1>24, TaskOutboxAssumption DEF Tick, RowTypeOK
    <3> QED
      BY <3>1, <3>2, <3>3 DEF RowTypeOK
  <2>2. JobTypeOK'
    <3>1. jobDelay' \in [Tasks -> Nat]
      BY <1>24, DownTypes DEF Tick, JobTypeOK
    <3>2. UNCHANGED <<jobState, jobMade, jobHolder, jobStalls, losses>>
      BY <1>24 DEF Tick
    <3> QED
      BY <3>1, <3>2 DEF JobTypeOK
  <2>3. WorkTypeOK'
    <3>1. beat' \in [Procs -> 0 .. HeartbeatEvery]
      BY <1>24, DownTypes, HeartbeatShorter DEF Tick, WorkTypeOK
    <3>2. UNCHANGED <<workPc, workTask, workMade>>
      BY <1>24 DEF Tick
    <3> QED
      BY <3>1, <3>2 DEF WorkTypeOK
  <2>4. UNCHANGED <<procVars, schedVars, effects>>
    BY <1>24 DEF Tick
  <2> QED
    BY <2>1, <2>2, <2>3, <2>4
<1>25. CASE UNCHANGED vars
  BY <1>25 DEF vars
<1> QED
  BY <1>1, <1>2, <1>3, <1>4, <1>5, <1>6, <1>7, <1>8, <1>9, <1>10, <1>11, <1>12, <1>13, <1>14, <1>15, <1>16, <1>17, <1>18, <1>19, <1>20, <1>21, <1>22, <1>23, <1>24, <1>25
  DEF Next, Scheduler, Consumer, HandleJob, Queue

-----------------------------------------------------------------------------
(* Why a live executor keeps its row: its lease and its timeout are both   *)
(* further away than the next heartbeat, so no claimOutboxBatch, no other  *)
(* claimRunning and no failTimedOutTasks finds the row in reach.           *)
KeepsRow(p, t) ==
  Executing(p, t) =>
    /\ status[t] = "RUNNING" /\ owner[t] = WorkerId(p)
    /\ lease[t] > beat[p] /\ timeout[t] > beat[p]

KeepsInv == \A p \in Procs, t \in Tasks : KeepsRow(p, t)

(* A process that is not running has no handleJob under way, so that one   *)
(* that starts executes nothing.                                           *)
DownIsIdle == \A p \in Procs \ up : workPc[p] = "idle"

(* Nothing is executed and no process runs in the initial state.           *)
LEMMA KeepsInit == Init => KeepsInv /\ DownIsIdle
BY DEF Init, KeepsInv, KeepsRow, Executing, DownIsIdle

(* Crash and Sigterm are the only ways to leave, and both forget handleJob. *)
LEMMA DownIsIdleStep == TypeOK /\ DownIsIdle /\ [Next]_vars => DownIsIdle'
<1> SUFFICES ASSUME TypeOK, DownIsIdle, [Next]_vars PROVE DownIsIdle'
  OBVIOUS
<1> USE DEF DownIsIdle, TypeOK, ProcTypeOK, WorkTypeOK, procVars, workVars
<1>1. ASSUME NEW p \in Procs, Start(p) PROVE DownIsIdle'
  BY <1>1 DEF Start
<1>2. ASSUME NEW p \in Procs, Crash(p) \/ Sigterm(p) PROVE DownIsIdle'
  BY <1>2 DEF Crash, Sigterm, Die
<1>3. ASSUME NEW p \in Procs, Scheduler(p) PROVE DownIsIdle'
  BY <1>3 DEF Scheduler, TickStart, FailTimedOut, ClaimBatch, NextRow, RemoveJob, AddJob,
              DeliveryThrows, MarkQueued, ReleaseLease
<1>4. ASSUME NEW p \in Procs, NEW t \in Tasks, Pick(p, t) PROVE DownIsIdle'
  BY <1>4 DEF Pick
<1>5. ASSUME NEW p \in Procs, HandleJob(p) \/ Heartbeat(p) PROVE DownIsIdle'
  BY <1>5 DEF HandleJob, Load, Claim, ExecOk, ExecError, Caught, MarkSucceeded, MarkFailed,
              WorkSqlError, Goto, AckDone, AckFail, WorkDone, Heartbeat
<1>6. CASE (\E t \in Tasks : CreatePending(t)) \/ Queue \/ Tick \/ UNCHANGED vars
  BY <1>6 DEF CreatePending, Queue, Promote, StalledCheck, CleanJob, RedisLoss, Tick, vars
<1> QED
  BY <1>1, <1>2, <1>3, <1>4, <1>5, <1>6 DEF Next, Consumer

(* Every step leaves a live executor its row, its lease and the time until *)
(* its next heartbeat.                                                     *)
LEMMA KeepsStep ==
  ASSUME "lateHeartbeat" \notin Faults, TypeOK, KeepsInv, DownIsIdle, [Next]_vars
  PROVE  KeepsInv'
<1> SUFFICES ASSUME NEW q \in Procs, NEW u \in Tasks PROVE KeepsRow(q, u)'
  BY DEF KeepsInv
<1>0. KeepsRow(q, u) /\ beat[q] \in Nat /\ lease[u] \in Nat /\ timeout[u] \in Nat
  BY HeartbeatShorter DEF KeepsInv, TypeOK, RowTypeOK, WorkTypeOK
<1> USE <1>0 DEF KeepsRow, Executing, TypeOK, RowTypeOK, WorkTypeOK, SchedTypeOK, rowVars, jobVars, procVars, schedVars, workVars
<1>1. ASSUME NEW t \in Tasks, CreatePending(t) PROVE KeepsRow(q, u)'
  BY <1>1 DEF CreatePending
<1>2. ASSUME NEW p \in Procs, Start(p) PROVE KeepsRow(q, u)'
  <2>1. workPc[p] = "idle"
    BY <1>2 DEF Start, DownIsIdle, ProcTypeOK
  <2> QED
    BY <1>2, <2>1 DEF Start
<1>3. ASSUME NEW p \in Procs, Crash(p) \/ Sigterm(p) PROVE KeepsRow(q, u)'
  BY <1>3 DEF Crash, Sigterm, Die
<1>4. ASSUME NEW p \in Procs, TickStart(p) \/ NextRow(p) \/ DeliveryThrows(p) PROVE KeepsRow(q, u)'
  BY <1>4 DEF TickStart, NextRow, DeliveryThrows
<1>5. ASSUME NEW p \in Procs, FailTimedOut(p) PROVE KeepsRow(q, u)'
  BY <1>5 DEF FailTimedOut, TimedOut
<1>6. ASSUME NEW p \in Procs, ClaimBatch(p) PROVE KeepsRow(q, u)'
  <2>1. Executing(q, u) => ~Claimable(u)
    BY OwnersDistinct DEF Claimable
  <2> QED
    BY <1>6, <2>1 DEF ClaimBatch
<1>7. ASSUME NEW p \in Procs, RemoveJob(p) \/ AddJob(p) PROVE KeepsRow(q, u)'
  BY <1>7 DEF RemoveJob, NoJob, AddJob
<1>8. ASSUME NEW p \in Procs, MarkQueued(p) \/ ReleaseLease(p) PROVE KeepsRow(q, u)'
  BY <1>8, OwnersDistinct DEF MarkQueued, ReleaseLease, RowDone, ClearLease
<1>9. ASSUME NEW p \in Procs, NEW t \in Tasks, Pick(p, t) PROVE KeepsRow(q, u)'
  BY <1>9 DEF Pick
<1>10. ASSUME NEW p \in Procs, Load(p) PROVE KeepsRow(q, u)'
  BY <1>10 DEF Load, Goto
<1>11. ASSUME NEW p \in Procs, Claim(p) PROVE KeepsRow(q, u)'
  <2>1. CASE p = q
    BY <1>11, <2>1, HeartbeatShorter, TaskOutboxAssumption DEF Claim, Goto, TimeoutAfter
  <2>2. CASE p # q
    <3>1. Executing(q, u) => ~MayClaim(p, u)
      BY <2>2, OwnersDistinct DEF MayClaim, LeaseOver
    <3> QED
      BY <1>11, <2>2, <3>1 DEF Claim, Goto
  <2> QED
    BY <2>1, <2>2
<1>12. ASSUME NEW p \in Procs, ExecOk(p) \/ ExecError(p) \/ WorkSqlError(p) PROVE KeepsRow(q, u)'
  BY <1>12 DEF ExecOk, ExecError, WorkSqlError, Caught, Goto
<1>13. ASSUME NEW p \in Procs, MarkSucceeded(p) \/ MarkFailed(p) PROVE KeepsRow(q, u)'
  BY <1>13, OwnersDistinct DEF MarkSucceeded, MarkFailed, Finish, ClearLease, Goto
<1>14. ASSUME NEW p \in Procs, Heartbeat(p) PROVE KeepsRow(q, u)'
  <2>1. PICK t \in Tasks : /\ Executing(p, t)
                          /\ IF status[t] = "RUNNING" /\ owner[t] = WorkerId(p)
                               THEN Renew(t) ELSE UNCHANGED <<lease, timeout>>
    BY <1>14 DEF Heartbeat
  <2>2. Renew(t)
    BY <2>1 DEF KeepsInv
  <2>3. /\ beat' = [beat EXCEPT ![p] = HeartbeatEvery]
        /\ UNCHANGED <<status, owner, up, workPc, workTask>>
    BY <1>14 DEF Heartbeat
  <2>4. CASE t = u
    <3>1. Executing(q, u)' => p = q
      BY <2>1, <2>3, <2>4, OwnersDistinct DEF KeepsInv
    <3>2. lease'[u] = RunningLease /\ timeout'[u] = 2 * RunningLease
      BY <2>2, <2>4 DEF Renew, TimeoutAfter
    <3>3. beat'[p] = HeartbeatEvery
      BY <2>3
    <3> QED
      BY <2>3, <3>1, <3>2, <3>3, HeartbeatShorter, TaskOutboxAssumption
  <2>5. CASE t # u
    <3>1. Executing(q, u)' => p # q
      BY <2>1, <2>3, <2>5
    <3>2. lease'[u] = lease[u] /\ timeout'[u] = timeout[u]
      BY <2>2, <2>5 DEF Renew
    <3> QED
      BY <2>3, <3>1, <3>2
  <2> QED
    BY <2>4, <2>5
<1>15. ASSUME NEW p \in Procs, AckDone(p) \/ AckFail(p) PROVE KeepsRow(q, u)'
  BY <1>15 DEF AckDone, AckFail, WorkDone
<1>16. CASE Queue
  BY <1>16 DEF Queue, Promote, StalledCheck, CleanJob, RedisLoss, NoJob
<1>17. CASE Tick
  <2>1. Executing(q, u) => beat[q] > 0
    BY <1>17 DEF Tick, HeartbeatDue
  <2>2. /\ lease'[u] = Down(lease[u]) /\ timeout'[u] = Down(timeout[u]) /\ beat'[q] = Down(beat[q])
        /\ UNCHANGED <<status, owner, up, workPc, workTask>>
    BY <1>17 DEF Tick
  <2> QED
    BY <2>1, <2>2, DownTypes
<1>18. CASE UNCHANGED vars
  BY <1>18 DEF vars
<1> QED
  BY <1>1, <1>2, <1>3, <1>4, <1>5, <1>6, <1>7, <1>8, <1>9, <1>10, <1>11, <1>12, <1>13, <1>14,
     <1>15, <1>16, <1>17, <1>18
  DEF Next, Scheduler, Consumer, HandleJob

-----------------------------------------------------------------------------
(* The theorems *)

(* Every reachable state is well typed; in particular a job only runs      *)
(* while BullMQ has an attempt left for it, and it stalls at most          *)
(* MaxStalls times.                                                        *)
THEOREM TypeCorrect == Spec => []TypeOK
<1>1. TypeOK /\ [Next]_vars => TypeOK'
  BY TypeStep
<1> QED
  BY <1>1, TypeInit, PTL DEF Spec

IInv == TypeOK /\ KeepsInv /\ DownIsIdle

(* The inductive invariant under punctual heartbeats.                      *)
LEMMA IInvAlways ==
  ASSUME "lateHeartbeat" \notin Faults
  PROVE  Spec => []IInv
<1>1. Init => IInv
  BY TypeInit, KeepsInit DEF IInv
<1>2. IInv /\ [Next]_vars => IInv'
  BY TypeStep, KeepsStep, DownIsIdleStep DEF IInv
<1> QED
  BY <1>1, <1>2, PTL DEF Spec

(* With its heartbeat on time a live executor keeps its row RUNNING under  *)
(* its own lease: neither claimOutboxBatch nor claimRunning nor            *)
(* failTimedOutTasks takes it away.                                        *)
THEOREM KeepsRowAlways ==
  ASSUME "lateHeartbeat" \notin Faults
  PROVE  Spec => []ExecutorKeepsRow
<1>1. IInv => ExecutorKeepsRow
  BY DEF IInv, KeepsInv, KeepsRow, ExecutorKeepsRow
<1> QED
  BY <1>1, IInvAlways, PTL

(* With heartbeats on time no task is executed by two processes at once,   *)
(* whatever crashes, restarts, Redis losses and refused calls happen.      *)
THEOREM OneExecutorAlways ==
  ASSUME "lateHeartbeat" \notin Faults
  PROVE  Spec => []OneExecutor
<1>1. ExecutorKeepsRow => OneExecutor
  BY OwnersDistinct DEF ExecutorKeepsRow, OneExecutor
<1>2. Spec => []ExecutorKeepsRow
  BY KeepsRowAlways
<1> QED
  BY <1>1, <1>2, PTL

(* Each UPDATE of status-transitions.ts filters on a status that is not    *)
(* terminal.                                                               *)
LEMMA TerminalStep ==
  ASSUME TypeOK, [Next]_vars
  PROVE  \A t \in Tasks : status[t] \in Terminal => status'[t] = status[t]
<1> SUFFICES ASSUME NEW u \in Tasks, status[u] \in Terminal PROVE status'[u] = status[u]
  OBVIOUS
<1>0. status \in [Tasks -> Statuses]
  BY DEF TypeOK, RowTypeOK
<1> USE <1>0 DEF rowVars
<1>1. ASSUME NEW t \in Tasks, CreatePending(t) PROVE status'[u] = status[u]
  BY <1>1 DEF CreatePending
<1>2. ASSUME NEW p \in Procs, Scheduler(p) PROVE status'[u] = status[u]
  <2>1. CASE FailTimedOut(p)
    BY <2>1 DEF FailTimedOut, TimedOut
  <2>2. CASE MarkQueued(p)
    BY <2>2 DEF MarkQueued
  <2>3. CASE ReleaseLease(p)
    BY <2>3 DEF ReleaseLease
  <2>4. CASE ~FailTimedOut(p) /\ ~MarkQueued(p) /\ ~ReleaseLease(p)
    BY <1>2, <2>4 DEF Scheduler, TickStart, ClaimBatch, NextRow, RemoveJob, AddJob, DeliveryThrows
  <2> QED
    BY <2>1, <2>2, <2>3, <2>4
<1>3. ASSUME NEW p \in Procs, Consumer(p) PROVE status'[u] = status[u]
  <2>1. CASE Claim(p)
    BY <2>1 DEF Claim, MayClaim
  <2>2. CASE MarkSucceeded(p) \/ MarkFailed(p)
    BY <2>2 DEF MarkSucceeded, MarkFailed, Finish
  <2>3. CASE ~Claim(p) /\ ~MarkSucceeded(p) /\ ~MarkFailed(p)
    BY <1>3, <2>3 DEF Consumer, Pick, HandleJob, Load, ExecOk, ExecError, WorkSqlError,
                      Heartbeat, AckDone, AckFail
  <2> QED
    BY <2>1, <2>2, <2>3
<1>4. CASE UNCHANGED status
  BY <1>4
<1>5. ASSUME NEW p \in Procs, Start(p) \/ Crash(p) \/ Sigterm(p) PROVE UNCHANGED status
  BY <1>5 DEF Start, Crash, Sigterm, Die
<1>6. Queue \/ Tick \/ UNCHANGED vars => UNCHANGED status
  BY DEF Queue, Promote, StalledCheck, CleanJob, RedisLoss, Tick, vars
<1> QED
  BY <1>1, <1>2, <1>3, <1>4, <1>5, <1>6 DEF Next

(* A terminal status is final under every fault: each UPDATE filters on a  *)
(* status that is not terminal.                                            *)
THEOREM TerminalAlwaysFinal == Spec => TerminalIsFinal
<1> DEFINE Final == \A t \in Tasks : status[t] \in Terminal => status'[t] = status[t]
<1>1. TypeOK /\ [Next]_vars => [Final]_vars
  BY TerminalStep
<1> QED
  BY <1>1, TypeCorrect, PTL DEF Spec, TerminalIsFinal

-----------------------------------------------------------------------------
(* One effect: an execution that has come to its end holds the row until   *)
(* markSucceeded, and the row is terminal afterwards.                      *)
CountedOnce(t) ==
  /\ effects[t] \in {0, 1}
  /\ effects[t] = 1 => \/ status[t] \in Terminal
                       \/ \E p \in Procs : Executing(p, t) /\ workPc[p] = "succeed"

LEMMA CountedStep ==
  ASSUME Faults \cap {"crash", "sigterm", "sqlError", "lateHeartbeat"} = {},
         IInv, [Next]_vars, NEW t \in Tasks, CountedOnce(t)
  PROVE  CountedOnce(t)'
<1> USE DEF IInv, TypeOK, RowTypeOK, WorkTypeOK, EffectTypeOK, CountedOnce
<1>1. status[t] \in Terminal => status'[t] \in Terminal
  BY TerminalStep
<1>2. ASSUME UNCHANGED effects, UNCHANGED <<up, workTask>>,
             \A p \in Procs : Executing(p, t) /\ workPc[p] = "succeed" => workPc'[p] = "succeed"
      PROVE  CountedOnce(t)'
  BY <1>1, <1>2 DEF Executing
<1>3. ASSUME NEW p \in Procs, ExecOk(p) PROVE CountedOnce(t)'
  <2>1. CASE workTask[p] = t
    <3>1. Executing(p, t)
      BY <1>3, <2>1 DEF ExecOk, Executing
    <3>2. ASSUME NEW q \in Procs, Executing(q, t) PROVE q = p
      BY <3>1, <3>2, OwnersDistinct DEF KeepsInv, KeepsRow
    <3>3. status[t] \notin Terminal
      BY <3>1 DEF KeepsInv, KeepsRow
    <3>4. effects[t] = 0
      BY <1>3, <3>2, <3>3 DEF ExecOk
    <3>5. effects'[t] \in {0, 1}
      BY <1>3, <2>1, <3>4 DEF ExecOk, Succeeded
    <3>6. Executing(p, t)' /\ workPc'[p] = "succeed"
      BY <1>3, <2>1 DEF ExecOk, Executing, Goto, procVars
    <3> QED
      BY <3>5, <3>6
  <2>2. CASE workTask[p] # t
    <3>1. effects'[t] = effects[t]
      BY <1>3, <2>2 DEF ExecOk, Succeeded
    <3>2. \A q \in Procs : Executing(q, t) /\ workPc[q] = "succeed"
                             => Executing(q, t)' /\ workPc'[q] = "succeed"
      BY <1>3, <2>2 DEF ExecOk, Executing, Goto, procVars
    <3> QED
      BY <1>1, <3>1, <3>2
  <2> QED
    BY <2>1, <2>2
<1>4. ASSUME NEW p \in Procs, MarkSucceeded(p) PROVE CountedOnce(t)'
  <2>1. workPc[p] = "succeed" /\ Executing(p, workTask[p])
    BY <1>4 DEF MarkSucceeded, Executing
  <2>2. workTask[p] = t => status'[t] = "SUCCEEDED"
    BY <1>4, <2>1 DEF MarkSucceeded, Finish, KeepsInv, KeepsRow
  <2>3. /\ UNCHANGED <<effects, up, workTask>>
        /\ \A q \in Procs \ {p} : workPc'[q] = workPc[q]
    BY <1>4 DEF MarkSucceeded, Goto, procVars
  <2>4. CASE workTask[p] = t
    BY <2>2, <2>3, <2>4
  <2>5. CASE workTask[p] # t
    BY <1>2, <2>3, <2>5 DEF Executing
  <2> QED
    BY <2>4, <2>5
<1>5. ASSUME NEW p \in Procs, HandleJob(p) \/ Heartbeat(p), ~ExecOk(p), ~MarkSucceeded(p)
      PROVE  CountedOnce(t)'
  <2>1. /\ UNCHANGED effects /\ UNCHANGED up
        /\ \A q \in Procs \ {p} : workPc'[q] = workPc[q] /\ workTask'[q] = workTask[q]
        /\ workPc[p] = "succeed" => workPc'[p] = "succeed" /\ workTask'[p] = workTask[p]
    BY <1>5 DEF HandleJob, Load, Claim, ExecError, Caught, MarkFailed, WorkSqlError, AckDone, AckFail, WorkDone,
       Heartbeat, Goto, procVars
  <2> QED
    BY <1>1, <2>1 DEF Executing
<1>6. ASSUME NEW p \in Procs, NEW u \in Tasks, Pick(p, u) PROVE CountedOnce(t)'
  <2>1. /\ UNCHANGED effects /\ UNCHANGED up /\ workPc[p] = "idle"
        /\ \A q \in Procs \ {p} : workPc'[q] = workPc[q] /\ workTask'[q] = workTask[q]
    BY <1>6 DEF Pick, procVars
  <2> QED
    BY <1>1, <2>1 DEF Executing
<1>7. ASSUME NEW p \in Procs, Start(p) PROVE CountedOnce(t)'
  <2>1. UNCHANGED effects /\ UNCHANGED <<workPc, workTask>> /\ up \subseteq up'
    BY <1>7 DEF Start, workVars
  <2> QED
    BY <1>1, <2>1 DEF Executing
<1>8. ASSUME NEW p \in Procs PROVE ~Crash(p) /\ ~Sigterm(p)
  BY DEF Crash, Sigterm
<1>9. ASSUME NEW p \in Procs, Scheduler(p) PROVE CountedOnce(t)'
  BY <1>2, <1>9 DEF Scheduler, TickStart, FailTimedOut, ClaimBatch, NextRow, RemoveJob, AddJob, DeliveryThrows,
     MarkQueued, ReleaseLease, procVars, workVars
<1>10. CASE (\E u \in Tasks : CreatePending(u)) \/ Queue \/ Tick \/ UNCHANGED vars
  BY <1>2, <1>10 DEF CreatePending, Queue, Promote, StalledCheck, CleanJob, RedisLoss, Tick, vars, procVars, workVars
<1> QED
  BY <1>3, <1>4, <1>5, <1>6, <1>7, <1>8, <1>9, <1>10 DEF Next, Consumer

(* Without a crash and without a failing UPDATE a task whose processor     *)
(* succeeds runs once, however often Redis loses or refuses the job.       *)
THEOREM EffectAlwaysOnce ==
  ASSUME Faults \cap {"crash", "sigterm", "sqlError", "lateHeartbeat"} = {}
  PROVE  Spec => []EffectAtMostOnce
<1> DEFINE Counted == \A t \in Tasks : CountedOnce(t)
<1>1. Init => Counted
  BY DEF Init, CountedOnce
<1>2. IInv /\ Counted /\ [Next]_vars => Counted'
  BY CountedStep
<1>3. Counted => EffectAtMostOnce
  BY DEF CountedOnce, EffectAtMostOnce
<1>4. Spec => []IInv
  BY IInvAlways
<1> QED
  BY <1>1, <1>2, <1>3, <1>4, PTL DEF Spec

-----------------------------------------------------------------------------
(* The refinement.                                                         *)

(* The same executions before and after a step.                            *)
SameExecutions == \A p \in Procs, t \in Tasks : Executing(p, t)' <=> Executing(p, t)

(* p's execution of t is over, the others go on.                           *)
EndsExecution(p, t) ==
  /\ Executing(p, t)
  /\ \A q \in Procs, u \in Tasks : Executing(q, u)' <=> (Executing(q, u) /\ q # p)

SamePhases == \A t \in Tasks : PhaseOf(t)' = PhaseOf(t)

(* A step that changes no phase and no execution is a stutter.             *)
LEMMA StutterMaps ==
  ASSUME SameExecutions, SamePhases
  PROVE  UNCHANGED <<phaseBar, executorsBar>>
BY DEF SameExecutions, SamePhases, phaseBar, executorsBar

(* The end of an execution that decides at most its own task.              *)
LEMMA EndMaps ==
  ASSUME IInv, NEW p \in Procs, NEW t \in Tasks, EndsExecution(p, t),
         NEW f \in {"open", "succeeded", "failed"}, PhaseOf(t)' = f,
         \A u \in Tasks \ {t} : PhaseOf(u)' = PhaseOf(u)
  PROVE  Promise!End(t, p)
<1>1. status[t] = "RUNNING"
  BY DEF IInv, KeepsInv, KeepsRow, EndsExecution
<1>2. phaseBar[t] = "open"
  BY <1>1 DEF phaseBar, PhaseOf
<1>3. \A q \in Procs : Executing(q, t) => q = p
  BY OwnersDistinct DEF IInv, KeepsInv, KeepsRow, EndsExecution
<1>4. executorsBar[t] = {p}
  BY <1>3 DEF executorsBar, EndsExecution
<1>5. \A u \in Tasks \ {t} : ~Executing(p, u)
  BY DEF EndsExecution, Executing
<1>6. executorsBar' = [executorsBar EXCEPT ![t] = {}]
  <2>1. executorsBar'[t] = {}
    BY <1>3 DEF executorsBar, EndsExecution
  <2>2. \A u \in Tasks \ {t} : executorsBar'[u] = executorsBar[u]
    BY <1>5 DEF executorsBar, EndsExecution
  <2> QED
    BY <2>1, <2>2 DEF executorsBar
<1>7. phaseBar' = [phaseBar EXCEPT ![t] = f]
  BY DEF phaseBar
<1> QED
  BY <1>2, <1>4, <1>6, <1>7 DEF Promise!End

(* A state the rows are initially in is an initial state of the promise.   *)
LEMMA InitMaps == Init => Promise!PromiseInit
BY DEF Init, Promise!PromiseInit, phaseBar, executorsBar, PhaseOf, Executing

(* Every step of the outbox is a step of the promise or a stutter.         *)
LEMMA StepMaps ==
  ASSUME IInv, [Next]_vars
  PROVE  [Promise!PromiseNext]_<<phaseBar, executorsBar>>
<1> DEFINE Maps == [Promise!PromiseNext]_<<phaseBar, executorsBar>>
<1>a. SameExecutions /\ SamePhases => Maps
  BY StutterMaps
<1>b. \A p \in Procs, t \in Tasks : Promise!End(t, p) => Maps
  BY DEF Promise!PromiseNext
<1>c. UNCHANGED <<up, workPc, workTask>> => SameExecutions
  BY DEF SameExecutions, Executing
<1>d. UNCHANGED status => SamePhases
  BY DEF SamePhases, PhaseOf
<1>t. /\ status \in [Tasks -> Statuses] /\ workPc \in [Procs -> WorkPcs]
      /\ workTask \in [Procs -> Tasks \cup {None}] /\ up \subseteq Procs
  BY DEF IInv, TypeOK, RowTypeOK, WorkTypeOK, ProcTypeOK
<1> HIDE DEF Maps
<1> USE <1>t DEF rowVars, jobVars, procVars, schedVars, workVars
<1>1. ASSUME NEW t \in Tasks, CreatePending(t) PROVE Promise!PromiseNext
  <2>1. phaseBar[t] = "absent" /\ phaseBar' = [phaseBar EXCEPT ![t] = "open"]
    BY <1>1 DEF CreatePending, phaseBar, PhaseOf
  <2>2. UNCHANGED executorsBar
    BY <1>1 DEF CreatePending, executorsBar, Executing
  <2> QED
    BY <2>1, <2>2 DEF Promise!PromiseNext, Promise!Submit
<1>2. ASSUME NEW p \in Procs, Start(p) PROVE Maps
  <2>1. workPc[p] = "idle"
    BY <1>2 DEF Start, IInv, DownIsIdle, TypeOK, ProcTypeOK
  <2> QED
    BY <1>2, <1>a, <1>d, <2>1 DEF Start, SameExecutions, Executing
<1>3. ASSUME NEW p \in Procs, Crash(p) \/ Sigterm(p) PROVE Maps
  <2>1. /\ up' = up \ {p} /\ UNCHANGED status
        /\ \A q \in Procs \ {p} : workPc'[q] = workPc[q] /\ workTask'[q] = workTask[q]
    BY <1>3 DEF Crash, Sigterm, Die
  <2>2. CASE \E t \in Tasks : Executing(p, t)
    <3>1. PICK t \in Tasks : Executing(p, t)
      BY <2>2
    <3>2. EndsExecution(p, t)
      BY <2>1, <3>1 DEF EndsExecution, Executing
    <3>3. PhaseOf(t)' = "open" /\ \A u \in Tasks \ {t} : PhaseOf(u)' = PhaseOf(u)
      BY <2>1, <3>1 DEF IInv, KeepsInv, KeepsRow, PhaseOf
    <3> QED
      BY <1>b, <3>2, <3>3, EndMaps
  <2>3. CASE \A t \in Tasks : ~Executing(p, t)
    BY <1>a, <1>d, <2>1, <2>3 DEF SameExecutions, Executing
  <2> QED
    BY <2>2, <2>3
<1>4. ASSUME NEW p \in Procs, FailTimedOut(p) PROVE Promise!PromiseNext
  <2> DEFINE S == {t \in Tasks : TimedOut(t)}
  <2>1. \A t \in S : phaseBar[t] = "open"
    BY DEF TimedOut, phaseBar, PhaseOf
  <2>2. \A t \in S, q \in Procs : ~Executing(q, t)
    BY HeartbeatShorter DEF TimedOut, IInv, KeepsInv, KeepsRow, TypeOK, RowTypeOK, WorkTypeOK
  <2>3. \A t \in S : executorsBar[t] = {}
    BY <2>2 DEF executorsBar
  <2>4. \A t \in Tasks : PhaseOf(t)' = IF t \in S THEN "failed" ELSE PhaseOf(t)
    BY <1>4 DEF FailTimedOut, PhaseOf
  <2>5. phaseBar' = [t \in Tasks |-> IF t \in S THEN "failed" ELSE phaseBar[t]]
    BY <2>4 DEF phaseBar
  <2>6. UNCHANGED executorsBar
    BY <1>4 DEF FailTimedOut, executorsBar, Executing
  <2>7. S \in SUBSET {t \in Tasks : phaseBar[t] = "open" /\ executorsBar[t] = {}}
    BY <2>1, <2>3
  <2> QED
    BY <2>5, <2>6, <2>7 DEF Promise!PromiseNext, Promise!Expire
<1>5. ASSUME NEW p \in Procs, MarkQueued(p) PROVE Maps
  <2>1. SamePhases
    BY <1>5 DEF MarkQueued, SamePhases, PhaseOf
  <2>2. UNCHANGED <<up, workPc, workTask>>
    BY <1>5 DEF MarkQueued
  <2> QED
    BY <1>a, <1>c, <2>1, <2>2
<1>6. ASSUME NEW p \in Procs, ReleaseLease(p) PROVE Maps
  <2>1. UNCHANGED <<status, up, workPc, workTask>>
    BY <1>6 DEF ReleaseLease
  <2> QED
    BY <1>a, <1>c, <1>d, <2>1
<1>7. ASSUME NEW p \in Procs, \/ TickStart(p) \/ ClaimBatch(p) \/ NextRow(p) \/ RemoveJob(p)
                              \/ AddJob(p) \/ DeliveryThrows(p)
      PROVE  Maps
  <2>1. UNCHANGED <<status, up, workPc, workTask>>
    BY <1>7 DEF TickStart, ClaimBatch, NextRow, RemoveJob, AddJob, DeliveryThrows
  <2> QED
    BY <1>a, <1>c, <1>d, <2>1
<1>8. ASSUME NEW p \in Procs, NEW t \in Tasks, Pick(p, t) PROVE Maps
  <2>1. SameExecutions /\ UNCHANGED status
    BY <1>8 DEF Pick, SameExecutions, Executing
  <2> QED
    BY <1>a, <1>d, <2>1
<1>9. ASSUME NEW p \in Procs, Claim(p) PROVE Maps
  <2> DEFINE t == workTask[p]
  <2>0. workPc[p] = "claim" /\ t \in Tasks /\ p \in up
    BY <1>9 DEF Claim, IInv, TypeOK, WorkTypeOK
  <2>1. CASE MayClaim(p, t)
    <3>1. \A q \in Procs : ~Executing(q, t)
      <4> SUFFICES ASSUME NEW q \in Procs, Executing(q, t) PROVE FALSE
        OBVIOUS
      <4>1. /\ status[t] = "RUNNING" /\ owner[t] = WorkerId(q)
            /\ lease[t] > beat[q] /\ lease[t] \in Nat /\ beat[q] \in Nat
        BY <2>0, HeartbeatShorter DEF IInv, KeepsInv, KeepsRow, TypeOK, RowTypeOK, WorkTypeOK
      <4>2. q = p
        BY <2>1, <4>1, OwnersDistinct DEF MayClaim, LeaseOver
      <4> QED
        BY <2>0, <4>2 DEF Executing
    <3>2. /\ status' = [status EXCEPT ![t] = "RUNNING"]
          /\ workPc' = [workPc EXCEPT ![p] = "run"] /\ UNCHANGED <<workTask, up>>
      BY <1>9, <2>1 DEF Claim, Goto
    <3>3. phaseBar[t] = "open" /\ executorsBar[t] = {}
      BY <2>0, <2>1, <3>1 DEF MayClaim, phaseBar, PhaseOf, executorsBar
    <3>4. UNCHANGED phaseBar
      <4>1. SamePhases
        BY <2>0, <2>1, <3>2 DEF SamePhases, PhaseOf, MayClaim
      <4> QED
        BY <4>1 DEF SamePhases, phaseBar
    <3>5. executorsBar' = [executorsBar EXCEPT ![t] = {p}]
      <4>1. \A q \in Procs, u \in Tasks : Executing(q, u)' <=> (Executing(q, u) \/ (q = p /\ u = t))
        BY <2>0, <3>2 DEF Executing
      <4>2. executorsBar'[t] = {p}
        BY <2>0, <3>1, <4>1 DEF executorsBar
      <4>3. \A u \in Tasks \ {t} : executorsBar'[u] = executorsBar[u]
        BY <4>1 DEF executorsBar
      <4> QED
        BY <4>2, <4>3 DEF executorsBar
    <3> QED
      BY <2>0, <3>3, <3>4, <3>5 DEF Maps, Promise!PromiseNext, Promise!Begin
  <2>2. CASE ~MayClaim(p, t)
    <3>1. UNCHANGED <<status, workTask, up>> /\ workPc' = [workPc EXCEPT ![p] = "ackFail"]
      BY <1>9, <2>2 DEF Claim, Goto
    <3> QED
      BY <1>a, <1>d, <2>0, <3>1 DEF SameExecutions, Executing
  <2> QED
    BY <2>1, <2>2
<1>10. ASSUME NEW p \in Procs, NEW pc \in WorkPcs, Goto(p, pc), UNCHANGED status,
              p \in up, workPc[p] # "idle", pc \in {"run", "succeed", "fail"} => Executing(p, workTask[p])
       PROVE  Maps
  <2>1. PICK t \in Tasks : t = workTask[p]
    BY <1>10 DEF IInv, TypeOK, WorkTypeOK
  <2>2. workPc' = [workPc EXCEPT ![p] = pc] /\ UNCHANGED <<up, workTask>>
    BY <1>10 DEF Goto
  <2>3. CASE Executing(p, t) <=> pc \in {"run", "succeed", "fail"}
    <3>1. SameExecutions
      BY <1>10, <2>1, <2>2, <2>3 DEF SameExecutions, Executing
    <3> QED
      BY <1>a, <1>d, <1>10, <3>1
  <2>4. CASE Executing(p, t) /\ pc \notin {"run", "succeed", "fail"}
    <3>1. EndsExecution(p, t)
      BY <2>1, <2>2, <2>4 DEF EndsExecution, Executing
    <3>2. status[t] = "RUNNING"
      BY <2>1, <2>4 DEF IInv, KeepsInv, KeepsRow
    <3>3. status'[t] = "RUNNING"
      BY <1>10, <3>2
    <3>4. PhaseOf(t)' = "open"
      BY <3>3 DEF PhaseOf
    <3>5. \A u \in Tasks \ {t} : PhaseOf(u)' = PhaseOf(u)
      BY <1>10 DEF PhaseOf
    <3>6. "open" \in {"open", "succeeded", "failed"}
      OBVIOUS
    <3>7. Promise!End(t, p)
      BY <2>1, <3>1, <3>4, <3>5, <3>6, EndMaps
    <3> QED
      BY <1>b, <2>1, <3>7
  <2> QED
    BY <1>10, <2>1, <2>3, <2>4
<1>11. ASSUME NEW p \in Procs, Load(p) \/ ExecOk(p) \/ ExecError(p) \/ WorkSqlError(p) PROVE Maps
  <2>1. CASE Load(p)
    BY <1>10, <2>1 DEF Load, WorkPcs
  <2>2. CASE ExecOk(p)
    <3>1. Executing(p, workTask[p])
      BY <2>2 DEF ExecOk, Executing
    <3> QED
      BY <1>10, <2>2, <3>1 DEF ExecOk, WorkPcs
  <2>3. CASE ExecError(p) \/ WorkSqlError(p)
    <3>1. p \in up /\ workPc[p] # "idle" /\ UNCHANGED status
      BY <2>3 DEF ExecError, WorkSqlError
    <3>2. \/ Goto(p, "ackFail")
          \/ Goto(p, "fail") /\ workPc[p] \in {"run", "succeed"}
      BY <2>3 DEF ExecError, WorkSqlError, Caught
    <3>3. CASE Goto(p, "ackFail")
      BY <1>10, <3>1, <3>3 DEF WorkPcs
    <3>4. CASE Goto(p, "fail") /\ workPc[p] \in {"run", "succeed"}
      <4>1. Executing(p, workTask[p])
        BY <3>1, <3>4 DEF Executing
      <4> QED
        BY <1>10, <3>1, <3>4, <4>1 DEF WorkPcs
    <3> QED
      BY <3>2, <3>3, <3>4
  <2> QED
    BY <1>11, <2>1, <2>2, <2>3
<1>12. ASSUME NEW p \in Procs, MarkSucceeded(p) \/ MarkFailed(p) PROVE Maps
  <2>1. /\ p \in up /\ workPc[p] \in {"succeed", "fail"}
        /\ UNCHANGED <<up, workTask>>
        /\ workPc'[p] \in {"ackDone", "ackFail"}
        /\ \A q \in Procs \ {p} : workPc'[q] = workPc[q]
    BY <1>12 DEF MarkSucceeded, MarkFailed, Goto
  <2>2. PICK t \in Tasks : t = workTask[p] /\ Executing(p, t)
    BY <2>1 DEF Executing, IInv, TypeOK, WorkTypeOK
  <2>3. EndsExecution(p, t)
    BY <2>1, <2>2 DEF EndsExecution, Executing
  <2>4. status[t] = "RUNNING" /\ owner[t] = WorkerId(p)
    BY <2>2 DEF IInv, KeepsInv, KeepsRow
  <2>5. \/ status' = [status EXCEPT ![t] = "SUCCEEDED"]
        \/ status' = [status EXCEPT ![t] = "FAILED"]
    BY <1>12, <2>2, <2>4 DEF MarkSucceeded, MarkFailed, Finish
  <2>6. \A u \in Tasks \ {t} : PhaseOf(u)' = PhaseOf(u)
    BY <2>5 DEF PhaseOf
  <2>7. status'[t] \in {"SUCCEEDED", "FAILED"}
    BY <2>2, <2>5
  <2>8. PhaseOf(t)' \in {"open", "succeeded", "failed"}
    BY <2>7 DEF PhaseOf
  <2>9. Promise!End(t, p)
    BY <2>2, <2>3, <2>6, <2>8, EndMaps
  <2> QED
    BY <1>b, <2>2, <2>9
<1>13. ASSUME NEW p \in Procs, Heartbeat(p) PROVE Maps
  <2>1. UNCHANGED <<status, up, workPc, workTask>>
    BY <1>13 DEF Heartbeat
  <2> QED
    BY <1>a, <1>c, <1>d, <2>1
<1>14. ASSUME NEW p \in Procs, AckDone(p) \/ AckFail(p) PROVE Maps
  <2>1. SameExecutions /\ UNCHANGED status
    BY <1>14 DEF AckDone, AckFail, WorkDone, SameExecutions, Executing
  <2> QED
    BY <1>a, <1>d, <2>1
<1>15. CASE Queue \/ Tick \/ UNCHANGED vars
  <2>1. UNCHANGED <<status, up, workPc, workTask>>
    <3>1. CASE Queue
      BY <3>1 DEF Queue, Promote, StalledCheck, CleanJob, RedisLoss
    <3>2. CASE Tick
      BY <3>2 DEF Tick
    <3>3. CASE UNCHANGED vars
      BY <3>3 DEF vars
    <3> QED
      BY <1>15, <3>1, <3>2, <3>3
  <2>2. SameExecutions /\ SamePhases
    BY <1>c, <1>d, <2>1
  <2> QED
    BY <1>a, <2>2 DEF Maps
<1> QED
  BY <1>1, <1>2, <1>3, <1>4, <1>5, <1>6, <1>7, <1>8, <1>9, <1>11, <1>12, <1>13, <1>14, <1>15
  DEF Maps, Next, Scheduler, Consumer, HandleJob

(* With heartbeats on time the outbox and its workers implement the task   *)
(* promise, for every number of tasks and of processes and every lease.    *)
THEOREM OutboxKeepsPromise ==
  ASSUME "lateHeartbeat" \notin Faults
  PROVE  Spec => KeepsPromise
<1>1. Init => IInv /\ Promise!PromiseInit
  BY TypeInit, KeepsInit, InitMaps DEF IInv
<1>2. IInv /\ [Next]_vars => IInv'
  BY TypeStep, KeepsStep, DownIsIdleStep DEF IInv
<1>3. IInv /\ [Next]_vars => [Promise!PromiseNext]_<<phaseBar, executorsBar>>
  BY StepMaps
<1> QED
  BY <1>1, <1>2, <1>3, PTL DEF Spec, KeepsPromise, Promise!PromiseSpec
=============================================================================
