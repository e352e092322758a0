------------------------------ MODULE Recovery ------------------------------
(***************************************************************************)
(* The recovery executor (apps/recovery-executor): a restore is confirmed  *)
(* in platform-core, delivered by the worker, recorded in a control        *)
(* manifest outside the database and carried through nine stages, with a   *)
(* maintenance marker that keeps everybody else away.                      *)
(*                                                                         *)
(* `file' and `marker' survive the process; `mem' (this.manifest), the     *)
(* pipeline and the handlers do not.  A step ends at every await, so       *)
(* handlers, pipeline and crashes come between any two of them.  Writing   *)
(* the manifest is one step (temporary file and rename); an error of the   *)
(* state directory itself ends the process and is a crash here.            *)
(***************************************************************************)
EXTENDS Naturals, FiniteSets, FiniteSetsExt

CONSTANTS
  Restores,      \* restoreUuid values
  Calls,         \* requests POST /recovery/delivery that may be open at once
  Polls,         \* requests of the control page that may be reading the manifest at once
  None,          \* no manifest
  Attempts,      \* attempts of a RESTORE_DELIVERY job
  MaxCrashes,    \* bound: how often the executor dies or is stopped
  MaxFailures    \* bound: how often a stage throws

(* The stages, in the order of runPipelineInner.                           *)
PRECHECK == 1
MAINTENANCE == 2
RESTORING == 3
MIGRATE_FORWARD == 4
CANCEL_TASKS == 5
REINSTATE_BACKUPS == 6
CLEAR_REDIS == 7
READINESS == 8
DONE == 9
Stages == PRECHECK .. DONE

(* The document that writeManifest serialises.                             *)
Manifests == [uuid : Restores, stage : Stages, error : BOOLEAN]

ASSUME RecoveryAssumption ==
  /\ Restores # {} /\ Calls # {} /\ Polls # {}
  /\ None \notin Nat /\ None \notin Manifests
  /\ Attempts \in Nat \ {0}
  /\ MaxCrashes \in Nat /\ MaxFailures \in Nat

VARIABLES
  file,       \* control-manifest.json, or None
  mem,        \* this.manifest
  marker,     \* maintenance.marker exists
  pipe,       \* the pipeline: where it waits, its loop index, the document being written
  call,       \* per open delivery: where it waits, its restore, the manifest it read
  poll,       \* per open GET status or POST retry: the manifest it read
  stopping,   \* shuttingDown
  tries,      \* per restore: attempts left of its RESTORE_DELIVERY task; None before it exists
  row,        \* per restore: status of its backstage.restores row
  applied,    \* the stages in force on the database since pg_restore last began
  begun,      \* pg_restore has begun on this database, now or earlier
  usable,     \* the chosen backup's row is SUCCEEDED and names its object
  reached,    \* history: per restore, the highest stage its manifest recorded
  overtaken,  \* history: an answer of loadManifest put back a manifest that was out of date
  crashes, failures
vars == <<file, mem, marker, pipe, call, poll, stopping, tries, row, applied, begun,
          usable, reached, overtaken, crashes, failures>>
disk == <<file, marker>>
process == <<mem, pipe, call, poll, stopping>>
database == <<tries, row, applied, begun, usable>>

NoCall == [at |-> "idle", u |-> None, seen |-> None]
NoPoll == [at |-> "idle", seen |-> None]
Idle == [at |-> "idle", i |-> 0, doc |-> None]
Active == {"PENDING", "PRECHECK", "MAINTENANCE", "RESTORING"}

Init ==
  /\ file = None /\ mem = None /\ marker = FALSE
  /\ pipe = Idle
  /\ call = [c \in Calls |-> NoCall]
  /\ poll = [p \in Polls |-> NoPoll]
  /\ stopping = FALSE
  /\ tries = [u \in Restores |-> None]
  /\ row = [u \in Restores |-> "none"]
  /\ applied = {} /\ begun = FALSE /\ usable = TRUE
  /\ reached = [u \in Restores |-> 0] /\ overtaken = FALSE
  /\ crashes = 0 /\ failures = 0

-----------------------------------------------------------------------------
(* platform-core and the worker.                                           *)

(* confirmRestore: refused while the marker exists (the interceptor) and   *)
(* while a restore is active; one transaction writes the row and the task. *)
ConfirmRestore(u) ==
  /\ ~marker
  /\ tries[u] = None
  /\ \A v \in Restores : row[v] \notin Active
  /\ tries' = [tries EXCEPT ![u] = Attempts]
  /\ row' = [row EXCEPT ![u] = "PENDING"]
  /\ usable' = TRUE
  /\ UNCHANGED <<disk, process, applied, begun, reached, overtaken, crashes, failures>>

(* processRestoreDelivery: an attempt of an open task.  It is given up     *)
(* after 15 s, so the next one may find the handler of the last still      *)
(* waiting for the database, which has no time limit.                      *)
Deliver(c, u) ==
  /\ ~stopping
  /\ tries[u] \notin {None, 0}
  /\ call[c].at = "idle"
  /\ \A d \in Calls : call[d].u = u => call[d].at = "sync"
  /\ tries' = [tries EXCEPT ![u] = @ - 1]
  /\ call' = [call EXCEPT ![c] = [at |-> "decide", u |-> u, seen |-> file]]
  /\ UNCHANGED <<disk, mem, pipe, poll, stopping, row, applied, begun, usable, reached, overtaken, crashes, failures>>

(* The worker learns that the delivery succeeded.                          *)
TaskEnds(u) ==
  /\ tries[u] \notin {None, 0}
  /\ reached[u] > 0
  /\ tries' = [tries EXCEPT ![u] = 0]
  /\ UNCHANGED <<disk, process, row, applied, begun, usable, reached, overtaken, crashes, failures>>

-----------------------------------------------------------------------------
(* acceptDelivery, after the manifest was read.                            *)

Return(c) == call' = [call EXCEPT ![c] = NoCall]
Advance(c, at) == call' = [call EXCEPT ![c].at = at]

(* Whether the manifest that was read lets a restore begin: a finished one *)
(* of another restore does.                                                *)
EndedOrFailed(seen, u) == seen.uuid # u /\ (seen.stage = DONE \/ seen.error)
MayReplace(seen, u) == seen.uuid # u /\ seen.stage = DONE

(* The same restore again, or one that has not ended: nothing happens.     *)
Refuse(c) ==
  /\ call[c].at = "decide"
  /\ call[c].seen # None
  /\ ~MayReplace(call[c].seen, call[c].u)
  /\ Return(c)
  /\ UNCHANGED <<disk, mem, pipe, poll, stopping, database, reached, overtaken, crashes, failures>>

(* archiveManifest renames the manifest of an earlier, finished restore;   *)
(* it throws when the file is not there any more.                          *)
Archive(c) ==
  /\ call[c].at = "decide"
  /\ call[c].seen # None
  /\ MayReplace(call[c].seen, call[c].u)
  /\ IF file = None THEN Return(c) ELSE Advance(c, "write")
  /\ file' = None
  /\ UNCHANGED <<marker, mem, pipe, poll, stopping, database, reached, overtaken, crashes, failures>>

NewManifest(u) == [uuid |-> u, stage |-> PRECHECK, error |-> FALSE]

Record(doc) ==
  /\ file' = doc
  /\ reached' = [reached EXCEPT ![doc.uuid] = Max({@, doc.stage})]

(* The new manifest is in memory before it is on disk.                     *)
Compose(c) ==
  /\ \/ call[c].at = "write"
     \/ call[c].at = "decide" /\ call[c].seen = None
  /\ mem' = NewManifest(call[c].u)
  /\ Advance(c, "writing")
  /\ UNCHANGED <<disk, pipe, poll, stopping, database, reached, overtaken, crashes, failures>>

WriteNew(c) ==
  /\ call[c].at = "writing"
  /\ Record(NewManifest(call[c].u))
  /\ Advance(c, "mark")
  /\ UNCHANGED <<marker, mem, pipe, poll, stopping, database, overtaken, crashes, failures>>

MarkMaintenance(c) ==
  /\ call[c].at = "mark"
  /\ marker' = TRUE
  /\ Advance(c, "sync")
  /\ UNCHANGED <<file, mem, pipe, poll, stopping, database, reached, overtaken, crashes, failures>>

(* syncRestoreRow, best effort: the row of the manifest in memory.         *)
Mirror(status) ==
  \/ UNCHANGED row
  \/ /\ mem # None
     /\ row[mem.uuid] # "none"
     /\ row' = [row EXCEPT ![mem.uuid] = status]

(* The head of the loop: at a stage's boundary the pipeline stops when the *)
(* process is to end, throws when the manifest has gone, and otherwise     *)
(* names the stage and writes the manifest m that is in memory.            *)
EnterStage(m, i) ==
  IF stopping \/ m = None
    THEN pipe' = Idle /\ mem' = m
    ELSE LET doc == [m EXCEPT !.stage = i, !.error = FALSE]
         IN  mem' = doc /\ pipe' = [at |-> "write", i |-> i, doc |-> doc]

(* The stage at which a manifest's pipeline resumes.                       *)
ResumeAfter(m) == Min({m.stage + 1, DONE})
ResumeStage(m) == m.stage

(* runPipeline: only one at a time; it resumes at the manifest's stage.    *)
RunPipeline(m) ==
  IF m = None \/ pipe.at # "idle"
    THEN mem' = m /\ UNCHANGED pipe
    ELSE EnterStage(m, ResumeStage(m))

StartAccepted(c) ==
  /\ call[c].at = "sync"
  /\ Mirror("MAINTENANCE")
  /\ RunPipeline(mem)
  /\ Return(c)
  /\ UNCHANGED <<disk, poll, stopping, tries, applied, begun, usable, reached, overtaken, crashes, failures>>

-----------------------------------------------------------------------------
(* The pipeline.                                                           *)

WriteStage ==
  /\ pipe.at = "write"
  /\ Record(pipe.doc)
  /\ pipe' = [pipe EXCEPT !.at = "run"]
  /\ UNCHANGED <<marker, mem, call, poll, stopping, database, overtaken, crashes, failures>>

(* A stage takes longer than the file operations of an open request and    *)
(* the one statement it sends to the database, which the stage needs too.  *)
CallsSettled == \A c \in Calls : call[c].at = "idle"

(* Both take longer than reading the manifest, and a statement on a new    *)
(* connection to the database longer than writing it, too.                 *)
PollsSettled == \A p \in Polls : poll[p].at = "idle"
RequestsSettled == CallsSettled /\ PollsSettled
FilesSettled == PollsSettled /\ \A c \in Calls : call[c].at # "writing"

(* PRECHECK and RESTORING read the row of the backup; a process that is to *)
(* end gives up waiting for the writers.                                   *)
CanEndWell(i) ==
  /\ i \in {PRECHECK, RESTORING} => usable
  /\ i = MAINTENANCE => ~stopping

EndsWell(i) ==
  /\ pipe.at = "run" /\ pipe.i = i
  /\ CanEndWell(i) /\ RequestsSettled
  /\ EnterStage(mem, i + 1)
  /\ UNCHANGED <<file, call, poll, stopping, begun, usable, reached, overtaken, crashes, failures>>

(* The backup is complete, reachable, encrypted and not of a later server. *)
Precheck == EndsWell(PRECHECK) /\ UNCHANGED <<marker, tries, row, applied>>

(* The marker is made sure of, and every other connection has gone.        *)
Maintain ==
  /\ EndsWell(MAINTENANCE)
  /\ marker' = TRUE
  /\ Mirror("MAINTENANCE")
  /\ UNCHANGED <<tries, applied>>

(* pg_restore --clean begins, on a checked copy of the dump: from here on  *)
(* the database is neither the old one nor the new one.                    *)
BeginRestore ==
  /\ pipe.at = "run" /\ pipe.i = RESTORING
  /\ CanEndWell(RESTORING) /\ FilesSettled
  /\ pipe' = [pipe EXCEPT !.at = "restoring"]
  /\ begun' = TRUE
  /\ applied' = {}
  /\ \E ok \in BOOLEAN : usable' = ok
  /\ UNCHANGED <<disk, mem, call, poll, stopping, tries, row, reached, overtaken, crashes, failures>>

(* The dump holds the tables as they were when it was made: its own backup *)
(* row RUNNING without an object key, and no row of this restore.          *)
EndRestore ==
  /\ pipe.at = "restoring" /\ RequestsSettled
  /\ applied' = {RESTORING}
  /\ usable' = FALSE
  /\ \E old \in SUBSET (Restores \ {pipe.doc.uuid}) :
       row' = [v \in Restores |-> IF v \in old THEN row[v] ELSE "none"]
  /\ EnterStage(mem, MIGRATE_FORWARD)
  /\ UNCHANGED <<disk, call, poll, stopping, tries, begun, reached, overtaken, crashes, failures>>

Apply(i) ==
  /\ EndsWell(i)
  /\ applied' = applied \cup {i}
  /\ UNCHANGED <<marker, row>>

NoTaskLost == tries
TasksEnded == [u \in Restores |-> IF tries[u] = None THEN None ELSE 0]

MigrateForward == Apply(MIGRATE_FORWARD) /\ UNCHANGED tries

(* Every task row that is not terminal becomes CANCELLED.                  *)
CancelTasks == Apply(CANCEL_TASKS) /\ tries' = TasksEnded

ReinstateBackups == Apply(REINSTATE_BACKUPS) /\ UNCHANGED tries

(* The queue's jobs go with everything else in Redis.                      *)
ClearRedis == Apply(CLEAR_REDIS) /\ tries' = TasksEnded

(* Migrations, functions, a super administrator, all services ready.       *)
CheckReadiness == Apply(READINESS) /\ UNCHANGED tries

(* A stage throws: the error is written into the manifest, which keeps its *)
(* stage, and the marker stays.                                            *)
FailStage ==
  /\ pipe.at \in {"run", "restoring"} /\ pipe.i # DONE /\ RequestsSettled
  /\ \/ ~CanEndWell(pipe.i) /\ pipe.at = "run" /\ UNCHANGED failures
     \/ failures < MaxFailures /\ failures' = failures + 1
  /\ IF mem = None THEN UNCHANGED mem ELSE mem' = [mem EXCEPT !.error = TRUE]
  /\ pipe' = IF mem = None THEN Idle ELSE [pipe EXCEPT !.at = "fail", !.doc = mem']
  /\ UNCHANGED <<disk, call, poll, stopping, database, reached, overtaken, crashes>>

WriteFailure ==
  /\ pipe.at = "fail"
  /\ Record(pipe.doc)
  /\ pipe' = [pipe EXCEPT !.at = "failed"]
  /\ UNCHANGED <<marker, mem, call, poll, stopping, database, overtaken, crashes, failures>>

ReportFailure ==
  /\ pipe.at = "failed" /\ FilesSettled
  /\ Mirror("FAILED")
  /\ pipe' = Idle
  /\ UNCHANGED <<disk, mem, call, poll, stopping, tries, applied, begun, usable, reached, overtaken, crashes, failures>>

(* After the loop: DONE is written once more, then the marker is removed,  *)
(* then the mirror row is brought up to date.                              *)
Finish ==
  /\ pipe.at = "run" /\ pipe.i = DONE
  /\ mem' = IF mem = None THEN None ELSE [mem EXCEPT !.stage = DONE]
  /\ pipe' = IF mem = None THEN Idle ELSE [pipe EXCEPT !.at = "close", !.doc = mem']
  /\ UNCHANGED <<disk, call, poll, stopping, database, reached, overtaken, crashes, failures>>

WriteDone ==
  /\ pipe.at = "close"
  /\ Record(pipe.doc)
  /\ pipe' = [pipe EXCEPT !.at = "unmark"]
  /\ UNCHANGED <<marker, mem, call, poll, stopping, database, overtaken, crashes, failures>>

ClearMarker ==
  /\ pipe.at = "unmark"
  /\ marker' = FALSE
  /\ pipe' = [pipe EXCEPT !.at = "report"]
  /\ UNCHANGED <<file, mem, call, poll, stopping, database, reached, overtaken, crashes, failures>>

ReportSuccess ==
  /\ pipe.at = "report" /\ FilesSettled
  /\ Mirror("SUCCEEDED")
  /\ pipe' = Idle
  /\ UNCHANGED <<disk, mem, call, poll, stopping, tries, applied, begun, usable, reached, overtaken, crashes, failures>>

-----------------------------------------------------------------------------
(* The super administrator's control session, and the process itself.      *)

(* verifyRecoverySessionToken, for a token within its hour.                *)
SessionInMemory == mem # None /\ mem.stage # DONE
SessionValid == mem # None => mem.stage # DONE

(* The administrator retries what was recorded and has not ended or still  *)
(* blocks the site.                                                        *)
WorthRetrying == file # None /\ (marker \/ file.stage # DONE)

(* retry, with the manifest in memory.                                     *)
Retry ==
  /\ ~stopping /\ SessionValid /\ WorthRetrying
  /\ pipe.at = "idle" /\ mem # None
  /\ RunPipeline(mem)
  /\ UNCHANGED <<disk, call, poll, stopping, database, reached, overtaken, crashes, failures>>

(* loadManifest reads the file in one step and assigns what it read to     *)
(* this.manifest in another: getStatus calls it at any moment, retry when  *)
(* there is nothing in memory.                                             *)
Load(p, at) ==
  /\ ~stopping /\ SessionValid
  /\ poll[p].at = "idle"
  /\ poll' = [poll EXCEPT ![p] = [at |-> at, seen |-> file]]
  /\ UNCHANGED <<disk, mem, pipe, call, stopping, database, reached, overtaken, crashes, failures>>

ReadStatus(p) == Load(p, "status")
ReadToRetry(p) == mem = None /\ WorthRetrying /\ Load(p, "retry")

(* The manifest as it is now: the one in memory while a write of it is     *)
(* under way, the one on disk otherwise.                                   *)
Latest ==
  IF pipe.at \in {"write", "fail", "close"} \/ \E c \in Calls : call[c].at = "writing"
    THEN mem ELSE file

Answer(p) ==
  /\ poll[p].at # "idle"
  /\ IF poll[p].at = "retry" THEN RunPipeline(poll[p].seen) ELSE mem' = poll[p].seen /\ UNCHANGED pipe
  /\ overtaken' = (overtaken \/ poll[p].seen # Latest)
  /\ poll' = [poll EXCEPT ![p] = NoPoll]
  /\ UNCHANGED <<disk, call, stopping, database, reached, crashes, failures>>

(* beginShutdown: SIGTERM.                                                 *)
BeginShutdown ==
  /\ ~stopping /\ crashes < MaxCrashes
  /\ stopping' = TRUE
  /\ UNCHANGED <<disk, mem, pipe, call, poll, database, reached, overtaken, crashes, failures>>

(* The process ends, in order or not, and is started again; nothing is     *)
(* resumed by itself.                                                      *)
Restart ==
  /\ crashes < MaxCrashes
  /\ crashes' = crashes + 1
  /\ mem' = None /\ pipe' = Idle /\ stopping' = FALSE
  /\ call' = [c \in Calls |-> NoCall]
  /\ poll' = [p \in Polls |-> NoPoll]
  /\ UNCHANGED <<disk, database, reached, overtaken, failures>>

PipelineStep ==
  \/ WriteStage
  \/ Precheck \/ Maintain \/ BeginRestore \/ EndRestore \/ MigrateForward \/ CancelTasks
  \/ ReinstateBackups \/ ClearRedis \/ CheckReadiness
  \/ FailStage \/ WriteFailure \/ ReportFailure \/ Finish \/ WriteDone \/ ClearMarker \/ ReportSuccess

HandlerStep ==
  \E c \in Calls : Refuse(c) \/ Archive(c) \/ Compose(c) \/ WriteNew(c) \/ MarkMaintenance(c) \/ StartAccepted(c)

Next ==
  \/ \E u \in Restores : ConfirmRestore(u) \/ TaskEnds(u)
  \/ \E c \in Calls, u \in Restores : Deliver(c, u)
  \/ HandlerStep
  \/ PipelineStep
  \/ Retry
  \/ \E p \in Polls : ReadStatus(p) \/ ReadToRetry(p) \/ Answer(p)
  \/ BeginShutdown \/ Restart

Spec == Init /\ [][Next]_vars

(* The event loop runs what is ready, a stopped process is started again   *)
(* (restart: unless-stopped) and a super administrator with a valid        *)
(* session retries.                                                        *)
FairSpec ==
  /\ Spec
  /\ WF_vars(HandlerStep) /\ SF_vars(PipelineStep)
  /\ WF_vars(stopping /\ Restart)
  /\ WF_vars(Retry \/ \E p \in Polls : ReadToRetry(p))
  /\ WF_vars(\E p \in Polls : Answer(p))
-----------------------------------------------------------------------------
(* Traffic is let in only on a whole database: while the marker is absent, *)
(* either pg_restore never began or everything after it was done as well,  *)
(* whatever was retried, refused, stopped or killed in between             *)
(* (runPipelineInner: the marker goes last and a failure keeps it).        *)
OpensWhole == ~marker => (~begun \/ applied = RESTORING .. READINESS)

(* The pipeline never runs a stage of a restore that an earlier run of the *)
(* same restore has left behind (runPipelineInner: finished stages are not *)
(* replayed): not after a crash or a retry, and not because a delivery is  *)
(* repeated late, when another restore has come and gone.  The exception   *)
(* is loadManifest: a status request that read the file before a stage     *)
(* wrote it and is answered afterwards puts the older manifest back, which *)
(* a failing stage then writes and a retry resumes.                        *)
NoReplay ==
  pipe.at \in {"run", "restoring"} => pipe.i >= reached[pipe.doc.uuid] \/ overtaken

(* The manifest of a restore that has not ended is never removed or        *)
(* replaced by that of another (acceptDelivery), with the same exception:  *)
(* a status request that read the manifest of the restore before and is    *)
(* answered during the delivery makes the pipeline write that one again.   *)
KeepsManifest ==
  [][(file # None /\ file.stage # DONE) =>
       \/ file' # None /\ file'.uuid = file.uuid
       \/ overtaken]_vars

(* Failed stages can be retried until maintenance ends (retry, PRD of      *)
(* backstage, section 10), unless the process died at one of two places:   *)
(* in RESTORING, which then finds the row of its backup gone, or without   *)
(* an object key, in the database it has begun to overwrite; or between    *)
(* DONE and the removal of the marker, when the first status request makes *)
(* the control session invalid; or unless a stale status answer made the   *)
(* pipeline go on with the manifest of the restore before.                 *)
EndsUnlessInterrupted ==
  []<>(\/ ~marker
       \/ file # None /\ file.stage = RESTORING /\ ~usable
       \/ file # None /\ file.stage = DONE /\ crashes > 0
       \/ overtaken)
=============================================================================
