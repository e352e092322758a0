--------------------------- MODULE Recovery_proofs ---------------------------
(***************************************************************************)
(* Proofs about Recovery: traffic is let in on a whole database only, and, *)
(* as long as no status request has put an old manifest back, no finished  *)
(* stage runs again and the manifest of an unfinished restore is never     *)
(* lost.  They hold for any number of restores, deliveries, status         *)
(* requests, attempts, crashes and failures.                               *)
(***************************************************************************)
EXTENDS Recovery, TLAPS

PipePcs == {"idle", "write", "run", "restoring", "fail", "failed", "close", "unmark", "report"}
CallPcs == {"idle", "decide", "write", "writing", "mark", "sync"}
Pipes == [at : PipePcs, i : 0 .. DONE, doc : Manifests \cup {None}]
OpenCalls == [at : CallPcs, u : Restores \cup {None}, seen : Manifests \cup {None}]
OpenPolls == [at : {"idle", "status", "retry"}, seen : Manifests \cup {None}]

TypeOK ==
  /\ file \in Manifests \cup {None} /\ mem \in Manifests \cup {None}
  /\ marker \in BOOLEAN /\ stopping \in BOOLEAN /\ overtaken \in BOOLEAN
  /\ pipe \in Pipes
  /\ call \in [Calls -> OpenCalls]
  /\ \A c \in Calls : call[c].at # "idle" => call[c].u \in Restores
  /\ poll \in [Polls -> OpenPolls]
  /\ \A p \in Polls : poll[p].at = "idle" => poll[p].seen = None
  /\ tries \in [Restores -> Nat \cup {None}]
  /\ row = [u \in Restores |-> row[u]]
  /\ applied \subseteq RESTORING .. READINESS
  /\ reached \in [Restores -> Nat]

(***************************************************************************)
(* The first invariant speaks only of stages: those that some manifest     *)
(* names, be it on disk, in memory, about to be written or read by a       *)
(* status request that is not answered yet.  A stale manifest names an     *)
(* earlier stage, and whatever was done before a stage stays done, so the  *)
(* pipeline may do stages twice but cannot leave one out.                  *)
(***************************************************************************)
StageOf(m) == IF m = None THEN 0 ELSE m.stage
InMemory(k) == k = StageOf(mem) \/ \E p \in Polls : k = StageOf(poll[p].seen)
Named(k) == k = StageOf(file) \/ k = StageOf(pipe.doc) \/ InMemory(k)
PollsLow == \A p \in Polls : StageOf(poll[p].seen) <= RESTORING

PipeNames ==
  /\ pipe.at # "idle" => pipe.doc # None /\ pipe.i \in Stages
  /\ pipe.at \notin {"idle", "fail", "failed"} => StageOf(pipe.doc) = pipe.i
  /\ pipe.at = "idle" => pipe.doc = None
  /\ pipe.at = "restoring" => pipe.i = RESTORING
  /\ pipe.at \in {"close", "unmark", "report"} => pipe.i = DONE
  /\ pipe.at \in {"run", "restoring", "fail"} => StageOf(file) \in {0, PRECHECK, pipe.i}

NamedDone == \A k \in Stages : Named(k) => \A j \in RESTORING .. READINESS : j < k => j \in applied
NeverBoth == ~(Named(RESTORING) /\ Named(DONE))
RestoringMarked == Named(RESTORING) => marker

(* While RESTORING is worked at, nobody names a later stage.               *)
RestoringLast ==
  pipe.at # "idle" /\ pipe.i = RESTORING =>
    marker /\ \A k \in Stages : Named(k) => k <= RESTORING

(* A pipeline that resumes at RESTORING will not find a later one either.  *)
ResumesLow ==
  /\ pipe.at = "idle" /\ ~stopping =>
       /\ InMemory(RESTORING) => StageOf(file) <= RESTORING
       /\ InMemory(RESTORING) \/ StageOf(file) = RESTORING => PollsLow
  /\ pipe.at = "failed" /\ InMemory(RESTORING) => StageOf(file) <= RESTORING
  /\ pipe.at = "fail" /\ InMemory(RESTORING) => StageOf(pipe.doc) <= RESTORING

SafeInv ==
  /\ TypeOK
  /\ PipeNames /\ NamedDone /\ NeverBoth /\ RestoringMarked /\ RestoringLast /\ ResumesLow
  /\ OpensWhole

(***************************************************************************)
(* The second holds as long as no stale manifest was put back: it ties the *)
(* manifests to one another and to the deliveries.                         *)
(***************************************************************************)

(* The pipeline is somewhere between the start of a stage and the removal  *)
(* of the marker.                                                          *)
Working == pipe.at \notin {"idle", "report", "failed"}

(* The manifest the process goes by, the one on disk when it has none.     *)
Current == IF Working THEN mem ELSE file

Writing(c) == call[c].at = "writing"

(* The manifest on disk and the one in memory, as the pipeline knows them. *)
PipeFits ==
  /\ Working => /\ mem # None /\ mem = pipe.doc
                /\ file # None /\ file.uuid = mem.uuid /\ file.stage <= mem.stage
                /\ mem.stage >= RESTORING => marker
  /\ pipe.at = "write" => pipe.i = mem.stage
  /\ pipe.at \in {"run", "restoring"} => file = mem /\ pipe.i = mem.stage
  /\ pipe.at = "restoring" => pipe.i = RESTORING
  /\ pipe.at = "fail" => file.stage = mem.stage
  /\ pipe.at = "close" => file.stage = DONE /\ mem.stage = DONE
  /\ pipe.at = "unmark" => file = mem /\ mem.stage = DONE
  /\ ~Working => \/ mem = None \/ mem = file
                 \/ file = None /\ mem.stage = DONE
                 \/ \E c \in Calls : Writing(c)
  /\ \A c \in Calls : Writing(c) => mem = NewManifest(call[c].u)

MarkerFits ==
  /\ file # None /\ file.stage \in RESTORING .. READINESS => marker
  /\ file = None => ~marker

Ended(u) == tries[u] \in {None, 0}

(* From CANCEL_TASKS on, and until the site is opened, no delivery of any  *)
(* restore is left.                                                        *)
LateAlone ==
  Current # None /\ Current.stage > CANCEL_TASKS /\ marker =>
    (\A u \in Restores : Ended(u)) /\ CallsSettled

Recorded ==
  /\ file # None => reached[file.uuid] = file.stage
  /\ mem # None => reached[mem.uuid] > 0 \/ \E c \in Calls : Writing(c)
  /\ \A u \in Restores : tries[u] = None => reached[u] = 0
  /\ \A c \in Calls : call[c].at # "idle" => tries[call[c].u] # None

(* No restore is under way.                                                *)
Quiet == file = None \/ (file.stage = DONE /\ ~marker)

(* A delivery that is about to write a new manifest.                       *)
Writes(c) ==
  \/ call[c].at \in {"write", "writing"}
  \/ call[c].at = "decide" /\ (call[c].seen = None \/ MayReplace(call[c].seen, call[c].u))

Wants(u) == ~Ended(u) \/ \E c \in Calls : Writes(c) /\ call[c].u = u

(* Only one restore can begin, and only when none is under way.            *)
Starting ==
  /\ \A c \in Calls : Writes(c) => Quiet
  /\ Quiet => \A u \in Restores : Wants(u) =>
                /\ row[u] = "PENDING" /\ reached[u] = 0
                /\ \A v \in Restores : Wants(v) => v = u
  /\ \A c, d \in Calls :
       c # d /\ "idle" \notin {call[c].at, call[d].at} /\ call[c].u = call[d].u
         => "sync" \in {call[c].at, call[d].at}

(* A delivery that has written its manifest.                               *)
Started ==
  \A c \in Calls : call[c].at \in {"mark", "sync"} =>
    /\ file # None /\ file.uuid = call[c].u /\ file.stage = PRECHECK
    /\ mem # None /\ mem.uuid = call[c].u /\ mem.stage = PRECHECK

(* A retry that is loading the manifest has something to retry.            *)
Retrying == \A p \in Polls : poll[p].at = "retry" /\ pipe.at = "idle" => ~Quiet

Inv ==
  /\ PipeFits /\ MarkerFits /\ LateAlone /\ Recorded /\ Starting /\ Started /\ Retrying

LEMMA GreaterOfTwo ==
  ASSUME NEW a \in Nat, NEW b \in Nat
  PROVE  Max({a, b}) = IF a >= b THEN a ELSE b
BY DEF Max

-----------------------------------------------------------------------------
(* The first invariant.                                                    *)

LEMMA StageTyped ==
  ASSUME TypeOK
  PROVE  /\ StageOf(file) \in 0 .. 9 /\ StageOf(mem) \in 0 .. 9 /\ StageOf(pipe.doc) \in 0 .. 9
         /\ \A p \in Polls : StageOf(poll[p].seen) \in 0 .. 9
         /\ \A m \in Manifests : m # None /\ m.stage \in 1 .. 9 /\ StageOf(m) = m.stage
BY RecoveryAssumption DEF TypeOK, StageOf, Pipes, OpenPolls, Manifests, Stages, PRECHECK, DONE

LEMMA InitSafe == Init => SafeInv
<1> SUFFICES ASSUME Init PROVE SafeInv
  OBVIOUS
<1> USE RecoveryAssumption DEF Init
<1>1. TypeOK
  <2>1. pipe \in Pipes
    BY DEF Idle, Pipes, PipePcs, DONE
  <2>2. call \in [Calls -> OpenCalls]
    BY DEF NoCall, OpenCalls, CallPcs
  <2>3. poll \in [Polls -> OpenPolls]
    BY DEF NoPoll, OpenPolls
  <2> QED
    BY <2>1, <2>2, <2>3 DEF TypeOK, NoCall, NoPoll
<1>2. /\ StageOf(file) = 0 /\ StageOf(mem) = 0 /\ StageOf(pipe.doc) = 0
      /\ \A p \in Polls : StageOf(poll[p].seen) = 0
  BY DEF StageOf, Idle, NoPoll
<1>3. \A k \in Stages : ~Named(k)
  BY <1>2 DEF Named, InMemory, Stages, PRECHECK, DONE
<1>4. PipeNames /\ NamedDone /\ NeverBoth /\ RestoringMarked /\ RestoringLast /\ OpensWhole
  BY <1>3 DEF PipeNames, NamedDone, NeverBoth, RestoringMarked, RestoringLast, OpensWhole, Idle,
     Stages, PRECHECK, RESTORING, DONE
<1>5. ResumesLow
  BY <1>2 DEF ResumesLow, PollsLow, InMemory, Idle, RESTORING
<1> QED
  BY <1>1, <1>4, <1>5 DEF SafeInv

(* Steps that leave the manifests, the pipeline and the database alone.    *)
LEMMA SafeOutside ==
  ASSUME SafeInv, NEW c \in Calls, NEW u \in Restores,
         \/ ConfirmRestore(u) \/ TaskEnds(u) \/ Deliver(c, u) \/ Refuse(c) \/ MarkMaintenance(c)
         \/ BeginShutdown \/ UNCHANGED vars
  PROVE  SafeInv'
<1> USE RecoveryAssumption DEF SafeInv
<1>1. /\ UNCHANGED <<file, mem, pipe, poll, applied, begun, reached, overtaken>>
      /\ marker' = marker \/ marker' = TRUE
      /\ stopping' = stopping \/ stopping' = TRUE
  BY DEF ConfirmRestore, TaskEnds, Deliver, Refuse, MarkMaintenance, BeginShutdown, vars, disk, process, database
<1>2. tries' \in [Restores -> Nat \cup {None}] /\ row' = [v \in Restores |-> row'[v]]
  <2>1. CASE ConfirmRestore(u)
    BY <2>1 DEF ConfirmRestore, TypeOK
  <2>2. CASE TaskEnds(u)
    BY <2>2 DEF TaskEnds, TypeOK, database
  <2>3. CASE Deliver(c, u)
    <3>1. tries[u] \in Nat \ {0} /\ tries' = [tries EXCEPT ![u] = @ - 1] /\ UNCHANGED row
      BY <2>3 DEF Deliver, TypeOK
    <3>2. tries[u] - 1 \in Nat
      BY <3>1
    <3> QED
      BY <3>1, <3>2 DEF TypeOK
  <2>4. CASE UNCHANGED <<tries, row>>
    BY <2>4 DEF TypeOK
  <2> QED
    BY <2>1, <2>2, <2>3, <2>4 DEF Refuse, MarkMaintenance, BeginShutdown, vars, database
<1>3. call' \in [Calls -> OpenCalls] /\ \A d \in Calls : call'[d].at # "idle" => call'[d].u \in Restores
  <2>1. CASE call' = [call EXCEPT ![c] = [at |-> "decide", u |-> u, seen |-> file]]
    <3>1. [at |-> "decide", u |-> u, seen |-> file] \in OpenCalls
      BY DEF TypeOK, OpenCalls, CallPcs
    <3> QED
      BY <2>1, <3>1 DEF TypeOK
  <2>2. CASE call' = [call EXCEPT ![c] = NoCall]
    <3>1. NoCall \in OpenCalls
      BY DEF NoCall, OpenCalls, CallPcs
    <3> QED
      BY <2>2, <3>1 DEF TypeOK, NoCall
  <2>3. CASE call' = [call EXCEPT ![c].at = "sync"] /\ call[c].at = "mark"
    <3>1. [call[c] EXCEPT !.at = "sync"] \in OpenCalls
      BY DEF TypeOK, OpenCalls, CallPcs
    <3> QED
      BY <2>3, <3>1 DEF TypeOK, OpenCalls
  <2>4. CASE UNCHANGED call
    BY <2>4 DEF TypeOK
  <2> QED
    BY <2>1, <2>2, <2>3, <2>4 DEF ConfirmRestore, TaskEnds, Deliver, Refuse, MarkMaintenance, BeginShutdown,
       Return, Advance, vars, process
<1>4. TypeOK'
  BY <1>1, <1>2, <1>3 DEF TypeOK
<1>5. PipeNames' /\ NamedDone' /\ NeverBoth' /\ RestoringMarked' /\ RestoringLast' /\ ResumesLow' /\ OpensWhole'
  BY <1>1 DEF PipeNames, NamedDone, NeverBoth, RestoringMarked, RestoringLast, ResumesLow, OpensWhole,
     Named, InMemory, PollsLow
<1> QED
  BY <1>4, <1>5

(* The process starts again and has forgotten what was in memory.          *)
LEMMA SafeRestart == ASSUME SafeInv, Restart PROVE SafeInv'
<1> USE RecoveryAssumption DEF SafeInv, Restart, disk, database
<1>1. TypeOK'
  <2>1. pipe' \in Pipes
    BY DEF Idle, Pipes, PipePcs, DONE
  <2>2. call' \in [Calls -> OpenCalls]
    BY DEF NoCall, OpenCalls, CallPcs
  <2>3. poll' \in [Polls -> OpenPolls]
    BY DEF NoPoll, OpenPolls
  <2> QED
    BY <2>1, <2>2, <2>3 DEF TypeOK, NoCall, NoPoll
<1>2. /\ pipe'.at = "idle" /\ pipe'.doc = None /\ StageOf(mem)' = 0 /\ StageOf(pipe'.doc) = 0
      /\ \A p \in Polls : StageOf(poll'[p].seen) = 0
  BY DEF StageOf, Idle, NoPoll
<1>3. \A k \in Stages : Named(k)' => Named(k)
  BY <1>2 DEF Named, InMemory, Stages, PRECHECK, DONE, StageOf
<1>4. PipeNames' /\ NamedDone' /\ NeverBoth' /\ RestoringMarked' /\ RestoringLast' /\ OpensWhole'
  BY <1>2, <1>3 DEF PipeNames, NamedDone, NeverBoth, RestoringMarked, RestoringLast, OpensWhole,
     Stages, PRECHECK, RESTORING, DONE
<1>5. ResumesLow'
  BY <1>2 DEF ResumesLow, PollsLow, InMemory, RESTORING
<1> QED
  BY <1>1, <1>4, <1>5

(* A new manifest, in memory and then on disk, names the first stage.      *)
LEMMA SafeAccept ==
  ASSUME SafeInv, NEW c \in Calls, Archive(c) \/ Compose(c) \/ WriteNew(c)
  PROVE  SafeInv'
<1> USE RecoveryAssumption DEF SafeInv
<1> DEFINE new == NewManifest(call[c].u)
<1>1. call[c].u \in Restores
  BY DEF Archive, Compose, WriteNew, TypeOK
<1>2. new \in Manifests /\ new # None /\ StageOf(new) = 1 /\ new.uuid = call[c].u /\ new.stage = 1
  <2>1. new \in Manifests /\ new.uuid = call[c].u /\ new.stage = 1
    BY <1>1 DEF NewManifest, Manifests, Stages, PRECHECK, DONE
  <2> HIDE DEF new
  <2> QED
    BY <2>1 DEF StageOf
<1> HIDE DEF new
<1>3. /\ UNCHANGED <<marker, pipe, poll, stopping, tries, row, applied, begun, overtaken>>
      /\ \/ file' = None /\ UNCHANGED <<mem, reached>>
         \/ mem' = new /\ UNCHANGED <<file, reached>>
         \/ file' = new /\ UNCHANGED mem /\ reached' = [reached EXCEPT ![new.uuid] = Max({@, new.stage})]
  BY DEF Archive, Compose, WriteNew, Record, disk, database, new
<1>4. reached' \in [Restores -> Nat]
  <2>1. reached[new.uuid] \in Nat
    BY <1>1, <1>2 DEF TypeOK
  <2>2. Max({reached[new.uuid], new.stage}) \in Nat
    BY <1>2, <2>1, GreaterOfTwo
  <2> QED
    BY <1>3, <2>2 DEF TypeOK
<1>5. call' \in [Calls -> OpenCalls] /\ \A d \in Calls : call'[d].at # "idle" => call'[d].u \in Restores
  <2>1. \/ call' = [call EXCEPT ![c] = NoCall]
        \/ \E at \in CallPcs : call' = [call EXCEPT ![c].at = at]
    BY DEF Archive, Compose, WriteNew, Return, Advance, CallPcs
  <2>2. NoCall \in OpenCalls /\ \A at \in CallPcs : [call[c] EXCEPT !.at = at] \in OpenCalls
    BY DEF TypeOK, NoCall, OpenCalls, CallPcs
  <2>3. \A at \in CallPcs : [call[c] EXCEPT !.at = at].u \in Restores
    BY <1>1 DEF TypeOK, OpenCalls
  <2>4. CASE call' = [call EXCEPT ![c] = NoCall]
    BY <2>2, <2>4 DEF TypeOK, NoCall
  <2>5. ASSUME NEW at \in CallPcs, call' = [call EXCEPT ![c].at = at]
        PROVE  call' \in [Calls -> OpenCalls] /\ \A d \in Calls : call'[d].at # "idle" => call'[d].u \in Restores
    <3>1. call' = [d \in Calls |-> IF d = c THEN [call[c] EXCEPT !.at = at] ELSE call[d]]
      BY <2>5 DEF TypeOK
    <3> QED
      BY <2>2, <2>3, <3>1 DEF TypeOK
  <2> QED
    BY <2>1, <2>4, <2>5
<1>6. TypeOK'
  BY <1>2, <1>3, <1>4, <1>5 DEF TypeOK
<1>7. /\ StageOf(file)' = StageOf(file) \/ StageOf(file)' \in {0, 1}
      /\ StageOf(mem)' = StageOf(mem) \/ StageOf(mem)' = 1
      /\ StageOf(pipe.doc)' = StageOf(pipe.doc)
      /\ \A p \in Polls : poll'[p] = poll[p]
  BY <1>2, <1>3 DEF StageOf
<1>8. \A k \in Stages : (Named(k)' => Named(k) \/ k = 1) /\ (InMemory(k)' => InMemory(k) \/ k = 1)
  BY <1>7 DEF Named, InMemory, Stages, PRECHECK, DONE, StageOf
<1>9. PipeNames'
  BY <1>3, <1>7 DEF PipeNames, PRECHECK, StageOf
<1>10. NamedDone' /\ NeverBoth' /\ RestoringMarked' /\ RestoringLast' /\ OpensWhole'
  BY <1>3, <1>8 DEF NamedDone, NeverBoth, RestoringMarked, RestoringLast, OpensWhole, Stages, PRECHECK, RESTORING, READINESS, DONE
<1>11. ResumesLow'
  BY <1>3, <1>7, <1>8 DEF ResumesLow, PollsLow, Stages, PRECHECK, RESTORING, DONE, StageOf
<1> QED
  BY <1>6, <1>9, <1>10, <1>11

(* The head of the loop: the manifest m is given the stage i, or nothing   *)
(* runs any more.                                                          *)
LEMMA EnterStageMoves ==
  ASSUME NEW m \in Manifests \cup {None}, NEW i \in Stages, EnterStage(m, i)
  PROVE  \/ pipe' = Idle /\ mem' = m /\ (stopping \/ m = None)
         \/ /\ m # None /\ mem' \in Manifests /\ mem' # None /\ ~stopping
            /\ mem'.uuid = m.uuid /\ mem'.stage = i
            /\ pipe' = [at |-> "write", i |-> i, doc |-> mem']
<1> USE RecoveryAssumption DEF EnterStage
<1>1. CASE stopping \/ m = None
  BY <1>1
<1>2. CASE ~(stopping \/ m = None)
  <2>1. m \in Manifests
    BY <1>2
  <2> DEFINE doc == [m EXCEPT !.stage = i, !.error = FALSE]
  <2>2. doc \in Manifests /\ doc.uuid = m.uuid /\ doc.stage = i
    BY <2>1 DEF Manifests
  <2>3. mem' = doc /\ pipe' = [at |-> "write", i |-> i, doc |-> doc]
    BY <1>2
  <2> HIDE DEF doc
  <2> QED
    BY <1>2, <2>2, <2>3
<1> QED
  BY <1>1, <1>2

(* runPipeline starts at the stage that the manifest m names.              *)
LEMMA RunMoves ==
  ASSUME NEW m \in Manifests \cup {None}, RunPipeline(m)
  PROVE  \/ mem' = m /\ UNCHANGED pipe
         \/ mem' = m /\ pipe.at = "idle" /\ pipe' = Idle /\ (stopping \/ m = None)
         \/ /\ m # None /\ mem' \in Manifests /\ mem' # None /\ ~stopping
            /\ mem'.uuid = m.uuid /\ mem'.stage = m.stage /\ m.stage \in Stages
            /\ pipe.at = "idle" /\ pipe' = [at |-> "write", i |-> m.stage, doc |-> mem']
<1>1. CASE m = None \/ pipe.at # "idle"
  BY <1>1 DEF RunPipeline
<1>2. CASE ~(m = None \/ pipe.at # "idle")
  <2>1. m.stage \in Stages /\ EnterStage(m, m.stage) /\ pipe.at = "idle"
    BY <1>2 DEF RunPipeline, ResumeStage, Manifests
  <2> HIDE DEF RunPipeline
  <2> QED
    BY <1>2, <2>1, EnterStageMoves
<1> QED
  BY <1>1, <1>2

(* A retry or an accepted delivery starts the pipeline with the manifest   *)
(* in memory, an answered retry with the one that was read.                *)
LEMMA SafeRun ==
  ASSUME SafeInv, NEW m \in Manifests \cup {None}, RunPipeline(m), StageOf(m) = 0 \/ InMemory(StageOf(m)),
         \A p \in Polls : poll'[p] = poll[p] \/ poll'[p] = NoPoll,
         poll' \in [Polls -> OpenPolls],
         call' \in [Calls -> OpenCalls], \A d \in Calls : call'[d].at # "idle" => call'[d].u \in Restores,
         row' = [v \in Restores |-> row'[v]], overtaken' \in BOOLEAN,
         UNCHANGED <<disk, stopping, tries, applied, begun, usable, reached>>
  PROVE  SafeInv'
<1> USE RecoveryAssumption DEF SafeInv, disk
<1>1. pipe' \in Pipes /\ mem' \in Manifests \cup {None}
  BY RunMoves DEF TypeOK, Idle, Pipes, PipePcs, Stages, PRECHECK, DONE
<1>2. TypeOK'
  BY <1>1 DEF TypeOK, NoPoll
<1>3. /\ StageOf(mem') = StageOf(m)
      /\ StageOf(pipe'.doc) \in {0, StageOf(m), StageOf(pipe.doc)}
      /\ \A p \in Polls : StageOf(poll'[p].seen) \in {0, StageOf(poll[p].seen)}
  BY RunMoves DEF StageOf, Idle, NoPoll
<1>4. \A k \in Stages : (Named(k)' => Named(k)) /\ (InMemory(k)' => InMemory(k))
  BY <1>3 DEF Named, InMemory, StageOf, Stages, PRECHECK, DONE
<1>5. NamedDone' /\ NeverBoth' /\ RestoringMarked' /\ OpensWhole'
  BY <1>4 DEF NamedDone, NeverBoth, RestoringMarked, OpensWhole, Stages, PRECHECK, RESTORING, DONE
<1>6. PollsLow => PollsLow'
  BY <1>3 DEF PollsLow, RESTORING
<1>7. CASE mem' = m /\ UNCHANGED pipe
  <2>1. PipeNames' /\ RestoringLast'
    BY <1>4, <1>7 DEF PipeNames, RestoringLast, StageOf
  <2>2. ResumesLow'
    BY <1>4, <1>6, <1>7 DEF ResumesLow, StageOf, Stages, PRECHECK, RESTORING, DONE
  <2> QED
    BY <1>2, <1>5, <2>1, <2>2
<1>8. CASE mem' = m /\ pipe' = Idle /\ pipe.at = "idle"
  <2>1. PipeNames' /\ RestoringLast'
    BY <1>8 DEF PipeNames, RestoringLast, Idle
  <2>2. ResumesLow'
    BY <1>4, <1>6, <1>8 DEF ResumesLow, Idle, StageOf, Stages, PRECHECK, RESTORING, DONE
  <2> QED
    BY <1>2, <1>5, <2>1, <2>2
<1>9. CASE /\ m # None /\ mem' # None /\ ~stopping /\ mem'.stage = m.stage /\ m.stage \in Stages
           /\ pipe.at = "idle" /\ pipe' = [at |-> "write", i |-> m.stage, doc |-> mem']
  <2>1. PipeNames' /\ ResumesLow'
    BY <1>9 DEF PipeNames, ResumesLow, StageOf
  <2>2. RestoringLast'
    <3>1. SUFFICES ASSUME m.stage = RESTORING
                   PROVE  marker /\ \A k \in Stages : Named(k)' => k <= RESTORING
      BY <1>9 DEF RestoringLast
    <3>2. InMemory(RESTORING) /\ StageOf(file) <= RESTORING /\ PollsLow
      BY <1>9, <3>1 DEF ResumesLow, StageOf, RESTORING
    <3>3. marker
      BY <3>2 DEF RestoringMarked, Named
    <3>4. StageOf(mem') = RESTORING /\ StageOf(pipe'.doc) = RESTORING /\ StageOf(file)' = StageOf(file)
      BY <1>9, <3>1 DEF StageOf
    <3>5. PollsLow'
      BY <1>6, <3>2
    <3> QED
      BY <3>2, <3>3, <3>4, <3>5 DEF Named, InMemory, PollsLow, StageOf, RESTORING
  <2> QED
    BY <1>2, <1>5, <2>1, <2>2
<1> QED
  BY <1>7, <1>8, <1>9, RunMoves

(* The control page: reading the manifest, and the answer.                 *)
LEMMA SafeLoad ==
  ASSUME SafeInv, NEW p \in Polls, ReadStatus(p) \/ ReadToRetry(p)
  PROVE  SafeInv'
<1> USE RecoveryAssumption DEF SafeInv, disk, database
<1>1. PICK at \in {"status", "retry"} : Load(p, at)
  BY DEF ReadStatus, ReadToRetry
<1>2. /\ poll' = [poll EXCEPT ![p] = [at |-> at, seen |-> file]]
      /\ UNCHANGED <<disk, mem, pipe, call, stopping, tries, row, applied, begun, reached, overtaken>>
  BY <1>1 DEF Load
<1>3. /\ [at |-> at, seen |-> file] \in OpenPolls
      /\ poll'[p] = [at |-> at, seen |-> file]
      /\ \A q \in Polls \ {p} : poll'[q] = poll[q]
  BY <1>2 DEF OpenPolls, TypeOK
<1>4. TypeOK'
  BY <1>2, <1>3 DEF TypeOK
<1>5. \A k \in Stages : /\ Named(k)' => Named(k)
                        /\ InMemory(k)' => InMemory(k) \/ k = StageOf(file)
  BY <1>2, <1>3 DEF Named, InMemory, StageOf
<1>6. PipeNames' /\ NamedDone' /\ NeverBoth' /\ RestoringMarked' /\ RestoringLast' /\ OpensWhole'
  BY <1>2, <1>5 DEF PipeNames, NamedDone, NeverBoth, RestoringMarked, RestoringLast, OpensWhole,
     Stages, PRECHECK, RESTORING, DONE, StageOf
<1>7. ResumesLow'
  <2>1. RESTORING \in Stages /\ RESTORING = 3
    BY DEF Stages, PRECHECK, RESTORING, DONE
  <2>2. PollsLow /\ StageOf(file) <= RESTORING => PollsLow'
    BY <1>3 DEF PollsLow
  <2>3. pipe.at = "fail" /\ StageOf(file) = RESTORING => StageOf(pipe.doc) <= RESTORING
    BY <2>1, StageTyped DEF PipeNames, RestoringLast, Named, PRECHECK, Stages, DONE
  <2> QED
    BY <1>2, <1>5, <2>1, <2>2, <2>3 DEF ResumesLow, StageOf
<1> QED
  BY <1>4, <1>6, <1>7

LEMMA SafeAnswer == ASSUME SafeInv, NEW p \in Polls, Answer(p) PROVE SafeInv'
<1> USE RecoveryAssumption DEF SafeInv
<1>1. /\ poll' = [poll EXCEPT ![p] = NoPoll] /\ overtaken' \in BOOLEAN
      /\ UNCHANGED <<disk, call, stopping, tries, row, applied, begun, usable, reached>>
      /\ (mem' = poll[p].seen /\ UNCHANGED pipe) \/ RunPipeline(poll[p].seen)
  BY DEF Answer, database, TypeOK
<1>2. /\ NoPoll \in OpenPolls /\ poll[p].seen \in Manifests \cup {None}
      /\ poll' \in [Polls -> OpenPolls] /\ \A q \in Polls : poll'[q] = poll[q] \/ poll'[q] = NoPoll
  BY <1>1 DEF TypeOK, OpenPolls, NoPoll
<1>3. InMemory(StageOf(poll[p].seen))
  BY DEF InMemory
<1>4. CASE RunPipeline(poll[p].seen)
  BY <1>1, <1>2, <1>3, <1>4, SafeRun DEF TypeOK, disk
<1>5. CASE mem' = poll[p].seen /\ UNCHANGED pipe
  <2>1. TypeOK'
    BY <1>1, <1>2, <1>5 DEF TypeOK, NoPoll, disk
  <2>2. /\ \A q \in Polls : StageOf(poll'[q].seen) \in {0, StageOf(poll[q].seen)}
        /\ StageOf(mem') = StageOf(poll[p].seen)
    BY <1>2, <1>5 DEF StageOf, NoPoll
  <2>3. \A k \in Stages : (Named(k)' => Named(k)) /\ (InMemory(k)' => InMemory(k))
    BY <1>1, <1>5, <2>2 DEF Named, InMemory, StageOf, Stages, PRECHECK, DONE, disk
  <2>4. PipeNames' /\ NamedDone' /\ NeverBoth' /\ RestoringMarked' /\ RestoringLast' /\ OpensWhole'
    BY <1>1, <1>5, <2>3 DEF PipeNames, NamedDone, NeverBoth, RestoringMarked, RestoringLast, OpensWhole,
       Stages, PRECHECK, RESTORING, DONE, StageOf, disk
  <2>5. PollsLow => PollsLow'
    BY <2>2 DEF PollsLow, RESTORING
  <2>6. ResumesLow'
    BY <1>1, <1>5, <2>3, <2>5 DEF ResumesLow, StageOf, Stages, PRECHECK, RESTORING, DONE, disk
  <2> QED
    BY <2>1, <2>4, <2>6
<1> QED
  BY <1>1, <1>4, <1>5

LEMMA SafeStart ==
  ASSUME SafeInv, NEW c \in Calls, Retry \/ StartAccepted(c)
  PROVE  SafeInv'
<1> USE RecoveryAssumption DEF SafeInv
<1>1. mem \in Manifests \cup {None} /\ InMemory(StageOf(mem))
  BY DEF TypeOK, InMemory
<1>2. RunPipeline(mem) /\ UNCHANGED <<disk, poll, stopping, tries, applied, begun, usable, reached, overtaken>>
  BY DEF Retry, StartAccepted, database
<1>3. row' = [v \in Restores |-> row'[v]]
  BY DEF Retry, StartAccepted, Mirror, TypeOK, database
<1>4. call' \in [Calls -> OpenCalls] /\ \A d \in Calls : call'[d].at # "idle" => call'[d].u \in Restores
  <2>1. NoCall \in OpenCalls
    BY DEF NoCall, OpenCalls, CallPcs
  <2>2. call' = call \/ call' = [call EXCEPT ![c] = NoCall]
    BY DEF Retry, StartAccepted, Return
  <2> QED
    BY <2>1, <2>2 DEF TypeOK, NoCall
<1> QED
  BY <1>1, <1>2, <1>3, <1>4, SafeRun DEF TypeOK

(* Writing the manifest that the pipeline holds.                           *)
LEMMA SafeRecord ==
  ASSUME SafeInv, WriteStage \/ WriteFailure \/ WriteDone
  PROVE  SafeInv'
<1> USE RecoveryAssumption DEF SafeInv, database
<1>1. /\ pipe.doc \in Manifests /\ pipe.doc # None /\ pipe.doc.uuid \in Restores /\ pipe.doc.stage \in 1 .. 9
      /\ Record(pipe.doc)
      /\ UNCHANGED <<marker, mem, call, poll, stopping, tries, row, applied, begun, overtaken>>
  BY StageTyped DEF WriteStage, WriteFailure, WriteDone, PipeNames, TypeOK, Pipes, Manifests
<1>2. file' = pipe.doc /\ reached' \in [Restores -> Nat]
  <2>1. reached[pipe.doc.uuid] \in Nat
    BY <1>1 DEF TypeOK
  <2>2. pipe.doc.stage \in Nat
    BY <1>1
  <2>3. Max({reached[pipe.doc.uuid], pipe.doc.stage}) \in Nat
    BY <2>1, <2>2, GreaterOfTwo
  <2> QED
    BY <1>1, <2>3 DEF Record, TypeOK
<1>3. \E at \in PipePcs \ {"idle"} : pipe' = [pipe EXCEPT !.at = at]
  BY DEF WriteStage, WriteFailure, WriteDone, PipePcs
<1>4. pipe' \in Pipes /\ pipe'.i = pipe.i /\ pipe'.doc = pipe.doc
  BY <1>3 DEF TypeOK, Pipes
<1>5. TypeOK'
  BY <1>1, <1>2, <1>4 DEF TypeOK
<1>6. StageOf(file)' = StageOf(pipe.doc) /\ \A k \in Stages : (Named(k)' => Named(k)) /\ (InMemory(k)' <=> InMemory(k))
  BY <1>1, <1>2, <1>4 DEF Named, InMemory, StageOf
<1>7. NamedDone' /\ NeverBoth' /\ RestoringMarked' /\ OpensWhole'
  BY <1>1, <1>6 DEF NamedDone, NeverBoth, RestoringMarked, OpensWhole, Stages, PRECHECK, RESTORING, DONE
<1>8. \/ pipe.at = "write" /\ pipe'.at = "run"
      \/ pipe.at = "fail" /\ pipe'.at = "failed"
      \/ pipe.at = "close" /\ pipe'.at = "unmark"
  BY DEF WriteStage, WriteFailure, WriteDone, TypeOK, Pipes
<1>9. PipeNames'
  BY <1>4, <1>6, <1>8 DEF PipeNames, StageOf
<1>10. RestoringLast'
  BY <1>1, <1>4, <1>6, <1>8 DEF RestoringLast
<1>11. ResumesLow'
  BY <1>6, <1>8 DEF ResumesLow, StageOf, Stages, PRECHECK, RESTORING, DONE
<1> QED
  BY <1>5, <1>7, <1>9, <1>10, <1>11

(* Tasks end, and only end.                                                *)
LEMMA TasksEnd ==
  ASSUME TypeOK, tries' \in {tries, TasksEnded}
  PROVE  /\ tries' \in [Restores -> Nat \cup {None}]
         /\ \A u \in Restores : (Ended(u) => Ended(u)') /\ (tries'[u] = None <=> tries[u] = None)
         /\ tries' = TasksEnded => \A u \in Restores : Ended(u)'
BY RecoveryAssumption DEF TypeOK, TasksEnded, Ended

(* What the stages other than RESTORING have in common.                    *)
EndsStage(i) ==
  /\ EndsWell(i)
  /\ marker' \in BOOLEAN /\ (marker' <=> (marker \/ i = MAINTENANCE))
  /\ applied' = IF i > RESTORING THEN applied \cup {i} ELSE applied
  /\ tries' \in {tries, TasksEnded} /\ (i = CANCEL_TASKS => tries' = TasksEnded)
  /\ row' = [v \in Restores |-> row'[v]]

(* The mirror row of the restore in memory is all that syncRestoreRow      *)
(* touches.                                                                *)
LEMMA MirrorMoves ==
  ASSUME TypeOK, NEW status, Mirror(status)
  PROVE  /\ row' = [v \in Restores |-> row'[v]]
         /\ \A v \in Restores : row'[v] = row[v] \/ (mem # None /\ mem.uuid = v)
BY DEF Mirror, TypeOK

LEMMA StagesEnd ==
  ASSUME TypeOK, \/ Precheck \/ Maintain \/ MigrateForward \/ CancelTasks
                 \/ ReinstateBackups \/ ClearRedis \/ CheckReadiness
  PROVE  \E i \in (PRECHECK .. READINESS) \ {RESTORING} : EndsStage(i)
<1> USE DEF Apply, EndsStage, PRECHECK, MAINTENANCE, RESTORING, MIGRATE_FORWARD, CANCEL_TASKS, REINSTATE_BACKUPS,
    CLEAR_REDIS, READINESS
<1> DEFINE Kept == row' = [v \in Restores |-> row'[v]]
<1>1. marker \in BOOLEAN /\ (UNCHANGED row => Kept)
  BY DEF TypeOK
<1>2. CASE Precheck
  <2>1. EndsStage(1)
    BY <1>1, <1>2 DEF Precheck
  <2> QED
    BY <2>1
<1>3. CASE Maintain
  <2>1. Kept
    BY <1>3, MirrorMoves DEF Maintain
  <2>2. EndsStage(2)
    BY <1>1, <1>3, <2>1 DEF Maintain
  <2> QED
    BY <2>2
<1>4. CASE MigrateForward
  <2>1. EndsStage(4)
    BY <1>1, <1>4 DEF MigrateForward
  <2> QED
    BY <2>1
<1>5. CASE CancelTasks
  <2>1. EndsStage(5)
    BY <1>1, <1>5 DEF CancelTasks
  <2> QED
    BY <2>1
<1>6. CASE ReinstateBackups
  <2>1. EndsStage(6)
    BY <1>1, <1>6 DEF ReinstateBackups
  <2> QED
    BY <2>1
<1>7. CASE ClearRedis
  <2>1. EndsStage(7)
    BY <1>1, <1>7 DEF ClearRedis
  <2> QED
    BY <2>1
<1>8. CASE CheckReadiness
  <2>1. EndsStage(8)
    BY <1>1, <1>8 DEF CheckReadiness
  <2> QED
    BY <2>1
<1> QED
  BY <1>2, <1>3, <1>4, <1>5, <1>6, <1>7, <1>8

(* The end of a stage: no status request is open then, so that afterwards  *)
(* only the manifest on disk can name another stage than the next one.     *)
LEMMA SafeEndsStage ==
  ASSUME SafeInv, NEW i \in (PRECHECK .. READINESS) \ {RESTORING}, EndsStage(i)
  PROVE  SafeInv'
<1> USE RecoveryAssumption DEF SafeInv, EndsStage, EndsWell
<1>1. /\ i \in 1 .. 8 /\ i # 3 /\ i \in Stages /\ i + 1 \in Stages
      /\ pipe.at = "run" /\ pipe.i = i /\ StageOf(pipe.doc) = i /\ StageOf(file) \in {0, 1, i}
      /\ mem \in Manifests \cup {None}
  BY DEF PipeNames, TypeOK, Stages, PRECHECK, RESTORING, READINESS, DONE
<1>2. \/ pipe' = Idle /\ mem' = mem /\ (stopping \/ mem = None)
      \/ /\ mem' \in Manifests /\ mem' # None /\ mem'.stage = i + 1
         /\ pipe' = [at |-> "write", i |-> i + 1, doc |-> mem']
  BY <1>1, EnterStageMoves
<1>3. \A p \in Polls : StageOf(poll[p].seen) = 0
  BY DEF RequestsSettled, PollsSettled, TypeOK, StageOf
<1>4. TypeOK'
  <2>1. pipe' \in Pipes
    BY <1>1, <1>2 DEF Idle, Pipes, PipePcs, Stages, PRECHECK, DONE
  <2>2. applied' \subseteq RESTORING .. READINESS
    BY <1>1 DEF TypeOK, RESTORING, READINESS
  <2>3. tries' \in [Restores -> Nat \cup {None}]
    BY TasksEnd
  <2> QED
    BY <1>1, <1>2, <2>1, <2>2, <2>3 DEF TypeOK
<1>5. OpensWhole'
  BY <1>1 DEF OpensWhole, TypeOK, RESTORING, READINESS, MAINTENANCE
<1>6. CASE pipe' = Idle /\ mem' = mem /\ (stopping \/ mem = None)
  <2>1. \A k \in Stages : (Named(k)' => Named(k)) /\ (InMemory(k)' => k = StageOf(mem))
    BY <1>3, <1>6 DEF Named, InMemory, StageOf, Idle, Stages, PRECHECK, DONE
  <2>2. NamedDone' /\ NeverBoth' /\ RestoringMarked'
    BY <1>1, <2>1 DEF NamedDone, NeverBoth, RestoringMarked, Stages, PRECHECK, RESTORING, DONE
  <2>3. PipeNames' /\ RestoringLast'
    BY <1>6 DEF PipeNames, RestoringLast, Idle
  <2>4. ResumesLow'
    BY <1>3, <1>6, <2>1 DEF ResumesLow, PollsLow, Idle, StageOf, Stages, PRECHECK, RESTORING, DONE
  <2> QED
    BY <1>4, <1>5, <2>2, <2>3, <2>4
<1>7. CASE mem' # None /\ mem'.stage = i + 1 /\ pipe' = [at |-> "write", i |-> i + 1, doc |-> mem']
  <2>1. \A k \in Stages : Named(k)' => k \in {1, i, i + 1} /\ (k = 1 \/ k = i => i + 1 # 3 \/ k <= 3)
    BY <1>1, <1>3, <1>7 DEF Named, InMemory, StageOf, Stages, PRECHECK, DONE
  <2>2. NamedDone'
    <3>1. \A j \in RESTORING .. READINESS : j < i => j \in applied
      BY <1>1 DEF NamedDone, Named
    <3>2. \A j \in RESTORING .. READINESS : j < i + 1 => j \in applied'
      BY <1>1, <3>1 DEF RESTORING, READINESS
    <3> QED
      BY <1>1, <2>1, <3>2 DEF NamedDone, RESTORING, READINESS, Stages, PRECHECK, DONE
  <2>3. NeverBoth'
    BY <1>1, <2>1 DEF NeverBoth, RESTORING, DONE, Stages, PRECHECK
  <2>4. RestoringMarked'
    <3>1. Named(RESTORING)' => i = 2
      BY <1>1, <2>1 DEF RESTORING, DONE, Stages, PRECHECK
    <3> QED
      BY <1>1, <3>1 DEF RestoringMarked, MAINTENANCE
  <2>5. RestoringLast'
    BY <1>1, <1>7, <2>1 DEF RestoringLast, MAINTENANCE, RESTORING
  <2>6. PipeNames' /\ ResumesLow'
    BY <1>1, <1>7 DEF PipeNames, ResumesLow, StageOf
  <2> QED
    BY <1>4, <1>5, <2>2, <2>3, <2>4, <2>5, <2>6
<1> QED
  BY <1>2, <1>6, <1>7

LEMMA SafeBeginRestore == ASSUME SafeInv, BeginRestore PROVE SafeInv'
<1> USE RecoveryAssumption DEF SafeInv, BeginRestore, disk
<1>1. pipe' = [pipe EXCEPT !.at = "restoring"] /\ pipe' \in Pipes
  BY DEF TypeOK, Pipes, PipePcs
<1>2. pipe'.at = "restoring" /\ pipe'.i = pipe.i /\ pipe'.doc = pipe.doc
  BY <1>1 DEF TypeOK, Pipes
<1>3. TypeOK'
  BY <1>1 DEF TypeOK
<1>4. \A k \in Stages : (Named(k)' <=> Named(k)) /\ (Named(k) => k <= RESTORING)
  BY <1>2 DEF Named, InMemory, RestoringLast, StageOf
<1>5. marker
  BY DEF RestoringLast
<1>6. PipeNames' /\ NeverBoth' /\ RestoringMarked' /\ RestoringLast' /\ ResumesLow' /\ OpensWhole'
  BY <1>2, <1>4, <1>5 DEF PipeNames, NeverBoth, RestoringMarked, RestoringLast, ResumesLow, OpensWhole,
     Stages, PRECHECK, RESTORING, DONE, StageOf
<1>7. NamedDone'
  BY <1>4 DEF NamedDone, RESTORING, READINESS, Stages, PRECHECK, DONE
<1> QED
  BY <1>3, <1>6, <1>7

LEMMA SafeEndRestore == ASSUME SafeInv, EndRestore PROVE SafeInv'
<1> USE RecoveryAssumption DEF SafeInv, EndRestore, disk
<1>1. /\ pipe.at = "restoring" /\ pipe.i = 3 /\ StageOf(file) \in {0, 1, 3} /\ marker
      /\ mem \in Manifests \cup {None} /\ StageOf(mem) <= 3
  <2>1. StageOf(mem) \in Stages => StageOf(mem) <= 3
    BY DEF RestoringLast, PipeNames, Named, InMemory, RESTORING
  <2>2. StageOf(mem) \in Stages \/ StageOf(mem) = 0
    BY StageTyped DEF Stages, PRECHECK, DONE
  <2> QED
    BY <2>1, <2>2 DEF RestoringLast, PipeNames, TypeOK, RESTORING, PRECHECK
<1>2. \/ pipe' = Idle /\ mem' = mem /\ (stopping \/ mem = None)
      \/ /\ mem' \in Manifests /\ mem' # None /\ mem'.stage = 4
         /\ pipe' = [at |-> "write", i |-> 4, doc |-> mem']
  BY <1>1, EnterStageMoves DEF Stages, PRECHECK, DONE, MIGRATE_FORWARD
<1>3. \A p \in Polls : StageOf(poll[p].seen) = 0
  BY DEF RequestsSettled, PollsSettled, TypeOK, StageOf
<1>4. TypeOK'
  <2>1. pipe' \in Pipes
    BY <1>2 DEF Idle, Pipes, PipePcs, DONE
  <2> QED
    BY <1>1, <1>2, <2>1 DEF TypeOK, RESTORING, READINESS
<1>5. \A k \in Stages : Named(k)' => k <= 4
  <2>1. StageOf(mem') \in {StageOf(mem), 4} /\ StageOf(pipe'.doc) \in {0, 4}
    BY <1>2 DEF StageOf, Idle
  <2>2. StageOf(mem') <= 4 /\ StageOf(pipe'.doc) <= 4 /\ StageOf(file) <= 4
    BY <1>1, <2>1, StageTyped
  <2> QED
    BY <1>3, <2>2 DEF Named, InMemory, StageOf
<1>6. NamedDone' /\ NeverBoth' /\ RestoringMarked' /\ OpensWhole'
  BY <1>1, <1>5 DEF NamedDone, NeverBoth, RestoringMarked, OpensWhole, RESTORING, READINESS, Stages, PRECHECK, DONE
<1>7. PipeNames' /\ RestoringLast'
  BY <1>2 DEF PipeNames, RestoringLast, Idle, StageOf, RESTORING, Stages, PRECHECK, DONE
<1>8. ResumesLow'
  BY <1>1, <1>2, <1>3 DEF ResumesLow, PollsLow, InMemory, Idle, StageOf, RESTORING
<1> QED
  BY <1>4, <1>6, <1>7, <1>8

LEMMA SafeFailStage == ASSUME SafeInv, FailStage PROVE SafeInv'
<1> USE RecoveryAssumption DEF SafeInv, FailStage, disk, database
<1>1. \A p \in Polls : StageOf(poll[p].seen) = 0
  BY DEF RequestsSettled, PollsSettled, TypeOK, StageOf
<1>2. CASE mem = None
  <2>1. TypeOK'
    <3>1. pipe' \in Pipes
      BY <1>2 DEF Idle, Pipes, PipePcs, DONE
    <3> QED
      BY <1>2, <3>1 DEF TypeOK
  <2>2. \A k \in Stages : (Named(k)' => Named(k)) /\ ~InMemory(k)'
    BY <1>1, <1>2 DEF Named, InMemory, StageOf, Idle, Stages, PRECHECK, DONE
  <2>3. PipeNames' /\ NamedDone' /\ NeverBoth' /\ RestoringMarked' /\ RestoringLast' /\ OpensWhole'
    BY <1>2, <2>2 DEF PipeNames, NamedDone, NeverBoth, RestoringMarked, RestoringLast, OpensWhole, Idle,
       Stages, PRECHECK, RESTORING, DONE
  <2>4. ResumesLow'
    BY <1>1, <1>2, <2>2 DEF ResumesLow, PollsLow, Idle, StageOf, Stages, PRECHECK, RESTORING, DONE
  <2> QED
    BY <2>1, <2>3, <2>4
<1>3. CASE mem # None
  <2>1. /\ mem' = [mem EXCEPT !.error = TRUE] /\ mem \in Manifests
        /\ pipe' = [pipe EXCEPT !.at = "fail", !.doc = mem']
    BY <1>3 DEF TypeOK
  <2>2. mem' \in Manifests /\ mem' # None /\ StageOf(mem') = StageOf(mem)
    BY <1>3, <2>1 DEF Manifests, StageOf
  <2>3. pipe'.at = "fail" /\ pipe'.i = pipe.i /\ pipe'.doc = mem' /\ pipe' \in Pipes
    BY <2>1, <2>2 DEF TypeOK, Pipes, PipePcs
  <2>4. TypeOK'
    BY <2>2, <2>3 DEF TypeOK
  <2>5. \A k \in Stages : (Named(k)' => Named(k)) /\ (InMemory(k)' => k = StageOf(pipe'.doc))
    BY <1>1, <2>2, <2>3 DEF Named, InMemory, StageOf, Stages, PRECHECK, DONE
  <2>6. PipeNames' /\ NamedDone' /\ NeverBoth' /\ RestoringMarked' /\ RestoringLast' /\ OpensWhole'
    BY <2>2, <2>3, <2>5 DEF PipeNames, NamedDone, NeverBoth, RestoringMarked, RestoringLast, OpensWhole,
       Stages, PRECHECK, RESTORING, DONE, StageOf
  <2>7. ResumesLow'
    BY <2>3, <2>5 DEF ResumesLow, StageOf, Stages, PRECHECK, RESTORING, DONE
  <2> QED
    BY <2>4, <2>6, <2>7
<1> QED
  BY <1>2, <1>3

(* The ends of the pipeline: a failure was reported, or every stage done.  *)
LEMMA SafeEnd ==
  ASSUME SafeInv, ReportFailure \/ ReportSuccess
  PROVE  SafeInv'
<1> USE RecoveryAssumption DEF SafeInv, disk
<1>1. /\ pipe.at \in {"failed", "report"} /\ pipe' = Idle /\ PollsSettled
      /\ UNCHANGED <<disk, mem, call, poll, stopping, tries, applied, begun, reached, overtaken>>
      /\ row' = [v \in Restores |-> row'[v]]
  BY MirrorMoves DEF ReportFailure, ReportSuccess, FilesSettled
<1>2. \A p \in Polls : StageOf(poll[p].seen) = 0
  BY <1>1 DEF PollsSettled, TypeOK, StageOf
<1>3. TypeOK'
  <2>1. pipe' \in Pipes
    BY <1>1 DEF Idle, Pipes, PipePcs, DONE
  <2> QED
    BY <1>1, <2>1 DEF TypeOK
<1>4. \A k \in Stages : (Named(k)' => Named(k)) /\ (InMemory(k)' <=> InMemory(k))
  BY <1>1 DEF Named, InMemory, StageOf, Idle, Stages, PRECHECK, DONE
<1>5. PipeNames' /\ NamedDone' /\ NeverBoth' /\ RestoringMarked' /\ RestoringLast' /\ OpensWhole'
  BY <1>1, <1>4 DEF PipeNames, NamedDone, NeverBoth, RestoringMarked, RestoringLast, OpensWhole, Idle,
     Stages, PRECHECK, RESTORING, DONE
<1>6. ResumesLow'
  <2>1. PollsLow'
    BY <1>1, <1>2 DEF PollsLow, RESTORING, StageOf
  <2>2. pipe.at = "report" => ~InMemory(RESTORING)
    BY DEF PipeNames, NeverBoth, Named
  <2>3. InMemory(RESTORING) => StageOf(file) <= RESTORING
    BY <1>1, <2>2 DEF ResumesLow
  <2> QED
    BY <1>1, <1>4, <2>1, <2>3 DEF ResumesLow, Idle, StageOf, Stages, PRECHECK, RESTORING, DONE
<1> QED
  BY <1>3, <1>5, <1>6

LEMMA SafeFinish == ASSUME SafeInv, Finish PROVE SafeInv'
<1> USE RecoveryAssumption DEF SafeInv, Finish, disk, database
<1>1. StageOf(pipe.doc) = DONE /\ ~Named(RESTORING)
  BY DEF PipeNames, NeverBoth, Named
<1>2. CASE mem = None
  <2>1. TypeOK'
    <3>1. pipe' \in Pipes
      BY <1>2 DEF Idle, Pipes, PipePcs, DONE
    <3> QED
      BY <1>2, <3>1 DEF TypeOK
  <2>2. \A k \in Stages : Named(k)' => Named(k)
    BY <1>2 DEF Named, InMemory, StageOf, Idle, Stages, PRECHECK, DONE
  <2>3. PipeNames' /\ NamedDone' /\ NeverBoth' /\ RestoringMarked' /\ RestoringLast' /\ OpensWhole'
    BY <1>2, <2>2 DEF PipeNames, NamedDone, NeverBoth, RestoringMarked, RestoringLast, OpensWhole, Idle,
       Stages, PRECHECK, RESTORING, DONE
  <2>4. ResumesLow'
    BY <1>1, <1>2, <2>2 DEF ResumesLow, Named, Idle, StageOf, Stages, PRECHECK, RESTORING, DONE
  <2> QED
    BY <2>1, <2>3, <2>4
<1>3. CASE mem # None
  <2>1. /\ mem' = [mem EXCEPT !.stage = DONE] /\ mem \in Manifests
        /\ pipe' = [pipe EXCEPT !.at = "close", !.doc = mem']
    BY <1>3 DEF TypeOK
  <2>2. mem' \in Manifests /\ mem' # None /\ StageOf(mem') = DONE
    BY <2>1 DEF Manifests, StageOf, Stages, PRECHECK, DONE
  <2>3. pipe'.at = "close" /\ pipe'.i = pipe.i /\ pipe'.doc = mem' /\ pipe' \in Pipes
    BY <2>1, <2>2 DEF TypeOK, Pipes, PipePcs
  <2>4. TypeOK'
    BY <2>2, <2>3 DEF TypeOK
  <2>5. \A k \in Stages : Named(k)' => Named(k)
    BY <1>1, <2>2, <2>3 DEF Named, InMemory, StageOf
  <2>6. PipeNames' /\ NamedDone' /\ NeverBoth' /\ RestoringMarked' /\ RestoringLast' /\ ResumesLow' /\ OpensWhole'
    BY <2>2, <2>3, <2>5 DEF PipeNames, NamedDone, NeverBoth, RestoringMarked, RestoringLast, ResumesLow, OpensWhole,
       Stages, PRECHECK, RESTORING, DONE, StageOf
  <2> QED
    BY <2>4, <2>6
<1> QED
  BY <1>2, <1>3

(* The site is opened: every stage has been done.                          *)
LEMMA SafeClearMarker == ASSUME SafeInv, ClearMarker PROVE SafeInv'
<1> USE RecoveryAssumption DEF SafeInv, ClearMarker, database
<1>1. Named(DONE) /\ DONE \in Stages
  BY DEF PipeNames, Named, Stages, PRECHECK, DONE
<1>2. applied = RESTORING .. READINESS
  BY <1>1 DEF NamedDone, TypeOK, RESTORING, READINESS, DONE
<1>3. pipe' \in Pipes /\ pipe'.at = "report" /\ pipe'.i = pipe.i /\ pipe'.doc = pipe.doc
  BY DEF TypeOK, Pipes, PipePcs
<1>4. TypeOK'
  BY <1>3 DEF TypeOK
<1>5. \A k \in Stages : Named(k)' <=> Named(k)
  BY <1>3 DEF Named, InMemory, StageOf
<1>6. PipeNames' /\ NamedDone' /\ NeverBoth' /\ RestoringMarked' /\ RestoringLast' /\ ResumesLow' /\ OpensWhole'
  BY <1>1, <1>2, <1>3, <1>5 DEF PipeNames, NamedDone, NeverBoth, RestoringMarked, RestoringLast, ResumesLow, OpensWhole,
     Stages, PRECHECK, RESTORING, DONE, StageOf
<1> QED
  BY <1>4, <1>6

LEMMA SafeStep == ASSUME SafeInv, [Next]_vars PROVE SafeInv'
<1> USE RecoveryAssumption
<1>1. \E c \in Calls : TRUE
  OBVIOUS
<1>2. \E u \in Restores : TRUE
  OBVIOUS
<1>3. CASE \/ \E u \in Restores : ConfirmRestore(u) \/ TaskEnds(u)
           \/ \E c \in Calls, u \in Restores : Deliver(c, u)
           \/ \E c \in Calls : Refuse(c) \/ MarkMaintenance(c)
           \/ BeginShutdown \/ UNCHANGED vars
  BY <1>1, <1>2, <1>3, SafeOutside
<1>4. CASE \E c \in Calls : Archive(c) \/ Compose(c) \/ WriteNew(c) \/ StartAccepted(c)
  BY <1>4, SafeAccept, SafeStart
<1>5. CASE PipelineStep
  <2>1. CASE WriteStage \/ WriteFailure \/ WriteDone
    BY <2>1, SafeRecord
  <2>2. CASE \/ Precheck \/ Maintain \/ MigrateForward \/ CancelTasks
             \/ ReinstateBackups \/ ClearRedis \/ CheckReadiness
    BY <2>2, StagesEnd, SafeEndsStage DEF SafeInv
  <2> QED
    BY <1>5, <2>1, <2>2, SafeBeginRestore, SafeEndRestore, SafeFailStage, SafeEnd, SafeFinish, SafeClearMarker
       DEF PipelineStep
<1>6. CASE Retry
  BY <1>1, <1>6, SafeStart
<1>7. CASE \E p \in Polls : ReadStatus(p) \/ ReadToRetry(p) \/ Answer(p)
  BY <1>7, SafeLoad, SafeAnswer
<1>8. CASE Restart
  BY <1>8, SafeRestart
<1> QED
  BY <1>3, <1>4, <1>5, <1>6, <1>7, <1>8 DEF Next, HandlerStep

THEOREM RecoverySafe == Spec => []SafeInv
<1>1. Init => SafeInv
  BY InitSafe
<1>2. SafeInv /\ [Next]_vars => SafeInv'
  BY SafeStep
<1> QED
  BY <1>1, <1>2, PTL DEF Spec

(* While the marker is absent the database is whole, whatever was retried, *)
(* refused, stopped, killed or answered late in between.                   *)
THEOREM OpensAlwaysWhole == Spec => []OpensWhole
<1>1. SafeInv => OpensWhole
  BY DEF SafeInv
<1> QED
  BY <1>1, RecoverySafe, PTL

-----------------------------------------------------------------------------
(* The second invariant, while no stale manifest has been put back.        *)

LEMMA InitInv == Init => Inv
<1> SUFFICES ASSUME Init PROVE Inv
  OBVIOUS
<1> USE RecoveryAssumption DEF Init
<1>1. PipeFits /\ MarkerFits /\ LateAlone /\ Recorded /\ Retrying
  BY DEF PipeFits, MarkerFits, LateAlone, Recorded, Retrying, Working, Writing, Current, Idle, NoCall, NoPoll
<1>2. Starting /\ Started
  BY DEF Starting, Started, Writes, Wants, Ended, NoCall
<1> QED
  BY <1>1, <1>2 DEF Inv

(* Steps of platform-core, of the worker, and the ends of the process.     *)
LEMMA OutsideSteps ==
  ASSUME TypeOK, TypeOK', Inv, NEW u \in Restores, ConfirmRestore(u) \/ TaskEnds(u) \/ BeginShutdown \/ Restart
  PROVE  Inv'
<1> USE RecoveryAssumption DEF Inv
<1>1. CASE ConfirmRestore(u)
  <2> USE <1>1 DEF ConfirmRestore, disk, process
  <2>1. PipeFits' /\ MarkerFits' /\ LateAlone' /\ Started' /\ Retrying'
    BY DEF PipeFits, MarkerFits, LateAlone, Started, Retrying, Quiet, Working, Writing, Current
  <2>2. Recorded'
    BY DEF Recorded, Writing, TypeOK
  <2>3. reached[u] = 0 /\ row'[u] = "PENDING"
    BY DEF Recorded, TypeOK
  <2>4. \A c \in Calls : Writes(c)' <=> Writes(c)
    BY DEF Writes, MayReplace
  <2>5. \A v \in Restores : v # u => (Ended(v)' <=> Ended(v)) /\ row'[v] = row[v]
    BY DEF Ended, TypeOK
  <2>6. ASSUME Quiet, NEW v \in Restores, Wants(v)
        PROVE  FALSE
    BY <2>6 DEF Starting, Active
  <2>7. Starting'
    BY <2>3, <2>4, <2>5, <2>6 DEF Starting, Wants, Quiet
  <2> QED
    BY <2>1, <2>2, <2>7
<1>2. CASE TaskEnds(u)
  BY <1>2 DEF TaskEnds, TypeOK, PipeFits, MarkerFits, LateAlone, Recorded, Starting, Retrying,
     Started, Working, Writing, Current, Ended, Wants, Writes, Quiet, CallsSettled, MayReplace, disk, process
<1>3. CASE BeginShutdown
  BY <1>3 DEF BeginShutdown, TypeOK, PipeFits, MarkerFits, LateAlone, Recorded, Starting, Retrying,
     Started, Working, Writing, Current, Ended, Wants, Writes, Quiet, CallsSettled, MayReplace, disk, process, database
<1>4. CASE Restart
  <2> USE <1>4 DEF Restart, disk, database
  <2>1. ~Working' /\ Current' = file /\ pipe'.at = "idle"
    BY DEF Working, Current, Idle
  <2>2. \A c \in Calls : call'[c].at = "idle"
    BY DEF NoCall
  <2>3. PipeFits' /\ MarkerFits' /\ Retrying'
    BY <2>1, <2>2 DEF PipeFits, MarkerFits, Retrying, Writing, NoPoll
  <2>4. LateAlone'
    BY <2>1, <2>2 DEF LateAlone, Current, PipeFits, CallsSettled, Ended, TypeOK, Manifests, Stages, CANCEL_TASKS, DONE, PRECHECK
  <2>5. Recorded'
    BY <2>2 DEF Recorded
  <2>6. Starting' /\ Started'
    BY <2>2 DEF Starting, Started, Writes, Wants, Ended, Quiet
  <2> QED
    BY <2>3, <2>4, <2>5, <2>6
<1> QED
  BY <1>1, <1>2, <1>3, <1>4

(* A delivery arrives, and finds that there is nothing to do.              *)
LEMMA DeliverStep ==
  ASSUME TypeOK, TypeOK', Inv, NEW c \in Calls, NEW u \in Restores, Deliver(c, u)
  PROVE  Inv'
<1> USE RecoveryAssumption DEF Inv, Deliver, disk
<1>1. /\ call'[c] = [at |-> "decide", u |-> u, seen |-> file]
      /\ \A d \in Calls \ {c} : call'[d] = call[d]
  BY DEF TypeOK
<1>2. \A d \in Calls : Writing(d)' <=> Writing(d)
  BY <1>1 DEF Writing
<1>3. PipeFits' /\ MarkerFits' /\ Retrying'
  BY <1>1, <1>2 DEF PipeFits, MarkerFits, Retrying, Quiet, Working, Writing
<1>4. ~Ended(u)
  BY DEF Ended
<1>5. LateAlone'
  BY <1>4 DEF LateAlone, Current, Working
<1>6. Recorded'
  <2>1. tries[u] \in Nat \ {0}
    BY DEF TypeOK
  <2>2. tries'[u] = tries[u] - 1 /\ \A v \in Restores \ {u} : tries'[v] = tries[v]
    BY DEF TypeOK
  <2>3. \A v \in Restores : tries'[v] = None => tries[v] = None
    BY <2>1, <2>2
  <2> QED
    BY <1>1, <1>2, <2>2, <2>3 DEF Recorded
<1>7. Started'
  BY <1>1 DEF Started
<1>8. Writes(c)' => Quiet
  <2>1. CASE file = None
    BY <2>1 DEF Quiet
  <2>2. CASE file # None /\ file.stage = DONE
    <3>1. ~Working => ~marker
      BY <1>4, <2>2 DEF LateAlone, Current, DONE, CANCEL_TASKS
    <3>2. Working => mem # None /\ mem.stage = DONE
      BY <2>2 DEF PipeFits, TypeOK, Manifests, Stages, DONE, PRECHECK
    <3>3. Working => ~marker
      BY <1>4, <3>2 DEF LateAlone, Current, DONE, CANCEL_TASKS
    <3> QED
      BY <2>2, <3>1, <3>3 DEF Quiet
  <2> QED
    BY <1>1, <2>1, <2>2 DEF Writes, MayReplace
<1>9. \A d \in Calls \ {c} : Writes(d)' <=> Writes(d)
  BY <1>1 DEF Writes, MayReplace
<1>10. \A v \in Restores : Wants(v)' => Wants(v)
  <2>1. \A v \in Restores : Ended(v) => Ended(v)'
    BY DEF Ended, TypeOK
  <2> QED
    BY <1>1, <1>4, <1>9, <2>1 DEF Wants
<1>11. Starting'
  BY <1>1, <1>8, <1>9, <1>10 DEF Starting, Quiet
<1> QED
  BY <1>3, <1>5, <1>6, <1>7, <1>11

(* A handler lets go of its delivery.                                      *)
LEMMA RefuseStep ==
  ASSUME TypeOK, TypeOK', Inv, NEW c \in Calls, Refuse(c)
  PROVE  Inv'
<1> USE RecoveryAssumption DEF Inv, Refuse, Return, disk, database
<1>1. call'[c] = NoCall /\ \A d \in Calls \ {c} : call'[d] = call[d]
  BY DEF TypeOK
<1>2. \A d \in Calls : Writing(d)' <=> Writing(d)
  BY <1>1 DEF Writing, NoCall
<1>3. PipeFits' /\ MarkerFits' /\ Retrying'
  BY <1>1, <1>2 DEF PipeFits, MarkerFits, Retrying, Quiet, Working, Writing, NoCall
<1>4. LateAlone'
  BY <1>1 DEF LateAlone, Current, Working, Ended, CallsSettled, NoCall
<1>5. Started' /\ Recorded'
  BY <1>1, <1>2 DEF Started, Recorded, NoCall
<1>6. \A d \in Calls : (Writes(d)' => Writes(d)) /\ (call'[d].at # "idle" => call'[d] = call[d])
  BY <1>1 DEF Writes, MayReplace, NoCall
<1>7. \A v \in Restores : Wants(v)' => Wants(v)
  BY <1>6 DEF Wants, Ended, Writes, NoCall
<1>8. Starting'
  BY <1>6, <1>7 DEF Starting, Quiet
<1> QED
  BY <1>3, <1>4, <1>5, <1>8

(* In a quiet moment the pipeline does nothing.                            *)
LEMMA QuietIdle ==
  ASSUME TypeOK, Inv, Quiet
  PROVE  /\ ~Working /\ ~marker
         /\ mem = None \/ mem.stage = DONE \/ \E c \in Calls : Writing(c)
         /\ \A c \in Calls : call[c].at \notin {"mark", "sync"}
         /\ pipe.at = "idle" => \A p \in Polls : poll[p].at # "retry"
BY RecoveryAssumption DEF Inv, Started, Quiet, Retrying, PipeFits, MarkerFits, TypeOK, Manifests, Stages, DONE, PRECHECK, RESTORING

LEMMA ArchiveStep ==
  ASSUME TypeOK, TypeOK', Inv, NEW c \in Calls, Archive(c)
  PROVE  Inv'
<1> USE RecoveryAssumption DEF Inv, Archive, Return, Advance, database
<1>1. Writes(c) /\ Quiet /\ call[c].u \in Restores
  BY DEF Writes, Starting, TypeOK
<1>2. /\ ~Working /\ ~marker /\ (mem = None \/ mem.stage = DONE \/ \E d \in Calls : Writing(d))
      /\ pipe.at = "idle" => \A p \in Polls : poll[p].at # "retry"
  BY <1>1, QuietIdle
<1>3. /\ call'[c] = IF file = None THEN NoCall ELSE [call[c] EXCEPT !.at = "write"]
      /\ \A d \in Calls \ {c} : call'[d] = call[d]
  BY DEF TypeOK
<1>4. \A d \in Calls : Writing(d)' <=> Writing(d)
  BY <1>3 DEF Writing, NoCall, TypeOK, OpenCalls
<1>5. \A d \in Calls : (call'[d].at # "idle" => call'[d].u = call[d].u)
  BY <1>3 DEF NoCall, TypeOK, OpenCalls
<1>6. PipeFits' /\ MarkerFits' /\ LateAlone' /\ Retrying'
  BY <1>2, <1>4, <1>5 DEF PipeFits, MarkerFits, LateAlone, Retrying, Working, Writing, Current
<1>7. Recorded'
  <2>1. \A d \in Calls : call'[d].at # "idle" => call[d].at # "idle" /\ call'[d].u = call[d].u
    BY <1>3 DEF NoCall, TypeOK, OpenCalls
  <2> QED
    BY <1>4, <2>1 DEF Recorded
<1>8. Started'
  <2>1. \A d \in Calls : call[d].at \notin {"mark", "sync"}
    BY <1>1, QuietIdle
  <2>2. \A d \in Calls : call'[d].at \notin {"mark", "sync"}
    BY <1>3, <2>1 DEF NoCall, TypeOK, OpenCalls
  <2> QED
    BY <2>2 DEF Started
<1>9. Quiet'
  BY DEF Quiet
<1>10. \A d \in Calls : (Writes(d)' => Writes(d)) /\ (call'[d].at # "idle" => call'[d].u = call[d].u)
  BY <1>1, <1>3 DEF Writes, MayReplace, NoCall, TypeOK, OpenCalls
<1>11. \A v \in Restores : Wants(v)' => Wants(v)
  BY <1>10 DEF Wants, Ended, Writes, NoCall
<1>12. \A d \in Calls : (call'[d].at # "idle" => call[d].at # "idle") /\ (call[d].at = "sync" <=> call'[d].at = "sync")
  BY <1>3 DEF NoCall, TypeOK, OpenCalls
<1>13. Starting'
  <2>1. \A d \in Calls : Writes(d)' => Quiet'
    BY <1>9
  <2>2. \A v \in Restores : Wants(v)' => row[v] = "PENDING" /\ reached[v] = 0 /\ \A w \in Restores : Wants(w)' => w = v
    BY <1>1, <1>11 DEF Starting
  <2>3. \A d, e \in Calls :
          d # e /\ "idle" \notin {call'[d].at, call'[e].at} /\ call'[d].u = call'[e].u
            => "sync" \in {call'[d].at, call'[e].at}
    BY <1>10, <1>12 DEF Starting
  <2> QED
    BY <2>1, <2>2, <2>3 DEF Starting
<1> QED
  BY <1>6, <1>7, <1>8, <1>13

(* Two deliveries that write are one.                                      *)
LEMMA WritesAlone ==
  ASSUME TypeOK, Inv, NEW c \in Calls, NEW d \in Calls, Writes(c), Writes(d)
  PROVE  c = d
<1>1. Quiet /\ call[c].u \in Restores /\ call[d].u \in Restores /\ Wants(call[c].u) /\ Wants(call[d].u)
  BY DEF Inv, Starting, Writes, Wants, TypeOK
<1>2. call[c].u = call[d].u /\ "idle" \notin {call[c].at, call[d].at} /\ "sync" \notin {call[c].at, call[d].at}
  BY <1>1 DEF Inv, Starting, Writes
<1> QED
  BY <1>2 DEF Inv, Starting

(* The new manifest is in memory, and then it is written.                  *)
LEMMA ComposeStep ==
  ASSUME TypeOK, TypeOK', Inv, NEW c \in Calls, Compose(c)
  PROVE  Inv'
<1> USE RecoveryAssumption DEF Inv, Compose, Advance, disk, database
<1>1. Writes(c) /\ Quiet
  BY DEF Writes, Starting
<1>2. /\ ~Working /\ ~marker /\ \A d \in Calls : call[d].at \notin {"mark", "sync"}
      /\ pipe.at = "idle" => \A p \in Polls : poll[p].at # "retry"
  BY <1>1, QuietIdle
<1>3. /\ call'[c] = [call[c] EXCEPT !.at = "writing"]
      /\ \A d \in Calls \ {c} : call'[d] = call[d]
  BY DEF TypeOK
<1>4. call'[c].at = "writing" /\ call'[c].u = call[c].u /\ call'[c].seen = call[c].seen
  BY <1>3 DEF TypeOK, OpenCalls
<1>5. \A d \in Calls : Writing(d)' <=> d = c
  BY <1>1, <1>3, <1>4, WritesAlone DEF Writing, Writes
<1>6. PipeFits' /\ MarkerFits' /\ LateAlone' /\ Retrying'
  BY <1>2, <1>4, <1>5 DEF PipeFits, MarkerFits, LateAlone, Retrying, Working, Current
<1>7. Recorded'
  BY <1>3, <1>4, <1>5 DEF Recorded, Writes
<1>8. Started'
  BY <1>2, <1>3, <1>4 DEF Started
<1>9. \A d \in Calls : (Writes(d)' <=> Writes(d)) /\ call'[d].u = call[d].u
                       /\ (call'[d].at = "idle" <=> call[d].at = "idle") /\ (call'[d].at = "sync" <=> call[d].at = "sync")
  BY <1>1, <1>3, <1>4 DEF Writes, MayReplace
<1>10. \A v \in Restores : Wants(v)' <=> Wants(v)
  BY <1>9 DEF Wants, Ended
<1>11. Starting'
  BY <1>9, <1>10 DEF Starting, Quiet
<1> QED
  BY <1>6, <1>7, <1>8, <1>11

LEMMA WriteNewStep ==
  ASSUME TypeOK, TypeOK', Inv, NEW c \in Calls, WriteNew(c)
  PROVE  Inv'
<1> USE RecoveryAssumption DEF Inv, WriteNew, Advance, database
<1> DEFINE u == call[c].u
           new == NewManifest(u)
<1>1. Writes(c) /\ Quiet /\ u \in Restores /\ mem = new
  BY DEF Writes, Starting, TypeOK, PipeFits, Writing
<1>2. /\ ~Working /\ ~marker /\ \A d \in Calls : call[d].at \notin {"mark", "sync"}
      /\ pipe.at = "idle" => \A p \in Polls : poll[p].at # "retry"
  BY <1>1, QuietIdle
<1>3. reached[u] = 0 /\ tries[u] # None
  BY <1>1 DEF Starting, Wants, Recorded, TypeOK
<1>4. /\ mem' = new /\ file' = new /\ new \in Manifests
      /\ new.uuid = u /\ new.stage = 1
      /\ reached' = [reached EXCEPT ![u] = 1]
  <2>1. new \in Manifests /\ new.uuid = u /\ new.stage = 1
    BY <1>1 DEF NewManifest, Manifests, Stages, PRECHECK, DONE
  <2>2. mem' = new /\ Record(new)
    BY <1>1
  <2>3. Max({reached[u], new.stage}) = 1
    BY <1>3, <2>1, GreaterOfTwo
  <2> QED
    BY <2>1, <2>2, <2>3 DEF Record
<1>5. /\ call'[c] = [call[c] EXCEPT !.at = "mark"]
      /\ \A d \in Calls \ {c} : call'[d] = call[d]
  BY DEF TypeOK
<1>6. call'[c].at = "mark" /\ call'[c].u = u
  BY <1>5 DEF TypeOK, OpenCalls
<1> HIDE DEF new
<1>7. ~Working' /\ file' # None /\ mem' = file' /\ ~marker'
  BY <1>2, <1>4 DEF Working
<1>8. \A d \in Calls : ~Writes(d)' /\ ~Writing(d)'
  BY <1>1, <1>5, <1>6, WritesAlone DEF Writes, Writing, MayReplace
<1>9. PipeFits' /\ MarkerFits'
  BY <1>2, <1>4, <1>7, <1>8 DEF PipeFits, MarkerFits, RESTORING, Working
<1>10. LateAlone' /\ ~Quiet'
  BY <1>4, <1>7 DEF LateAlone, Quiet, Current, CANCEL_TASKS, DONE
<1>11. Recorded'
  BY <1>1, <1>3, <1>4, <1>5, <1>6, <1>7 DEF Recorded, TypeOK
<1>12. Started' /\ Retrying'
  BY <1>2, <1>4, <1>5, <1>6, <1>7, <1>10 DEF Started, Retrying, PRECHECK
<1>13. Starting'
  <2>1. \A d \in Calls : call'[d].u = call[d].u /\ (call'[d].at = "idle" => call[d].at = "idle")
    BY <1>5, <1>6
  <2>2. \A d \in Calls : call[d].at = "sync" => call'[d].at = "sync"
    BY <1>5
  <2> QED
    BY <1>8, <1>10, <2>1, <2>2 DEF Starting
<1> QED
  BY <1>9, <1>10, <1>11, <1>12, <1>13

LEMMA MarkStep ==
  ASSUME TypeOK, TypeOK', Inv, NEW c \in Calls, MarkMaintenance(c)
  PROVE  Inv'
<1> USE RecoveryAssumption DEF Inv, MarkMaintenance, Advance, database
<1>1. /\ call'[c] = [call[c] EXCEPT !.at = "sync"]
      /\ \A d \in Calls \ {c} : call'[d] = call[d]
  BY DEF TypeOK
<1>2. \A d \in Calls : Writing(d)' <=> Writing(d)
  BY <1>1 DEF Writing, TypeOK, OpenCalls
<1>3. file # None /\ file.stage = 1 /\ mem # None /\ mem.stage = 1
  BY DEF Started, PRECHECK
<1>4. LateAlone' /\ ~Quiet /\ ~Quiet'
  BY <1>3 DEF LateAlone, Current, Working, Quiet, CANCEL_TASKS, DONE
<1>5. \A d \in Calls : ~Writes(d)' /\ ~Writes(d)
  BY <1>1, <1>4 DEF Starting, Writes, MayReplace, TypeOK, OpenCalls
<1>6. \A d \in Calls : ~Writing(d) /\ ~Writing(d)'
  BY <1>2, <1>5 DEF Writes, Writing
<1>7. PipeFits' /\ MarkerFits' /\ Retrying'
  BY <1>3, <1>4, <1>6 DEF PipeFits, MarkerFits, Retrying, Working
<1>8. Recorded' /\ Started'
  BY <1>1, <1>6 DEF Recorded, Started, TypeOK, OpenCalls
<1>9. Starting'
  <2>1. \A d \in Calls : call'[d].u = call[d].u /\ (call'[d].at = "idle" => call[d].at = "idle")
    BY <1>1 DEF TypeOK, OpenCalls
  <2>2. \A d \in Calls : call[d].at = "sync" => call'[d].at = "sync"
    BY <1>1
  <2> QED
    BY <1>4, <1>5, <2>1, <2>2 DEF Starting
<1> QED
  BY <1>4, <1>7, <1>8, <1>9

LEMMA StartStep ==
  ASSUME TypeOK, TypeOK', Inv, NEW c \in Calls, StartAccepted(c)
  PROVE  Inv'
<1> USE RecoveryAssumption DEF Inv, StartAccepted, Return, disk
<1>1. call'[c] = NoCall /\ \A d \in Calls \ {c} : call'[d] = call[d]
  BY DEF TypeOK
<1>2. /\ file # None /\ file.stage = 1 /\ mem # None /\ mem.stage = 1
      /\ mem.uuid = file.uuid /\ mem \in Manifests
  BY DEF Started, PRECHECK, TypeOK
<1>3. \/ pipe' = pipe /\ mem' = mem
      \/ pipe' = Idle /\ mem' = mem /\ pipe.at = "idle"
      \/ /\ mem' \in Manifests /\ mem' # None /\ pipe.at = "idle"
         /\ mem'.uuid = mem.uuid /\ mem'.stage = 1
         /\ pipe' = [at |-> "write", i |-> 1, doc |-> mem']
  BY <1>2, RunMoves
<1>4. ~Quiet /\ ~Quiet'
  BY <1>2 DEF Quiet, DONE
<1>5. \A d \in Calls : ~Writes(d)' /\ ~Writes(d)
  BY <1>1, <1>4 DEF Starting, Writes, MayReplace, NoCall
<1>6. \A d \in Calls : ~Writing(d) /\ ~Writing(d)'
  BY <1>5 DEF Writes, Writing
<1>7. PipeFits'
  <2>1. CASE pipe' = pipe /\ mem' = mem
    BY <1>6, <2>1 DEF PipeFits, Working
  <2>2. CASE pipe' = Idle /\ mem' = mem /\ pipe.at = "idle"
    BY <1>6, <2>2 DEF PipeFits, Working, Idle
  <2>3. CASE mem' # None /\ mem'.uuid = mem.uuid /\ mem'.stage = 1 /\ pipe' = [at |-> "write", i |-> 1, doc |-> mem']
    BY <1>2, <1>6, <2>3 DEF PipeFits, Working, RESTORING
  <2> QED
    BY <1>3, <2>1, <2>2, <2>3
<1>8. MarkerFits' /\ Retrying'
  BY <1>4 DEF MarkerFits, Retrying
<1>9. LateAlone'
  BY <1>2, <1>3 DEF LateAlone, Current, Working, CANCEL_TASKS, DONE, Idle
<1>10. Recorded' /\ Started'
  BY <1>1, <1>2, <1>3, <1>6 DEF Recorded, Started, NoCall, PRECHECK
<1>11. Starting'
  BY <1>1, <1>4, <1>5 DEF Starting, NoCall
<1> QED
  BY <1>7, <1>8, <1>9, <1>10, <1>11


(* Writing the manifest of the restore that is on disk already.            *)
LEMMA RecordMoves ==
  ASSUME TypeOK, Inv, Working, Record(pipe.doc)
  PROVE  /\ file' = mem /\ mem \in Manifests /\ file' # None /\ file'.uuid = file.uuid
         /\ reached' = [reached EXCEPT ![mem.uuid] = mem.stage]
         /\ reached'[mem.uuid] = mem.stage
<1> USE RecoveryAssumption DEF Inv
<1>1. /\ mem = pipe.doc /\ mem # None /\ file # None /\ mem \in Manifests /\ file \in Manifests
      /\ file.uuid = mem.uuid /\ file.stage <= mem.stage /\ mem.stage \in Nat /\ mem.uuid \in Restores
  BY DEF PipeFits, TypeOK, Manifests, Stages, PRECHECK, DONE
<1>2. reached[mem.uuid] = file.stage /\ reached[mem.uuid] \in Nat
  BY <1>1 DEF Recorded, TypeOK
<1>3. Max({reached[mem.uuid], mem.stage}) = mem.stage
  BY <1>1, <1>2, GreaterOfTwo
<1> QED
  BY <1>1, <1>3 DEF Record, TypeOK

(* While the pipeline works, no delivery is about to write a manifest.     *)
LEMMA NotQuiet ==
  ASSUME TypeOK, Inv, Working
  PROVE  ~Quiet /\ \A c \in Calls : ~Writes(c) /\ ~Writing(c)
<1>1. ~Quiet
  BY QuietIdle
<1> QED
  BY <1>1 DEF Inv, Starting, Writes, Writing

(* The manifest in memory goes to disk: at the head of a stage, with its   *)
(* error, or with DONE.                                                    *)
LEMMA RecordStep ==
  ASSUME TypeOK, TypeOK', Inv, WriteStage \/ WriteFailure \/ WriteDone
  PROVE  Inv'
<1> USE RecoveryAssumption DEF Inv
<1>1. /\ Working /\ mem # None /\ (mem.stage >= RESTORING => marker) /\ Record(pipe.doc)
      /\ pipe.doc = mem /\ Current = mem
      /\ UNCHANGED <<marker, mem, call, poll, tries, row>>
      /\ \/ pipe.at = "write" /\ pipe.i = mem.stage /\ pipe' = [pipe EXCEPT !.at = "run"]
         \/ pipe.at = "fail" /\ pipe' = [pipe EXCEPT !.at = "failed"]
         \/ pipe.at = "close" /\ mem.stage = DONE /\ pipe' = [pipe EXCEPT !.at = "unmark"]
  BY DEF WriteStage, WriteFailure, WriteDone, Working, PipeFits, Current, database
<1>2. /\ file' = mem /\ mem \in Manifests /\ file' # None /\ file'.uuid = file.uuid
      /\ reached' = [reached EXCEPT ![mem.uuid] = mem.stage]
      /\ reached'[mem.uuid] = mem.stage
  BY <1>1, RecordMoves
<1>3. ~Quiet /\ \A c \in Calls : ~Writes(c) /\ ~Writes(c)' /\ ~Writing(c) /\ ~Writing(c)'
  BY <1>1, NotQuiet DEF Writes, Writing, MayReplace
<1>4. /\ pipe'.i = pipe.i /\ pipe'.doc = mem
      /\ \/ pipe'.at = "run" /\ pipe'.i = mem.stage
         \/ pipe'.at = "failed"
         \/ pipe'.at = "unmark" /\ mem.stage = DONE
  BY <1>1 DEF TypeOK, Pipes
<1>5. Current' = mem
  BY <1>1, <1>2 DEF Current
<1>6. ~Quiet'
  BY <1>1, <1>2, <1>3 DEF Quiet, RESTORING, DONE
<1>7. PipeFits'
  <2>1. mem.stage \in 1 .. 9
    BY <1>2 DEF Manifests, Stages, PRECHECK, DONE
  <2> QED
    BY <1>1, <1>2, <1>3, <1>4, <2>1 DEF PipeFits, Working
<1>8. MarkerFits' /\ LateAlone' /\ Retrying'
  BY <1>1, <1>2, <1>5, <1>6 DEF MarkerFits, LateAlone, Retrying, CallsSettled, Ended, RESTORING, READINESS
<1>9. Recorded'
  <2>1. tries[mem.uuid] # None
    BY <1>1, <1>2, <1>3 DEF Recorded, Manifests
  <2>2. mem.stage > 0
    BY <1>2 DEF Manifests, Stages, PRECHECK, DONE
  <2>3. \A v \in Restores \ {mem.uuid} : reached'[v] = reached[v]
    BY <1>2 DEF TypeOK
  <2> QED
    BY <1>1, <1>2, <2>1, <2>2, <2>3 DEF Recorded, Manifests
<1>10. Started' /\ Starting'
  BY <1>1, <1>2, <1>3, <1>6 DEF Started, Starting
<1> QED
  BY <1>7, <1>8, <1>9, <1>10

(* What is known while a stage runs.                                       *)
LEMMA Running ==
  ASSUME TypeOK, Inv, pipe.at \in {"run", "restoring"}
  PROVE  /\ Working /\ mem # None /\ mem \in Manifests /\ file = mem /\ mem = pipe.doc
         /\ mem.stage = pipe.i /\ mem.stage \in 1 .. 9 /\ mem.uuid \in Restores
         /\ mem.stage >= 3 => marker
         /\ Current = mem
BY RecoveryAssumption DEF Inv, Working, Current, PipeFits, TypeOK, Manifests, Stages, PRECHECK, DONE, RESTORING

(* A stage other than RESTORING ends well: the next one is entered.        *)
LEMMA StageStep ==
  ASSUME TypeOK, TypeOK', Inv, NEW i \in (PRECHECK .. READINESS) \ {RESTORING}, EndsStage(i)
  PROVE  Inv'
<1> USE RecoveryAssumption DEF Inv, EndsStage, EndsWell
<1>1. /\ i \in 1 .. 8 /\ i # 3 /\ i \in Stages /\ i + 1 \in Stages
      /\ Working /\ mem # None /\ mem \in Manifests /\ file = mem /\ mem.stage = i /\ (i >= 3 => marker)
  BY Running DEF Stages, PRECHECK, RESTORING, READINESS, DONE
<1>2. \/ pipe' = Idle /\ mem' = mem
      \/ /\ mem' \in Manifests /\ mem' # None
         /\ mem'.uuid = mem.uuid /\ mem'.stage = i + 1
         /\ pipe' = [at |-> "write", i |-> i + 1, doc |-> mem']
  BY <1>1, EnterStageMoves
<1>3. /\ file' # None /\ (i >= 2 => marker')
      /\ Current' # None /\ Current'.stage \in {i, i + 1}
      /\ Current = mem
  BY <1>1, <1>2 DEF Current, Working, Idle, MAINTENANCE
<1>4. ~Quiet' /\ \A c \in Calls : call[c].at = "idle" /\ call'[c].at = "idle" /\ ~Writing(c)'
  BY <1>1 DEF Quiet, DONE, RequestsSettled, CallsSettled, Writing
<1>5. PipeFits'
  <2>1. CASE pipe' = Idle /\ mem' = mem
    BY <1>1, <1>4, <2>1 DEF PipeFits, Working, Idle
  <2>2. CASE /\ mem' # None /\ mem'.uuid = mem.uuid /\ mem'.stage = i + 1
             /\ pipe' = [at |-> "write", i |-> i + 1, doc |-> mem']
    BY <1>1, <1>3, <1>4, <2>2 DEF PipeFits, Working, RESTORING
  <2> QED
    BY <1>2, <2>1, <2>2
<1>6. MarkerFits' /\ Retrying'
  BY <1>1, <1>3, <1>4 DEF MarkerFits, Retrying, RESTORING, READINESS
<1>7. LateAlone'
  <2>1. CASE i > CANCEL_TASKS
    BY <1>1, <1>3, <1>4, <2>1, TasksEnd DEF LateAlone, CANCEL_TASKS, CallsSettled
  <2>2. CASE i = CANCEL_TASKS
    BY <1>4, <2>2, TasksEnd DEF LateAlone, CallsSettled
  <2>3. CASE i < CANCEL_TASKS
    BY <1>1, <1>3, <2>3 DEF LateAlone, CANCEL_TASKS
  <2> QED
    BY <1>1, <2>1, <2>2, <2>3 DEF CANCEL_TASKS
<1>8. Recorded' /\ Started' /\ Starting'
  <2>1. Recorded'
    BY <1>1, <1>2, <1>4, TasksEnd DEF Recorded, Writing
  <2>2. Started' /\ Starting'
    BY <1>4 DEF Started, Starting, Writes
  <2> QED
    BY <2>1, <2>2
<1> QED
  BY <1>5, <1>6, <1>7, <1>8

LEMMA BeginRestoreStep == ASSUME TypeOK, TypeOK', Inv, BeginRestore PROVE Inv'
<1> USE RecoveryAssumption DEF Inv, BeginRestore, disk
<1>1. Working /\ mem # None /\ mem.stage = 3 /\ marker /\ Current = mem /\ file = mem
  BY Running DEF RESTORING
<1>2. pipe'.at = "restoring" /\ pipe'.i = pipe.i /\ pipe'.doc = pipe.doc
  BY DEF TypeOK, Pipes
<1>3. Working' /\ Current' = mem
  BY <1>2 DEF Working, Current
<1>4. PipeFits'
  BY <1>1, <1>2, <1>3 DEF PipeFits, Writing
<1>5. MarkerFits' /\ LateAlone' /\ Retrying'
  BY <1>1, <1>2, <1>3 DEF MarkerFits, LateAlone, Retrying, CANCEL_TASKS
<1>6. Recorded' /\ Started'
  BY DEF Recorded, Started, Writing
<1>7. Starting'
  BY <1>1 DEF Starting, Quiet, Wants, Writes, MayReplace, Ended
<1> QED
  BY <1>4, <1>5, <1>6, <1>7

LEMMA EndRestoreStep == ASSUME TypeOK, TypeOK', Inv, EndRestore PROVE Inv'
<1> USE RecoveryAssumption DEF Inv, EndRestore, disk
<1>1. /\ Working /\ mem # None /\ mem \in Manifests /\ mem.stage = 3 /\ marker /\ Current = mem
      /\ file = mem
  BY Running DEF RESTORING, PipeFits
<1>2. \/ pipe' = Idle /\ mem' = mem
      \/ /\ mem' \in Manifests /\ mem' # None
         /\ mem'.uuid = mem.uuid /\ mem'.stage = 4
         /\ pipe' = [at |-> "write", i |-> 4, doc |-> mem']
  BY <1>1, EnterStageMoves DEF Stages, PRECHECK, DONE, MIGRATE_FORWARD
<1>3. Current' # None /\ Current'.stage \in {3, 4}
  BY <1>1, <1>2 DEF Current, Working, Idle
<1>4. ~Quiet' /\ \A c \in Calls : call[c].at = "idle" /\ call'[c].at = "idle" /\ ~Writing(c)'
  BY <1>1 DEF Quiet, DONE, RequestsSettled, CallsSettled, Writing
<1>5. PipeFits'
  <2>1. CASE pipe' = Idle /\ mem' = mem
    BY <1>1, <1>4, <2>1 DEF PipeFits, Working, Idle
  <2>2. CASE /\ mem' # None /\ mem'.uuid = mem.uuid /\ mem'.stage = 4
             /\ pipe' = [at |-> "write", i |-> 4, doc |-> mem']
    BY <1>1, <1>4, <2>2 DEF PipeFits, Working, RESTORING
  <2> QED
    BY <1>2, <2>1, <2>2
<1>6. MarkerFits' /\ LateAlone' /\ Retrying'
  BY <1>1, <1>3, <1>4 DEF MarkerFits, LateAlone, Retrying, CANCEL_TASKS
<1>7. Recorded' /\ Started' /\ Starting'
  BY <1>1, <1>2, <1>4 DEF Recorded, Started, Starting, Writes
<1> QED
  BY <1>5, <1>6, <1>7

(* A stage throws, or the last one is left: the manifest in memory gets    *)
(* its error, or DONE.                                                     *)
LEMMA FailStageStep == ASSUME TypeOK, TypeOK', Inv, FailStage PROVE Inv'
<1> USE RecoveryAssumption DEF Inv, FailStage, disk, database
<1>1. /\ Working /\ mem # None /\ mem \in Manifests /\ (mem.stage >= 3 => marker) /\ Current = mem
      /\ file = mem /\ mem.stage \in 1 .. 8
  BY Running DEF DONE
<1>2. /\ mem' = [mem EXCEPT !.error = TRUE] /\ mem' # None
      /\ mem'.uuid = mem.uuid /\ mem'.stage = mem.stage
  BY <1>1 DEF Manifests
<1>3. pipe' = [pipe EXCEPT !.at = "fail", !.doc = mem']
  BY <1>1
<1>4. pipe'.at = "fail" /\ pipe'.doc = mem' /\ Working' /\ Current' = mem'
  BY <1>2, <1>3 DEF TypeOK, Pipes, Working, Current
<1>5. ~Quiet' /\ \A c \in Calls : call[c].at = "idle" /\ call'[c].at = "idle" /\ ~Writing(c)'
  BY <1>1 DEF Quiet, DONE, RequestsSettled, CallsSettled, Writing
<1>6. PipeFits'
  BY <1>1, <1>2, <1>4, <1>5 DEF PipeFits, RESTORING
<1>7. MarkerFits' /\ LateAlone' /\ Retrying'
  BY <1>1, <1>2, <1>4, <1>5 DEF MarkerFits, LateAlone, Retrying, CallsSettled, Ended
<1>8. Recorded' /\ Started' /\ Starting'
  BY <1>1, <1>2, <1>5 DEF Recorded, Started, Starting, Writes
<1> QED
  BY <1>6, <1>7, <1>8

LEMMA FinishStep == ASSUME TypeOK, TypeOK', Inv, Finish PROVE Inv'
<1> USE RecoveryAssumption DEF Inv, Finish, disk, database
<1>1. /\ Working /\ mem # None /\ mem \in Manifests /\ marker /\ Current = mem
      /\ file = mem /\ mem.stage = DONE
  BY Running DEF DONE
<1>2. /\ mem' = [mem EXCEPT !.stage = DONE] /\ mem' # None
      /\ mem'.uuid = mem.uuid /\ mem'.stage = DONE
  BY <1>1 DEF Manifests
<1>3. pipe' = [pipe EXCEPT !.at = "close", !.doc = mem']
  BY <1>1
<1>4. pipe'.at = "close" /\ pipe'.doc = mem' /\ Working' /\ Current' = mem'
  BY <1>2, <1>3 DEF TypeOK, Pipes, Working, Current
<1>5. ~Quiet' /\ \A c \in Calls : ~Writes(c)' /\ ~Writing(c)'
  BY <1>1, NotQuiet DEF Quiet, Writes, Writing, MayReplace
<1>6. PipeFits'
  BY <1>1, <1>2, <1>4, <1>5 DEF PipeFits, DONE
<1>7. MarkerFits' /\ LateAlone' /\ Retrying'
  BY <1>1, <1>2, <1>4, <1>5 DEF MarkerFits, LateAlone, Retrying, CallsSettled, Ended
<1>8. Recorded' /\ Started'
  BY <1>1, <1>2 DEF Recorded, Started, PRECHECK, DONE
<1>9. Starting'
  BY <1>5 DEF Starting
<1> QED
  BY <1>6, <1>7, <1>8, <1>9

(* The site is opened: by then no delivery is left that could start        *)
(* another restore on its own.                                             *)
LEMMA ClearMarkerStep == ASSUME TypeOK, TypeOK', Inv, ClearMarker PROVE Inv'
<1> USE RecoveryAssumption DEF Inv, ClearMarker, database
<1>1. /\ Working /\ mem # None /\ mem.stage = DONE /\ file = mem /\ marker /\ Current = mem
  BY DEF Working, PipeFits, Current, RESTORING, DONE
<1>2. (\A u \in Restores : Ended(u)) /\ CallsSettled
  BY <1>1 DEF LateAlone, DONE, CANCEL_TASKS
<1>3. pipe'.at = "report" /\ ~Working' /\ \A c \in Calls : ~Writing(c)'
  BY <1>2 DEF TypeOK, Pipes, Working, Writing, CallsSettled
<1>4. PipeFits' /\ MarkerFits' /\ LateAlone' /\ Retrying'
  BY <1>1, <1>3 DEF PipeFits, MarkerFits, LateAlone, Retrying, READINESS, DONE
<1>5. Recorded' /\ Started' /\ Starting'
  BY <1>2 DEF Recorded, Started, Starting, Writes, Writing, Wants, Ended, CallsSettled
<1> QED
  BY <1>4, <1>5

(* The mirror row is brought up to date: that of a restore that began      *)
(* already, while no delivery writes a manifest.                           *)
LEMMA ReportStep == ASSUME TypeOK, TypeOK', Inv, ReportFailure \/ ReportSuccess PROVE Inv'
<1> USE RecoveryAssumption DEF Inv
<1>1. /\ ~Working /\ ~Working' /\ pipe.at # "idle" /\ pipe'.at = "idle" /\ FilesSettled
      /\ UNCHANGED <<file, marker, mem, call, poll, tries, reached>>
      /\ \E status \in {"FAILED", "SUCCEEDED"} : Mirror(status)
  BY DEF ReportFailure, ReportSuccess, Working, Idle, disk
<1>2. \A v \in Restores : row'[v] = row[v] \/ (mem # None /\ mem.uuid = v)
  BY <1>1, MirrorMoves
<1>3. \A c \in Calls : ~Writing(c) /\ ~Writing(c)'
  BY <1>1 DEF FilesSettled, Writing
<1>4. PipeFits' /\ MarkerFits' /\ LateAlone'
  BY <1>1, <1>3 DEF PipeFits, MarkerFits, LateAlone, Current, CallsSettled, Ended, Working
<1>5. Retrying'
  BY <1>1 DEF Retrying, FilesSettled, PollsSettled
<1>6. Recorded' /\ Started'
  BY <1>1, <1>3 DEF Recorded, Started
<1>7. \A u \in Restores : Quiet /\ Wants(u) => row'[u] = row[u]
  BY <1>2, <1>3 DEF Starting, Recorded
<1>8. \A c \in Calls, u \in Restores : (Writes(c)' <=> Writes(c)) /\ (Wants(u)' <=> Wants(u)) /\ (Quiet' <=> Quiet)
  BY <1>1 DEF Writes, MayReplace, Wants, Ended, Quiet
<1>9. Starting'
  BY <1>1, <1>7, <1>8 DEF Starting
<1> QED
  BY <1>4, <1>5, <1>6, <1>9

(* The pipeline goes on with the manifest that is on disk.                 *)
LEMMA ResumeStep ==
  ASSUME TypeOK, TypeOK', Inv, ~Quiet, pipe.at = "idle", RunPipeline(file),
         UNCHANGED <<disk, call, tries, row, reached>>
  PROVE  Inv'
<1> USE RecoveryAssumption DEF Inv, disk
<1>1. /\ ~Working /\ Current = file /\ file # None /\ file \in Manifests
      /\ file.stage \in 1 .. 9 /\ file.uuid \in Restores
      /\ file.stage >= RESTORING => marker
  BY DEF Working, Current, Quiet, MarkerFits, TypeOK, Manifests, Stages, PRECHECK, RESTORING, READINESS, DONE
<1>2. /\ mem' # None /\ mem'.uuid = file.uuid /\ mem'.stage = file.stage
      /\ \/ mem' = file /\ pipe'.at = "idle"
         \/ pipe' = [at |-> "write", i |-> file.stage, doc |-> mem']
  BY <1>1, RunMoves DEF Idle
<1>3. ~Quiet' /\ \A c \in Calls : ~Writes(c)' /\ ~Writing(c)'
  BY DEF Quiet, Starting, Writes, Writing, MayReplace
<1>4. Current' # None /\ Current'.stage = file.stage
  BY <1>1, <1>2 DEF Current, Working
<1>5. PipeFits'
  <2>1. CASE mem' = file /\ pipe'.at = "idle"
    BY <1>3, <2>1 DEF PipeFits, Working
  <2>2. CASE pipe' = [at |-> "write", i |-> file.stage, doc |-> mem']
    BY <1>1, <1>2, <1>3, <2>2 DEF PipeFits, Working
  <2> QED
    BY <1>2, <2>1, <2>2
<1>6. MarkerFits' /\ LateAlone' /\ Retrying'
  BY <1>1, <1>3, <1>4 DEF MarkerFits, LateAlone, Retrying, CallsSettled, Ended
<1>7. Recorded'
  BY <1>1, <1>2, <1>3 DEF Recorded, Writing
<1>8. Started' /\ Starting'
  BY <1>1, <1>2, <1>3 DEF Started, Starting
<1> QED
  BY <1>5, <1>6, <1>7, <1>8

LEMMA RetryStep == ASSUME TypeOK, TypeOK', Inv, Retry PROVE Inv'
<1> USE RecoveryAssumption DEF Inv, Retry, database
<1>1. ~Quiet /\ file # None
  BY DEF Quiet, WorthRetrying
<1>2. mem = file
  <2>1. \A c \in Calls : ~Writing(c)
    BY <1>1 DEF Starting, Writes, Writing
  <2> QED
    BY <1>1, <2>1 DEF PipeFits, Working
<1>3. RunPipeline(file) /\ UNCHANGED <<disk, call, tries, row, reached>>
  BY <1>2
<1> QED
  BY <1>1, <1>3, ResumeStep

(* A request reads the manifest.                                           *)
LEMMA LoadStep ==
  ASSUME TypeOK, TypeOK', Inv, NEW p \in Polls, ReadStatus(p) \/ ReadToRetry(p)
  PROVE  Inv'
<1> USE RecoveryAssumption DEF Inv
<1>1. /\ UNCHANGED <<disk, mem, pipe, call, stopping, database, reached, overtaken>>
      /\ \/ poll' = [poll EXCEPT ![p] = [at |-> "status", seen |-> file]]
         \/ poll' = [poll EXCEPT ![p] = [at |-> "retry", seen |-> file]] /\ WorthRetrying
  BY DEF ReadStatus, ReadToRetry, Load
<1>2. PipeFits' /\ MarkerFits' /\ LateAlone' /\ Recorded' /\ Starting' /\ Started'
  BY <1>1 DEF PipeFits, MarkerFits, LateAlone, Recorded, Starting, Started, Working, Writing, Current,
     Ended, Wants, Writes, Quiet, CallsSettled, MayReplace, disk, database
<1>3. Retrying'
  BY <1>1 DEF Retrying, Quiet, WorthRetrying, TypeOK, disk
<1> QED
  BY <1>2, <1>3

(* A status request whose manifest is still the latest changes nothing     *)
(* that matters, and a retry goes on with the one on disk.                 *)
LEMMA LatestKnown ==
  ASSUME TypeOK, Inv
  PROVE  /\ Working => Latest = mem
         /\ ~Working => Latest = IF \E c \in Calls : Writing(c) THEN mem ELSE file
BY NotQuiet DEF Inv, Latest, Working, Writing, PipeFits, TypeOK, Pipes, PipePcs

LEMMA AnswerStep ==
  ASSUME TypeOK, TypeOK', Inv, NEW p \in Polls, Answer(p), ~overtaken'
  PROVE  Inv'
<1> USE RecoveryAssumption DEF Inv, Answer, database
<1>1. poll[p].seen = Latest
  OBVIOUS
<1>2. CASE poll[p].at = "retry" /\ pipe.at = "idle"
  <2>1. ~Quiet /\ \A c \in Calls : ~Writing(c)
    BY <1>2 DEF Retrying, Starting, Writes, Writing
  <2>2. poll[p].seen = file
    BY <1>1, <1>2, <2>1, LatestKnown DEF Working
  <2> QED
    BY <1>2, <2>1, <2>2, ResumeStep
<1>3. CASE ~(poll[p].at = "retry" /\ pipe.at = "idle")
  <2>1. mem' = Latest /\ UNCHANGED pipe
    BY <1>1, <1>3 DEF RunPipeline
  <2>2. /\ Working' <=> Working
        /\ \A c \in Calls : Writing(c)' <=> Writing(c)
        /\ mem' = IF Working \/ \E c \in Calls : Writing(c) THEN mem ELSE file
    BY <2>1, LatestKnown DEF Working, Writing
  <2>3. PipeFits'
    <3>1. CASE Working \/ \E c \in Calls : Writing(c)
      <4>1. mem' = mem /\ UNCHANGED <<file, marker, pipe, call>>
        BY <2>1, <2>2, <3>1 DEF disk
      <4> QED
        BY <4>1 DEF PipeFits, Working, Writing
    <3>2. CASE ~Working /\ ~\E c \in Calls : Writing(c)
      <4>1. mem' = file /\ UNCHANGED <<file, pipe>> /\ ~Working' /\ \A c \in Calls : ~Writing(c)'
        BY <2>1, <2>2, <3>2 DEF disk
      <4> QED
        BY <3>2, <4>1 DEF PipeFits, Working
    <3> QED
      BY <3>1, <3>2
  <2>4. MarkerFits' /\ LateAlone'
    BY <2>1, <2>2 DEF MarkerFits, LateAlone, Current, CallsSettled, Ended, disk
  <2>5. Recorded'
    <3>1. file # None => file.stage > 0
      BY DEF TypeOK, Manifests, Stages, PRECHECK, DONE
    <3> QED
      BY <2>2, <3>1 DEF Recorded, disk
  <2>6. Started'
    BY <2>2 DEF Started, disk
  <2>7. Starting'
    BY DEF Starting, Writes, MayReplace, Wants, Ended, Quiet, disk
  <2>8. Retrying'
    BY <2>1 DEF Retrying, Quiet, TypeOK, NoPoll, disk
  <2> QED
    BY <2>3, <2>4, <2>5, <2>6, <2>7, <2>8
<1> QED
  BY <1>2, <1>3

LEMMA InvStep ==
  ASSUME TypeOK, TypeOK', Inv, [Next]_vars, ~overtaken'
  PROVE  Inv'
<1>1. CASE \E u \in Restores : ConfirmRestore(u) \/ TaskEnds(u)
  BY <1>1, OutsideSteps
<1>2. CASE \E c \in Calls, u \in Restores : Deliver(c, u)
  BY <1>2, DeliverStep
<1>3. CASE HandlerStep
  BY <1>3, RefuseStep, ArchiveStep, ComposeStep, WriteNewStep, MarkStep, StartStep DEF HandlerStep
<1>4. CASE PipelineStep
  <2>1. CASE WriteStage \/ WriteFailure \/ WriteDone
    BY <2>1, RecordStep
  <2>2. CASE \/ Precheck \/ Maintain \/ MigrateForward \/ CancelTasks
             \/ ReinstateBackups \/ ClearRedis \/ CheckReadiness
    BY <2>2, StagesEnd, StageStep
  <2> QED
    BY <1>4, <2>1, <2>2, BeginRestoreStep, EndRestoreStep, FailStageStep, FinishStep, ClearMarkerStep, ReportStep
       DEF PipelineStep
<1>5. CASE Retry
  BY <1>5, RetryStep
<1>6. CASE \E p \in Polls : ReadStatus(p) \/ ReadToRetry(p) \/ Answer(p)
  BY <1>6, LoadStep, AnswerStep
<1>7. CASE BeginShutdown \/ Restart
  BY <1>7, OutsideSteps, RecoveryAssumption
<1>8. CASE UNCHANGED vars
  BY <1>8 DEF vars, Inv, PipeFits, MarkerFits, LateAlone, Recorded, Starting, Started, Retrying,
     Working, Writing, Current, Ended, Wants, Writes, Quiet, CallsSettled, MayReplace
<1> QED
  BY <1>1, <1>2, <1>3, <1>4, <1>5, <1>6, <1>7, <1>8 DEF Next

(* The history variable is never reset.                                    *)
LEMMA OvertakenStays == ASSUME TypeOK, [Next]_vars PROVE overtaken => overtaken'
BY DEF TypeOK, vars, Next, HandlerStep, PipelineStep, ConfirmRestore, TaskEnds, Deliver, Refuse, Archive, Compose,
   WriteNew, MarkMaintenance, StartAccepted, WriteStage, Precheck, Maintain, BeginRestore, EndRestore,
   MigrateForward, CancelTasks, ReinstateBackups, ClearRedis, CheckReadiness, Apply, EndsWell, FailStage,
   WriteFailure, ReportFailure, Finish, WriteDone, ClearMarker, ReportSuccess, Retry, ReadStatus, ReadToRetry,
   Load, Answer, BeginShutdown, Restart

(* While no stale manifest was put back, the second invariant holds.       *)
THEOREM RecoveryInvariant == Spec => [](overtaken \/ Inv)
<1> DEFINE Both == SafeInv /\ (overtaken \/ Inv)
<1>1. Init => Both
  BY InitSafe, InitInv
<1>2. Both /\ [Next]_vars => Both'
  <2> SUFFICES ASSUME Both, [Next]_vars PROVE Both'
    OBVIOUS
  <2>1. SafeInv' /\ TypeOK /\ TypeOK'
    BY SafeStep DEF SafeInv
  <2>2. ~overtaken' => Inv'
    BY <2>1, OvertakenStays, InvStep
  <2> QED
    BY <2>1, <2>2
<1>3. Both => overtaken \/ Inv
  OBVIOUS
<1> QED
  BY <1>1, <1>2, <1>3, PTL DEF Spec

(* No stage runs that an earlier run of the same restore has left behind,  *)
(* unless a status request has put an old manifest back.                   *)
THEOREM NeverReplays == Spec => []NoReplay
<1>1. SafeInv /\ (overtaken \/ Inv) => NoReplay
  <2> SUFFICES ASSUME SafeInv, Inv, pipe.at \in {"run", "restoring"}
               PROVE  pipe.i >= reached[pipe.doc.uuid]
    BY DEF NoReplay
  <2>1. mem # None /\ file = mem /\ mem = pipe.doc /\ mem.stage = pipe.i /\ mem.stage \in 1 .. 9
    BY Running DEF SafeInv
  <2> QED
    BY <2>1 DEF Inv, Recorded
<1> QED
  BY <1>1, RecoverySafe, RecoveryInvariant, PTL

(* The manifest of a restore that has not ended is never removed or        *)
(* replaced by that of another, with the same exception.                   *)
THEOREM ManifestAlwaysKept == Spec => KeepsManifest
<1> DEFINE Keeps == (file # None /\ file.stage # DONE) => (file' # None /\ file'.uuid = file.uuid) \/ overtaken
<1>1. SafeInv /\ (overtaken \/ Inv) /\ [Next]_vars => [Keeps]_vars
  <2> SUFFICES ASSUME TypeOK, Inv, [Next]_vars, file # None, file.stage # DONE
               PROVE  file' # None /\ file'.uuid = file.uuid
    BY DEF SafeInv
  <2>1. ~Quiet
    BY DEF Quiet
  <2>2. \A c \in Calls : ~Writes(c)
    BY <2>1 DEF Inv, Starting
  <2>3. CASE \E c \in Calls : Archive(c) \/ WriteNew(c)
    BY <2>2, <2>3 DEF Archive, WriteNew, Writes
  <2>4. CASE WriteStage \/ WriteFailure \/ WriteDone
    BY <2>4, RecordMoves DEF WriteStage, WriteFailure, WriteDone, Working
  <2>5. CASE UNCHANGED file
    BY <2>5
  <2> QED
    BY <2>3, <2>4, <2>5 DEF Next, HandlerStep, PipelineStep, ConfirmRestore, TaskEnds, Deliver, Refuse, Compose,
       MarkMaintenance, StartAccepted, Precheck, Maintain, BeginRestore, EndRestore, MigrateForward, CancelTasks,
       ReinstateBackups, ClearRedis, CheckReadiness, Apply, EndsWell, FailStage, ReportFailure, Finish, ClearMarker,
       ReportSuccess, Retry, ReadStatus, ReadToRetry, Load, Answer, BeginShutdown, Restart, disk, vars
<1> QED
  BY <1>1, RecoverySafe, RecoveryInvariant, PTL DEF Spec, KeepsManifest
=============================================================================
