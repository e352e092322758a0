----------------------------- MODULE FinProjects -----------------------------
(***************************************************************************)
(* apps/fin: the projects, the handlers that change them, and the Excel    *)
(* import, which reads them in a preview, shows the user what it found and *)
(* overwrites them in a later request under their data revision.           *)
(*                                                                         *)
(* A transaction is its statements: what it wrote is seen by others, and   *)
(* the rows it updated can be updated by others, when it has ended.        *)
(***************************************************************************)
EXTENDS Naturals, Sequences, FiniteSets

CONSTANTS
  Projects,   \* rows of fin.projects
  Names,      \* normalised project names
  Years,      \* years, positive; 0 stands for a row without one
  Files,      \* what users upload: sequences of rows
  Requests,   \* import requests
  Users,
  Editors,    \* requests of the other handlers
  MaxRev      \* bound on dataRevision

\* A lock's token is a random id, and never the absence of one.
ASSUME FinProjectsAssumption ==
  /\ "none" \notin Requests
  /\ Years \subseteq Nat \ {0}
  /\ \A f \in Files : \A i \in DOMAIN f : f[i].name \in Names /\ f[i].year \in Years \cup {0}

VARIABLES
  project,   \* state "free", "live" or "deleted"; (businessKey, year); dataRevision
  changes,   \* how often what a project holds, or that it is there, has changed
  request,   \* an import request of a user: see NoRequest
  lock,      \* LOCK:fin-import:<user>: the request whose token it holds
  rowLock,   \* the import that has updated a row and not ended
  editor     \* what another handler has read and not written

finVars == <<project, changes, request, lock, rowLock, editor>>

Nobody == "none"
Keys == Names \X Years
NoRequest == [at |-> "idle", user |-> Nobody, file |-> <<>>, seen |-> <<>>, match |-> <<>>,
              picks |-> [overwrite |-> {}, skip |-> {}], clock |-> "fresh", aborted |-> "no"]
NoMatch == [status |-> "NEW", target |-> Nobody, rev |-> 0, was |-> 0]

FinInit ==
  /\ project \in [Projects -> [state : {"free", "live", "deleted"}, key : Keys, rev : {0}]]
  /\ \A p, q \in Projects : p # q /\ project[p].state # "free" /\ project[q].state # "free"
       => project[p].key # project[q].key
  /\ \A p \in Projects : project[p].state = "free" => project[p].key = CHOOSE k \in Keys : TRUE
  /\ changes = [p \in Projects |-> 0]
  /\ request = [r \in Requests |-> NoRequest]
  /\ lock = [u \in Users |-> Nobody]
  /\ rowLock = [p \in Projects |-> Nobody]
  /\ editor = [e \in Editors |-> [op |-> "none", on |-> Nobody]]

Taken == {p \in Projects : project[p].state # "free"}
Live(p) == project[p].state = "live"

-----------------------------------------------------------------------------
(* Which project a row of the file means. *)

\* A row with a year: the project of its business key.
ByKey(row) == {p \in Taken : project[p].key = <<row.name, row.year>>}
\* A row without one: the only project of its name, if none of that name is deleted.
ByName(row) == {p \in Taken : project[p].key[1] = row.name}

Found(p) == [status |-> "CHOICE", target |-> p, rev |-> project[p].rev, was |-> changes[p]]
Clash == [NoMatch EXCEPT !.status = "CONFLICT"]

OwnMatch(row) ==
  LET named == IF row.year = 0 THEN ByName(row) ELSE ByKey(row)
      live == {p \in named : Live(p)}
  IN IF row.year = 0
       THEN IF Cardinality(live) = 1 /\ live = named THEN Found(CHOOSE p \in live : TRUE) ELSE Clash
       ELSE IF live # {} THEN Found(CHOOSE p \in live : TRUE)
              ELSE IF named # {} THEN Clash ELSE NoMatch

\* A second row for the same project or the same new key is a conflict.
Repeated(file, i) ==
  \E j \in 1..(i - 1) :
    \/ OwnMatch(file[i]).target # Nobody /\ OwnMatch(file[j]).target = OwnMatch(file[i]).target
    \/ OwnMatch(file[i]).status = "NEW" /\ file[j] = file[i]

MatchRows(file) == [i \in DOMAIN file |-> IF Repeated(file, i) THEN Clash ELSE OwnMatch(file[i])]

-----------------------------------------------------------------------------
(* A user's imports run one at a time, and each in its 120 seconds. *)

\* checkTimeout: the signal of the handler and the deadline of the guard.
InTime(r) == request[r].aborted # "yes" /\ request[r].clock = "fresh"

\* RELEASE_LOCK_LUA deletes the key while it holds the request's token.
ReleasesAny(r) == [lock EXCEPT ![request[r].user] = Nobody]
Released(r) ==
  [u \in Users |-> IF u = request[r].user /\ lock[u] = r THEN Nobody ELSE lock[u]]

\* ExcelImportLockGuard: the lock is taken before the body is read.
TakeLock(r, u) == lock[u] = Nobody /\ lock' = [lock EXCEPT ![u] = r]

\* A transaction ends: its row locks go, and finally the user's lock.
End(r, to) ==
  /\ request' = [request EXCEPT ![r] = to]
  /\ rowLock' = [p \in Projects |-> IF rowLock[p] = r THEN Nobody ELSE rowLock[p]]
  /\ lock' = Released(r)

\* The body cannot be read, checkTimeout throws, a check fails, the database
\* does, or a preview has nobody left to see it.
Fail(r) ==
  /\ request[r].at \notin {"idle", "shown"}
  /\ End(r, NoRequest)
  /\ UNCHANGED <<project, changes, editor>>

\* The guard lets the request in; its body is read, the access checked again
\* and the operator loaded before the handler listens for the client's end.
Entering(r) == request[r].at \in {"receiving", "resending"}
StartHandler(r) ==
  /\ Entering(r)
  /\ request' = [request EXCEPT ![r].at = IF @ = "receiving" THEN "parsing" ELSE "confirming"]
  /\ UNCHANGED <<project, changes, lock, rowLock, editor>>

\* The client goes away or the response is closed: the guard's listener frees
\* the lock at once.  The handler notices at its next checkTimeout, and never
\* if it had no signal yet: abortSignal does not look at what is past.
Abort(r) ==
  /\ request[r].at \notin {"idle", "shown"} /\ request[r].aborted = "no"
  /\ request' = [request EXCEPT ![r].aborted = IF Entering(r) THEN "unheard" ELSE "yes"]
  /\ lock' = Released(r)
  /\ UNCHANGED <<project, changes, rowLock, editor>>

\* 120 seconds pass; 30 seconds later the key of the lock expires.
Overdue(r) ==
  /\ request[r].at \notin {"idle", "shown"} /\ request[r].clock = "fresh"
  /\ request' = [request EXCEPT ![r].clock = "overdue"]
  /\ UNCHANGED <<project, changes, lock, rowLock, editor>>

Expire(r) ==
  /\ request[r].clock = "overdue"
  /\ request' = [request EXCEPT ![r].clock = "expired"]
  /\ lock' = Released(r)
  /\ UNCHANGED <<project, changes, rowLock, editor>>

-----------------------------------------------------------------------------
(* Preview and confirmation. *)

Preview(r, u, file) ==
  /\ request[r].at = "idle" /\ TakeLock(r, u)
  /\ request' = [request EXCEPT ![r] = [NoRequest EXCEPT !.at = "receiving", !.user = u, !.file = file]]
  /\ UNCHANGED <<project, changes, rowLock, editor>>

ShowPreview(r) ==
  /\ request[r].at = "parsing" /\ InTime(r) /\ request[r].aborted = "no"
  /\ End(r, [request[r] EXCEPT !.at = "shown", !.seen = MatchRows(request[r].file)])
  /\ UNCHANGED <<project, changes, editor>>

\* The user drops the preview.
Leave(r) ==
  /\ request[r].at = "shown"
  /\ request' = [request EXCEPT ![r] = NoRequest]
  /\ UNCHANGED <<project, changes, lock, rowLock, editor>>

\* The same file again, with a choice for some of its rows: OVERWRITE for those
\* shown with a project, which its id and revision come from, or SKIP.
Offered(r) == {i \in DOMAIN request[r].file : request[r].seen[i].status = "CHOICE"}
Confirm(r) ==
  /\ request[r].at = "shown" /\ TakeLock(r, request[r].user)
  /\ \E overwrite \in SUBSET Offered(r), skip \in SUBSET DOMAIN request[r].file :
       /\ overwrite \cap skip = {}
       /\ request' = [request EXCEPT ![r].at = "resending",
                                    ![r].picks = [overwrite |-> overwrite, skip |-> skip]]
  /\ UNCHANGED <<project, changes, rowLock, editor>>

\* The rows of applyImport.  Created is what is new now, whatever the preview
\* showed, unless it was skipped; overwritten what is there now and was chosen.
\* A row that has become a conflict is passed over, and so is one that is there
\* now and was not chosen.
New(r) == {i \in DOMAIN request[r].file : request[r].match[i].status = "NEW"}
ToCreate(r) == New(r) \ request[r].picks.skip
ToOverwrite(r) == {i \in request[r].picks.overwrite : request[r].match[i].status = "CHOICE"}
Target(r, i) == request[r].seen[i].target
Targets(r) == {Target(r, i) : i \in ToOverwrite(r)}
NewKeys(r) == {<<request[r].file[i].name, request[r].file[i].year>> : i \in ToCreate(r)}

\* IMPORT_PREVIEW_STALE, IMPORT_CONFIRM_MISMATCH
ChoicesFit(r) ==
  /\ New(r) \cap request[r].picks.overwrite = {}
  /\ \A i \in ToOverwrite(r) : request[r].match[i].target = Target(r, i)

MatchAgain(r) ==
  /\ request[r].at = "confirming" /\ InTime(r)
  /\ request' = [request EXCEPT ![r].at = "checking", ![r].match = MatchRows(request[r].file)]
  /\ UNCHANGED <<project, changes, lock, rowLock, editor>>

\* Keys an import has inserted and not committed.
Inserted == UNION {NewKeys(r) : r \in {q \in Requests : request[q].at \in {"created", "updating"}}}
FreeKeys == Keys \ ({project[p].key : p \in Taken} \cup Inserted)

\* createManyAndReturn under the unique index
CreateRows(r) ==
  /\ request[r].at = "checking" /\ InTime(r) /\ ChoicesFit(r)
  /\ NewKeys(r) \subseteq FreeKeys
  /\ Cardinality(NewKeys(r)) <= Cardinality(Projects \ Taken)
  /\ request' = [request EXCEPT ![r].at = "created"]
  /\ UNCHANGED <<project, changes, lock, rowLock, editor>>

\* The targets are read: there, not deleted, at the revision of the preview.
TargetsFit(r) ==
  \A i \in ToOverwrite(r) : Live(Target(r, i)) /\ project[Target(r, i)].rev = request[r].seen[i].rev

CheckTargets(r) ==
  /\ request[r].at = "created" /\ InTime(r) /\ TargetsFit(r)
  /\ request' = [request EXCEPT ![r].at = "updating"]
  /\ UNCHANGED <<project, changes, lock, rowLock, editor>>

\* updateMany where id and dataRevision, one row of the file after the other
AnyTime(r, i) == TRUE
StillAt(r, i) == project[Target(r, i)].rev = request[r].seen[i].rev

UpdateTarget(r, i) ==
  /\ request[r].at = "updating" /\ InTime(r)
  /\ i \in ToOverwrite(r) /\ rowLock[Target(r, i)] = Nobody
  /\ \A j \in ToOverwrite(r) : j < i => rowLock[Target(r, j)] = r
  /\ StillAt(r, i)
  /\ rowLock' = [rowLock EXCEPT ![Target(r, i)] = r]
  /\ UNCHANGED <<project, changes, request, lock, editor>>

\* Details rebuilt, operations written, beforeCommit, COMMIT.
CommitImport(r) ==
  /\ request[r].at = "updating" /\ InTime(r)
  /\ \A p \in Targets(r) : rowLock[p] = r /\ project[p].rev < MaxRev
  /\ \E slots \in {s \in [NewKeys(r) -> Projects \ Taken] : \A k, l \in NewKeys(r) : k # l => s[k] # s[l]} :
       project' = [p \in Projects |->
         IF p \in Targets(r) THEN [project[p] EXCEPT !.rev = @ + 1]
         ELSE IF \E k \in NewKeys(r) : slots[k] = p
                THEN [state |-> "live", key |-> CHOOSE k \in NewKeys(r) : slots[k] = p, rev |-> 0]
                ELSE project[p]]
  /\ changes' = [p \in Projects |-> IF p \in Targets(r) THEN changes[p] + 1 ELSE changes[p]]
  /\ End(r, NoRequest)
  /\ UNCHANGED editor

-----------------------------------------------------------------------------
(* The other handlers read the project, then write it in the same          *)
(* transaction; the write waits for an import that has updated the row.    *)

Reading(e, op, p) ==
  /\ editor[e].op = "none"
  /\ editor' = [editor EXCEPT ![e] = [op |-> op, on |-> p]]
  /\ UNCHANGED <<project, changes, request, lock, rowLock>>

Writing(e, op) == editor[e].op = op /\ rowLock[editor[e].on] = Nobody

Written(e) ==
  /\ editor' = [editor EXCEPT ![e] = [op |-> "none", on |-> Nobody]]
  /\ UNCHANGED <<request, lock, rowLock>>

Change(p, key) ==
  /\ project[p].rev < MaxRev
  /\ project' = [project EXCEPT ![p].key = key, ![p].rev = @ + 1]
  /\ changes' = [changes EXCEPT ![p] = @ + 1]

CreateProject(p, key) ==
  /\ project[p].state = "free" /\ key \in FreeKeys
  /\ project' = [project EXCEPT ![p] = [state |-> "live", key |-> key, rev |-> 0]]
  /\ UNCHANGED <<changes, request, lock, rowLock, editor>>

UpdateProject(e, p) == Live(p) /\ Reading(e, "update", p)

\* diffProject found a change; the new key is the old one or free (P2002).
CommitUpdate(e, key) ==
  /\ Writing(e, "update") /\ key \in FreeKeys \cup {project[editor[e].on].key}
  /\ Change(editor[e].on, key)
  /\ Written(e)

CellSave(e, p) == Live(p) /\ Reading(e, "cell", p)

\* One field, which may be the name or the year.
CommitCell(e, key) ==
  /\ Writing(e, "cell") /\ key \in FreeKeys \cup {project[editor[e].on].key}
  /\ Change(editor[e].on, key)
  /\ Written(e)

RunDetailChange(e, p) == Live(p) /\ Reading(e, "detail", p)

CommitDetail(e) ==
  /\ Writing(e, "detail")
  /\ Change(editor[e].on, project[editor[e].on].key)
  /\ Written(e)

BatchDelete(e, p) == Live(p) /\ Reading(e, "delete", p)

\* The revision stays.
CommitDelete(e) ==
  /\ Writing(e, "delete")
  /\ project' = [project EXCEPT ![editor[e].on].state = "deleted"]
  /\ UNCHANGED changes
  /\ Written(e)

BatchRestore(e, p) == project[p].state = "deleted" /\ Reading(e, "restore", p)

CommitRestore(e) ==
  /\ Writing(e, "restore") /\ project[editor[e].on].rev < MaxRev
  /\ project' = [project EXCEPT ![editor[e].on].state = "live", ![editor[e].on].rev = @ + 1]
  /\ changes' = [changes EXCEPT ![editor[e].on] = @ + 1]
  /\ Written(e)

-----------------------------------------------------------------------------
ImportStep(r) ==
  \/ \E u \in Users, f \in Files : Preview(r, u, f)
  \/ StartHandler(r) \/ ShowPreview(r) \/ Leave(r) \/ Confirm(r)
  \/ MatchAgain(r) \/ CreateRows(r) \/ CheckTargets(r)
  \/ \E i \in DOMAIN request[r].file : UpdateTarget(r, i)
  \/ CommitImport(r) \/ Fail(r)

ClockStep(r) == Abort(r) \/ Overdue(r) \/ Expire(r)

EditStep(e) ==
  \/ \E p \in Projects : UpdateProject(e, p) \/ CellSave(e, p) \/ RunDetailChange(e, p)
                           \/ BatchDelete(e, p) \/ BatchRestore(e, p)
  \/ \E k \in Keys : CommitUpdate(e, k) \/ CommitCell(e, k)
  \/ CommitDetail(e) \/ CommitDelete(e) \/ CommitRestore(e)

FinNext ==
  \/ \E r \in Requests : ImportStep(r) \/ ClockStep(r)
  \/ \E e \in Editors : EditStep(e)
  \/ \E p \in Projects, k \in Keys : CreateProject(p, k)

FinSpec == FinInit /\ [][FinNext]_finVars

-----------------------------------------------------------------------------
Working(r) == request[r].at \notin {"idle", "shown"}
Commits(r) == request[r].at = "updating" /\ project' # project /\ request'[r].at = "idle"

\* An import overwrites a project with what the user saw in the preview: since
\* then it was not edited, no detail and no cell of it changed, and it was not
\* deleted and restored, however the two requests of the import and the
\* handlers of other users interleave (applyImport, updateMany with
\* dataRevision; project.service, profit.service, detail.service).
OverwritesWhatWasSeen ==
  [][\A r \in Requests : Commits(r) => \A i \in ToOverwrite(r) : changes[Target(r, i)] = request[r].seen[i].was]_finVars

\* Of two imports of one user that work at the same time, one has been aborted
\* or is past its time and will write nothing (acquireImportLock, the guard's
\* release, makeImportTimeoutCheck) - or lost its client before its handler
\* listened, which frees the lock and stops nothing (excel.controller.ts:70-75).
OneImportAtATime ==
  \A r, q \in Requests :
    /\ r # q /\ Working(r) /\ Working(q) /\ InTime(r) /\ InTime(q)
    /\ "unheard" \notin {request[r].aborted, request[q].aborted}
    => request[r].user # request[q].user
=============================================================================
