------------------------- MODULE FinProjects_proofs -------------------------
(***************************************************************************)
(* Finance imports for any number of projects, users, requests and other   *)
(* handlers: a user's imports run one at a time, and an import overwrites  *)
(* only what its user was shown.  And the worker pool that reads and       *)
(* writes the workbooks, for any number of tasks and threads: a caller     *)
(* gets the result of its own task.                                        *)
(***************************************************************************)
EXTENDS FinProjects, XlsxPool, FiniteSetTheorems, SequenceTheorems, TLAPS

(* The shape of an import request, whatever the file and its rows are.     *)
Req(at, user, file, seen, match, picks, clock, aborted) ==
  [at |-> at, user |-> user, file |-> file, seen |-> seen, match |-> match, picks |-> picks,
   clock |-> clock, aborted |-> aborted]

IsRequest(q) == \E a, u, f, s, m, p, c, b : q = Req(a, u, f, s, m, p, c, b)

Is(q, at, user, file, seen, match, picks, clock, aborted) ==
  /\ IsRequest(q)
  /\ q.at = at /\ q.user = user /\ q.file = file /\ q.seen = seen
  /\ q.match = match /\ q.picks = picks /\ q.clock = clock /\ q.aborted = aborted

(* The fields of a request, and what setting some of them makes of it.     *)
LEMMA Fields ==
  \A a, u, f, s, m, p, c, b : Is(Req(a, u, f, s, m, p, c, b), a, u, f, s, m, p, c, b)
<1> SUFFICES ASSUME NEW a, NEW u, NEW f, NEW s, NEW m, NEW p, NEW c, NEW b
             PROVE  Is(Req(a, u, f, s, m, p, c, b), a, u, f, s, m, p, c, b)
  OBVIOUS
<1>1. IsRequest(Req(a, u, f, s, m, p, c, b))
  BY DEF IsRequest
<1> QED
  BY <1>1 DEF Is, Req

LEMMA SetAt ==
  ASSUME NEW q, IsRequest(q), NEW x
  PROVE  Is([q EXCEPT !.at = x], x, q.user, q.file, q.seen, q.match, q.picks, q.clock, q.aborted)
<1>1. PICK a, u, f, s, m, p, c, b : q = Req(a, u, f, s, m, p, c, b)
  BY DEF IsRequest
<1>2. [q EXCEPT !.at = x] = Req(x, u, f, s, m, p, c, b)
  BY <1>1 DEF Req
<1>3. Is(q, a, u, f, s, m, p, c, b)
  BY <1>1, Fields
<1> QED
  BY <1>2, <1>3, Fields DEF Is

LEMMA SetUser ==
  ASSUME NEW q, IsRequest(q), NEW x
  PROVE  Is([q EXCEPT !.user = x], q.at, x, q.file, q.seen, q.match, q.picks, q.clock, q.aborted)
<1>1. PICK a, u, f, s, m, p, c, b : q = Req(a, u, f, s, m, p, c, b)
  BY DEF IsRequest
<1>2. [q EXCEPT !.user = x] = Req(a, x, f, s, m, p, c, b)
  BY <1>1 DEF Req
<1>3. Is(q, a, u, f, s, m, p, c, b)
  BY <1>1, Fields
<1> QED
  BY <1>2, <1>3, Fields DEF Is

LEMMA SetFile ==
  ASSUME NEW q, IsRequest(q), NEW x
  PROVE  Is([q EXCEPT !.file = x], q.at, q.user, x, q.seen, q.match, q.picks, q.clock, q.aborted)
<1>1. PICK a, u, f, s, m, p, c, b : q = Req(a, u, f, s, m, p, c, b)
  BY DEF IsRequest
<1>2. [q EXCEPT !.file = x] = Req(a, u, x, s, m, p, c, b)
  BY <1>1 DEF Req
<1>3. Is(q, a, u, f, s, m, p, c, b)
  BY <1>1, Fields
<1> QED
  BY <1>2, <1>3, Fields DEF Is

LEMMA SetSeen ==
  ASSUME NEW q, IsRequest(q), NEW x
  PROVE  Is([q EXCEPT !.seen = x], q.at, q.user, q.file, x, q.match, q.picks, q.clock, q.aborted)
<1>1. PICK a, u, f, s, m, p, c, b : q = Req(a, u, f, s, m, p, c, b)
  BY DEF IsRequest
<1>2. [q EXCEPT !.seen = x] = Req(a, u, f, x, m, p, c, b)
  BY <1>1 DEF Req
<1>3. Is(q, a, u, f, s, m, p, c, b)
  BY <1>1, Fields
<1> QED
  BY <1>2, <1>3, Fields DEF Is

LEMMA SetMatch ==
  ASSUME NEW q, IsRequest(q), NEW x
  PROVE  Is([q EXCEPT !.match = x], q.at, q.user, q.file, q.seen, x, q.picks, q.clock, q.aborted)
<1>1. PICK a, u, f, s, m, p, c, b : q = Req(a, u, f, s, m, p, c, b)
  BY DEF IsRequest
<1>2. [q EXCEPT !.match = x] = Req(a, u, f, s, x, p, c, b)
  BY <1>1 DEF Req
<1>3. Is(q, a, u, f, s, m, p, c, b)
  BY <1>1, Fields
<1> QED
  BY <1>2, <1>3, Fields DEF Is

LEMMA SetPicks ==
  ASSUME NEW q, IsRequest(q), NEW x
  PROVE  Is([q EXCEPT !.picks = x], q.at, q.user, q.file, q.seen, q.match, x, q.clock, q.aborted)
<1>1. PICK a, u, f, s, m, p, c, b : q = Req(a, u, f, s, m, p, c, b)
  BY DEF IsRequest
<1>2. [q EXCEPT !.picks = x] = Req(a, u, f, s, m, x, c, b)
  BY <1>1 DEF Req
<1>3. Is(q, a, u, f, s, m, p, c, b)
  BY <1>1, Fields
<1> QED
  BY <1>2, <1>3, Fields DEF Is

LEMMA SetClock ==
  ASSUME NEW q, IsRequest(q), NEW x
  PROVE  Is([q EXCEPT !.clock = x], q.at, q.user, q.file, q.seen, q.match, q.picks, x, q.aborted)
<1>1. PICK a, u, f, s, m, p, c, b : q = Req(a, u, f, s, m, p, c, b)
  BY DEF IsRequest
<1>2. [q EXCEPT !.clock = x] = Req(a, u, f, s, m, p, x, b)
  BY <1>1 DEF Req
<1>3. Is(q, a, u, f, s, m, p, c, b)
  BY <1>1, Fields
<1> QED
  BY <1>2, <1>3, Fields DEF Is

LEMMA SetAborted ==
  ASSUME NEW q, IsRequest(q), NEW x
  PROVE  Is([q EXCEPT !.aborted = x], q.at, q.user, q.file, q.seen, q.match, q.picks, q.clock, x)
<1>1. PICK a, u, f, s, m, p, c, b : q = Req(a, u, f, s, m, p, c, b)
  BY DEF IsRequest
<1>2. [q EXCEPT !.aborted = x] = Req(a, u, f, s, m, p, c, x)
  BY <1>1 DEF Req
<1>3. Is(q, a, u, f, s, m, p, c, b)
  BY <1>1, Fields
<1> QED
  BY <1>2, <1>3, Fields DEF Is

LEMMA SetAtSeen ==
  ASSUME NEW q, IsRequest(q), NEW x, NEW y
  PROVE  Is([q EXCEPT !.at = x, !.seen = y],
            x, q.user, q.file, y, q.match, q.picks, q.clock, q.aborted)
<1>1. PICK p : p = [q EXCEPT !.at = x]
  OBVIOUS
<1>2. Is(p, x, q.user, q.file, q.seen, q.match, q.picks, q.clock, q.aborted)
  BY <1>1, SetAt
<1>3. Is([p EXCEPT !.seen = y], p.at, p.user, p.file, y, p.match, p.picks, p.clock, p.aborted)
  BY <1>2, SetSeen DEF Is
<1>4. [q EXCEPT !.at = x, !.seen = y] = [p EXCEPT !.seen = y]
  BY <1>1
<1>5. /\ p.at = x /\ p.user = q.user /\ p.file = q.file /\ p.match = q.match
      /\ p.picks = q.picks /\ p.clock = q.clock /\ p.aborted = q.aborted
  BY <1>2 DEF Is
<1> QED
  BY <1>3, <1>4, <1>5

LEMMA SetAtMatch ==
  ASSUME NEW q, IsRequest(q), NEW x, NEW y
  PROVE  Is([q EXCEPT !.at = x, !.match = y],
            x, q.user, q.file, q.seen, y, q.picks, q.clock, q.aborted)
<1>1. PICK p : p = [q EXCEPT !.at = x]
  OBVIOUS
<1>2. Is(p, x, q.user, q.file, q.seen, q.match, q.picks, q.clock, q.aborted)
  BY <1>1, SetAt
<1>3. Is([p EXCEPT !.match = y], p.at, p.user, p.file, p.seen, y, p.picks, p.clock, p.aborted)
  BY <1>2, SetMatch DEF Is
<1>4. [q EXCEPT !.at = x, !.match = y] = [p EXCEPT !.match = y]
  BY <1>1
<1>5. /\ p.at = x /\ p.user = q.user /\ p.file = q.file /\ p.seen = q.seen
      /\ p.picks = q.picks /\ p.clock = q.clock /\ p.aborted = q.aborted
  BY <1>2 DEF Is
<1> QED
  BY <1>3, <1>4, <1>5

LEMMA SetAtPicks ==
  ASSUME NEW q, IsRequest(q), NEW x, NEW y
  PROVE  Is([q EXCEPT !.at = x, !.picks = y],
            x, q.user, q.file, q.seen, q.match, y, q.clock, q.aborted)
<1>1. PICK p : p = [q EXCEPT !.at = x]
  OBVIOUS
<1>2. Is(p, x, q.user, q.file, q.seen, q.match, q.picks, q.clock, q.aborted)
  BY <1>1, SetAt
<1>3. Is([p EXCEPT !.picks = y], p.at, p.user, p.file, p.seen, p.match, y, p.clock, p.aborted)
  BY <1>2, SetPicks DEF Is
<1>4. [q EXCEPT !.at = x, !.picks = y] = [p EXCEPT !.picks = y]
  BY <1>1
<1>5. /\ p.at = x /\ p.user = q.user /\ p.file = q.file /\ p.seen = q.seen
      /\ p.match = q.match /\ p.clock = q.clock /\ p.aborted = q.aborted
  BY <1>2 DEF Is
<1> QED
  BY <1>3, <1>4, <1>5

NoPicks == [overwrite |-> {}, skip |-> {}]

LEMMA NewRequest ==
  /\ NoPicks.overwrite = {}
  /\ Is(NoRequest, "idle", Nobody, <<>>, <<>>, <<>>, NoPicks, "fresh", "no")
  /\ \A u, f : Is([NoRequest EXCEPT !.at = "receiving", !.user = u, !.file = f],
                  "receiving", u, f, <<>>, <<>>, NoPicks, "fresh", "no")
<1>1. NoRequest = Req("idle", Nobody, <<>>, <<>>, <<>>, NoPicks, "fresh", "no")
  BY DEF Req, NoRequest, NoPicks
<1>2. Is(NoRequest, "idle", Nobody, <<>>, <<>>, <<>>, NoPicks, "fresh", "no")
  BY <1>1, Fields
<1>3. ASSUME NEW u, NEW f
      PROVE  Is([NoRequest EXCEPT !.at = "receiving", !.user = u, !.file = f],
                "receiving", u, f, <<>>, <<>>, NoPicks, "fresh", "no")
  <2>1. PICK p : p = [NoRequest EXCEPT !.at = "receiving"]
    OBVIOUS
  <2>2. Is(p, "receiving", Nobody, <<>>, <<>>, <<>>, NoPicks, "fresh", "no")
    <3>1. /\ IsRequest(NoRequest) /\ NoRequest.user = Nobody /\ NoRequest.file = <<>>
          /\ NoRequest.seen = <<>> /\ NoRequest.match = <<>> /\ NoRequest.picks = NoPicks
          /\ NoRequest.clock = "fresh" /\ NoRequest.aborted = "no"
      BY <1>2 DEF Is
    <3>2. Is([NoRequest EXCEPT !.at = "receiving"], "receiving", NoRequest.user, NoRequest.file,
             NoRequest.seen, NoRequest.match, NoRequest.picks, NoRequest.clock, NoRequest.aborted)
      BY <3>1, SetAt
    <3> QED
      BY <2>1, <3>1, <3>2
  <2>3. PICK q : q = [p EXCEPT !.user = u]
    OBVIOUS
  <2>4. Is(q, "receiving", u, <<>>, <<>>, <<>>, NoPicks, "fresh", "no")
    BY <2>2, <2>3, SetUser DEF Is
  <2>5. Is([q EXCEPT !.file = f], "receiving", u, f, <<>>, <<>>, NoPicks, "fresh", "no")
    BY <2>4, SetFile DEF Is
  <2> QED
    BY <2>1, <2>3, <2>5
<1>4. NoPicks.overwrite = {}
  BY DEF NoPicks
<1> QED
  BY <1>2, <1>3, <1>4

RequestsTyped ==
  /\ \E S : request \in [Requests -> S]
  /\ \E S : lock \in [Users -> S]
  /\ \A r \in Requests :
       /\ IsRequest(request[r])
       /\ request[r].at # "idle" => request[r].user \in Users

(* While a request works and may still write, and its client's end has not *)
(* gone unheard, the lock has its token.                                   *)
Owns(q) == q.at \notin {"idle", "shown"} /\ q.aborted \notin {"yes", "unheard"} /\ q.clock = "fresh"

TokenHeld == \A r \in Requests : Owns(request[r]) => lock[request[r].user] = r

LockInv == RequestsTyped /\ TokenHeld

(* A step of request r that changes nothing but its record q and the lock. *)
LEMMA OneRequestChanges ==
  ASSUME LockInv, NEW r \in Requests, NEW q, IsRequest(q), q.at # "idle" => q.user \in Users,
         request' = [request EXCEPT ![r] = q],
         \/ /\ lock' = lock
            /\ Owns(q) => lock[q.user] = r
         \/ lock' = Released(r) /\ ~Owns(q)
         \/ TakeLock(r, q.user) /\ q.user \in Users
  PROVE  LockInv'
<1>1. /\ request'[r] = q
      /\ \A s \in Requests \ {r} : request'[s] = request[s]
      /\ \E S : request' \in [Requests -> S]
  <2>1. PICK S : request \in [Requests -> S]
    BY DEF LockInv, RequestsTyped
  <2>2. request' \in [Requests -> S \cup {q}]
    BY <2>1
  <2> QED
    BY <2>1, <2>2
<1>2. PICK S : lock \in [Users -> S]
  BY DEF LockInv, RequestsTyped
<1>3. lock' \in [Users -> S \cup {Nobody, r}]
  BY <1>2 DEF Released, TakeLock
<1>4. RequestsTyped'
  BY <1>1, <1>3 DEF LockInv, RequestsTyped
<1>5. ASSUME NEW s \in Requests, Owns(request'[s]) PROVE lock'[request'[s].user] = s
  <2>1. CASE s = r
    BY <1>1, <1>2, <1>5, <2>1 DEF TakeLock
  <2>2. CASE s # r
    <3>1. Owns(request[s]) /\ request'[s] = request[s]
      BY <1>1, <1>5, <2>2
    <3>2. lock[request[s].user] = s /\ request[s].user \in Users
      BY <3>1 DEF LockInv, TokenHeld, RequestsTyped, Owns
    <3>3. s # Nobody
      BY FinProjectsAssumption DEF Nobody
    <3>4. lock'[request[s].user] = s
      BY <1>2, <2>2, <3>2, <3>3 DEF Released, TakeLock
    <3> QED
      BY <3>1, <3>4
  <2> QED
    BY <2>1, <2>2
<1> QED
  BY <1>4, <1>5 DEF LockInv, TokenHeld

(* Every step of a user's import keeps the token with the request that     *)
(* works.                                                                  *)
LEMMA LockSteps ==
  ASSUME LockInv, NEW r \in Requests, ImportStep(r) \/ ClockStep(r)
  PROVE  LockInv'
<1>1. IsRequest(request[r]) /\ (request[r].at # "idle" => request[r].user \in Users)
  BY DEF LockInv, RequestsTyped
<1>2. Owns(request[r]) => lock[request[r].user] = r
  BY DEF LockInv, TokenHeld
<1>3. ASSUME NEW q, IsRequest(q), q.at \in {"idle", "shown"}, q.at = "shown" => q.user \in Users,
             End(r, q)
      PROVE  LockInv'
  BY <1>3, OneRequestChanges DEF End, Owns
<1>4. ASSUME NEW u \in Users, NEW f \in Files, Preview(r, u, f) PROVE LockInv'
  <2> DEFINE q == [NoRequest EXCEPT !.at = "receiving", !.user = u, !.file = f]
  <2>1. IsRequest(q) /\ q.user = u
    BY NewRequest DEF Is
  <2> QED
    BY <1>4, <2>1, OneRequestChanges DEF Preview
<1>5. CASE ShowPreview(r)
  <2> DEFINE q == [request[r] EXCEPT !.at = "shown", !.seen = MatchRows(request[r].file)]
  <2>1. IsRequest(q) /\ q.at = "shown" /\ q.user = request[r].user
    <3>1. Is(q, "shown", request[r].user, request[r].file, MatchRows(request[r].file),
             request[r].match, request[r].picks, request[r].clock, request[r].aborted)
      BY <1>1, SetAtSeen
    <3> QED
      BY <3>1 DEF Is
  <2>2. End(r, q) /\ request[r].at = "parsing"
    BY <1>5 DEF ShowPreview
  <2> QED
    BY <1>1, <1>3, <2>1, <2>2
<1>6. CASE Leave(r)
  <2>1. IsRequest(NoRequest) /\ NoRequest.at = "idle"
    BY NewRequest DEF Is
  <2> QED
    BY <1>6, <2>1, OneRequestChanges DEF Leave, Owns
<1>7. CASE Confirm(r)
  <2>1. PICK picks :
          request' = [request EXCEPT ![r] = [request[r] EXCEPT !.at = "resending", !.picks = picks]]
    BY <1>7 DEF Confirm
  <2> DEFINE q == [request[r] EXCEPT !.at = "resending", !.picks = picks]
  <2>2. IsRequest(q) /\ q.user = request[r].user
    <3>1. Is(q, "resending", request[r].user, request[r].file, request[r].seen,
             request[r].match, picks, request[r].clock, request[r].aborted)
      BY <1>1, SetAtPicks
    <3> QED
      BY <3>1 DEF Is
  <2>3. request[r].at = "shown" /\ TakeLock(r, q.user)
    BY <1>7, <2>2 DEF Confirm
  <2> QED
    BY <1>1, <2>1, <2>2, <2>3, OneRequestChanges
<1>8. ASSUME NEW q, IsRequest(q), q.user = request[r].user, q.at \notin {"idle", "shown"},
             request[r].at \notin {"idle", "shown"},
             q.clock = request[r].clock, q.aborted = request[r].aborted,
             request' = [request EXCEPT ![r] = q], UNCHANGED lock
      PROVE  LockInv'
  BY <1>1, <1>2, <1>8, OneRequestChanges DEF Owns
<1>9. CASE MatchAgain(r)
  <2> DEFINE q == [request[r] EXCEPT !.at = "checking", !.match = MatchRows(request[r].file)]
  <2>1. IsRequest(q) /\ q.user = request[r].user /\ q.at = "checking"
        /\ q.clock = request[r].clock /\ q.aborted = request[r].aborted
    <3>1. Is(q, "checking", request[r].user, request[r].file, request[r].seen,
             MatchRows(request[r].file), request[r].picks, request[r].clock, request[r].aborted)
      BY <1>1, SetAtMatch
    <3> QED
      BY <3>1 DEF Is
  <2> QED
    BY <1>8, <1>9, <2>1 DEF MatchAgain
<1>10. ASSUME NEW at \in {"created", "updating"}, request[r].at \in {"checking", "created"},
              request' = [request EXCEPT ![r].at = at], UNCHANGED lock
       PROVE  LockInv'
  <2> DEFINE q == [request[r] EXCEPT !.at = at]
  <2>1. IsRequest(q) /\ q.user = request[r].user /\ q.at = at
        /\ q.clock = request[r].clock /\ q.aborted = request[r].aborted
    BY <1>1, SetAt DEF Is
  <2> QED
    BY <1>8, <1>10, <2>1
<1>11. CASE CreateRows(r)
  BY <1>10, <1>11 DEF CreateRows
<1>12. CASE CheckTargets(r)
  BY <1>10, <1>12 DEF CheckTargets
<1>13. ASSUME NEW i, UpdateTarget(r, i) PROVE LockInv'
  BY <1>13 DEF UpdateTarget, LockInv, RequestsTyped, TokenHeld
<1>14. CASE CommitImport(r)
  <2>1. IsRequest(NoRequest) /\ NoRequest.at = "idle"
    BY NewRequest DEF Is
  <2>2. End(r, NoRequest)
    BY <1>14 DEF CommitImport
  <2> QED
    BY <1>3, <2>1, <2>2
<1>15. CASE Fail(r)
  <2>1. IsRequest(NoRequest) /\ NoRequest.at = "idle"
    BY NewRequest DEF Is
  <2>2. End(r, NoRequest)
    BY <1>15 DEF Fail
  <2> QED
    BY <1>3, <2>1, <2>2
<1>16. CASE Abort(r)
  <2>1. PICK aborted \in {"yes", "unheard"} : request' = [request EXCEPT ![r].aborted = aborted]
    BY <1>16 DEF Abort
  <2> DEFINE q == [request[r] EXCEPT !.aborted = aborted]
  <2>2. IsRequest(q) /\ q.user = request[r].user /\ q.at = request[r].at /\ q.aborted = aborted
    BY <1>1, SetAborted DEF Is
  <2>3. lock' = Released(r) /\ request[r].at # "idle"
    BY <1>16 DEF Abort
  <2> QED
    BY <1>1, <2>1, <2>2, <2>3, OneRequestChanges DEF Owns
<1>17. ASSUME NEW clock \in {"overdue", "expired"},
              request' = [request EXCEPT ![r].clock = clock], lock' \in {lock, Released(r)}
       PROVE  LockInv'
  <2> DEFINE q == [request[r] EXCEPT !.clock = clock]
  <2>1. IsRequest(q) /\ q.user = request[r].user /\ q.at = request[r].at /\ q.clock = clock
    BY <1>1, SetClock DEF Is
  <2> QED
    BY <1>1, <1>17, <2>1, OneRequestChanges DEF Owns
<1>18. CASE Overdue(r)
  BY <1>17, <1>18 DEF Overdue
<1>19. CASE Expire(r)
  BY <1>17, <1>19 DEF Expire
<1>20. CASE StartHandler(r)
  <2>1. PICK at \in {"parsing", "confirming"} : request' = [request EXCEPT ![r].at = at]
    BY <1>20 DEF StartHandler
  <2> DEFINE q == [request[r] EXCEPT !.at = at]
  <2>2. IsRequest(q) /\ q.user = request[r].user /\ q.at = at
        /\ q.clock = request[r].clock /\ q.aborted = request[r].aborted
    BY <1>1, SetAt DEF Is
  <2>3. UNCHANGED lock /\ request[r].at \in {"receiving", "resending"}
    BY <1>20 DEF StartHandler, Entering
  <2> QED
    BY <1>8, <2>1, <2>2, <2>3
<1> QED
  BY <1>4, <1>5, <1>6, <1>7, <1>9, <1>11, <1>12, <1>13, <1>14, <1>15, <1>16, <1>18, <1>19, <1>20
     DEF ImportStep, ClockStep

(* OneImportAtATime for any number of requests and users: unless its       *)
(* client's end went unheard, the one that works and may still write is    *)
(* the one whose token the lock holds.                                     *)
THEOREM OneImportAlways == FinSpec => []OneImportAtATime
<1>1. FinInit => LockInv
  <2> SUFFICES ASSUME FinInit PROVE LockInv
    OBVIOUS
  <2>1. IsRequest(NoRequest) /\ NoRequest.at = "idle"
    BY NewRequest DEF Is
  <2>2. request \in [Requests -> {NoRequest}] /\ lock \in [Users -> {Nobody}]
    BY DEF FinInit
  <2> QED
    BY <2>1, <2>2 DEF LockInv, RequestsTyped, TokenHeld, Owns
<1>2. LockInv /\ [FinNext]_finVars => LockInv'
  <2> SUFFICES ASSUME LockInv, [FinNext]_finVars PROVE LockInv'
    OBVIOUS
  <2>1. ASSUME NEW r \in Requests, ImportStep(r) \/ ClockStep(r) PROVE LockInv'
    BY <2>1, LockSteps
  <2>2. ASSUME UNCHANGED <<request, lock>> PROVE LockInv'
    BY <2>2 DEF LockInv, RequestsTyped, TokenHeld
  <2>3. ASSUME NEW e \in Editors, EditStep(e) PROVE UNCHANGED <<request, lock>>
    BY <2>3 DEF EditStep, UpdateProject, CellSave, RunDetailChange, BatchDelete, BatchRestore, Reading,
                CommitUpdate, CommitCell, CommitDetail, CommitDelete, CommitRestore, Written
  <2>4. ASSUME NEW q \in Projects, NEW k \in Keys, CreateProject(q, k) PROVE UNCHANGED <<request, lock>>
    BY <2>4 DEF CreateProject
  <2>5. CASE UNCHANGED finVars
    BY <2>2, <2>5 DEF finVars
  <2> QED
    BY <2>1, <2>2, <2>3, <2>4, <2>5 DEF FinNext
<1>3. LockInv => OneImportAtATime
  BY DEF LockInv, TokenHeld, OneImportAtATime, Owns, Working, InTime
<1> QED
  BY <1>1, <1>2, <1>3, PTL DEF FinSpec

-----------------------------------------------------------------------------
RowsTyped ==
  /\ \E K : project \in [Projects -> [state : {"free", "live", "deleted"}, key : K, rev : Nat]]
  /\ changes \in [Projects -> Nat]
  /\ \E S : rowLock \in [Projects -> S]
  /\ \E S : editor \in [Editors -> S]

(* The data revision of a project counts its changes.                      *)
RevisionCounts ==
  \A p \in Projects : /\ changes[p] = project[p].rev
                      /\ project[p].state = "free" => project[p].rev = 0

Known(p, pr) == p \in Projects /\ pr[p].state # "free"

(* What another handler has read is a project, live or deleted.            *)
EditorsKnow == \A e \in Editors : editor[e].op # "none" => Known(editor[e].on, project)

(* What a request has shown: projects, with the revision and the changes   *)
(* of one and the same moment; rows shown with one are chosen.             *)
Unseen == {"idle", "receiving", "parsing"}

Stands(q, pr) ==
  /\ \A i \in q.picks.overwrite :
       q.at \notin Unseen /\ i \in DOMAIN q.file /\ q.seen[i].status = "CHOICE"
  /\ q.at \notin Unseen =>
       \A i \in DOMAIN q.file : q.seen[i].status = "CHOICE" =>
         /\ Known(q.seen[i].target, pr) /\ q.seen[i].rev = q.seen[i].was
         /\ \A j \in DOMAIN q.file :
              q.seen[j].status = "CHOICE" /\ q.seen[j].target = q.seen[i].target
              => q.seen[j].rev = q.seen[i].rev

Overwritten(q) == {i \in q.picks.overwrite : q.match[i].status = "CHOICE"}

(* A row is locked by an import that is updating it at the revision shown. *)
Locks(q, p, pr) ==
  /\ q.at = "updating"
  /\ \E i \in Overwritten(q) : q.seen[i].target = p /\ pr[p].rev = q.seen[i].rev

SeenInv ==
  /\ RequestsTyped /\ RowsTyped /\ RevisionCounts /\ EditorsKnow
  /\ \A r \in Requests : Stands(request[r], project)
  /\ \A r \in Requests, p \in Projects : rowLock[p] = r => Locks(request[r], p, project)

(* A row that a preview offers to overwrite is a project that is there.    *)
LEMMA Matched ==
  ASSUME NEW file, NEW i \in DOMAIN file, MatchRows(file)[i].status = "CHOICE"
  PROVE  \E p \in Projects : Live(p) /\ MatchRows(file)[i] = Found(p)
<1>1. Clash.status = "CONFLICT" /\ NoMatch.status = "NEW"
  BY DEF Clash, NoMatch
<1>2. MatchRows(file)[i] = OwnMatch(file[i])
  BY <1>1 DEF MatchRows
<1> DEFINE named == IF file[i].year = 0 THEN ByName(file[i]) ELSE ByKey(file[i])
           live == {p \in named : Live(p)}
<1>3. OwnMatch(file[i]).status = "CHOICE"
  BY <1>2
<1>4. live # {} /\ OwnMatch(file[i]) = Found(CHOOSE p \in live : TRUE)
  <2>1. Cardinality({}) = 0
    BY FS_EmptySet
  <2>2. CASE file[i].year = 0
    BY <1>1, <1>3, <2>1, <2>2 DEF OwnMatch
  <2>3. CASE file[i].year # 0
    BY <1>1, <1>3, <2>3 DEF OwnMatch
  <2> QED
    BY <2>2, <2>3
<1>5. PICK p : p = CHOOSE x \in live : TRUE
  OBVIOUS
<1>6. p \in live
  BY <1>4, <1>5
<1>7. live \subseteq Projects
  BY DEF ByName, ByKey, Taken
<1>8. p \in Projects /\ Live(p)
  BY <1>6, <1>7
<1> QED
  BY <1>2, <1>4, <1>5, <1>8

(* The steps of request r that leave projects and other handlers alone,    *)
(* and keep or release the rows it has locked.                             *)
LEMMA RecordChanges ==
  ASSUME SeenInv, RequestsTyped', NEW r \in Requests, NEW q,
         request' = [request EXCEPT ![r] = q], Stands(q, project),
         UNCHANGED <<project, changes, editor>>,
         \/ /\ UNCHANGED rowLock
            /\ request[r].at = "updating" =>
                 /\ q.at = "updating" /\ q.seen = request[r].seen
                 /\ q.match = request[r].match /\ q.picks = request[r].picks
         \/ rowLock' = [p \in Projects |-> IF rowLock[p] = r THEN Nobody ELSE rowLock[p]]
  PROVE  SeenInv'
<1>1. PICK S : request \in [Requests -> S]
  BY DEF SeenInv, RequestsTyped
<1>2. /\ request' \in [Requests -> S \cup {q}] /\ request'[r] = q
      /\ \A s \in Requests \ {r} : request'[s] = request[s]
  BY <1>1
<1>4. \A s \in Requests : Stands(request'[s], project')
  BY <1>2 DEF SeenInv
<1>5. PICK R : rowLock \in [Projects -> R]
  BY DEF SeenInv, RowsTyped
<1>6. rowLock' \in [Projects -> R \cup {Nobody}]
  BY <1>5
<1>7. RowsTyped' /\ RevisionCounts' /\ EditorsKnow'
  BY <1>6 DEF SeenInv, RowsTyped, RevisionCounts, EditorsKnow
<1>8. ASSUME NEW s \in Requests, NEW p \in Projects, rowLock'[p] = s
      PROVE  Locks(request'[s], p, project')
  <2>1. rowLock[p] = s /\ (s = r => UNCHANGED rowLock)
    BY <1>5, <1>8, FinProjectsAssumption DEF Nobody
  <2>2. Locks(request[s], p, project)
    BY <2>1 DEF SeenInv
  <2>3. CASE s = r
    <3>1. request[r].at = "updating" /\ UNCHANGED rowLock
      BY <2>1, <2>2, <2>3 DEF Locks
    <3>2. CASE rowLock' = [x \in Projects |-> IF rowLock[x] = r THEN Nobody ELSE rowLock[x]]
      BY <1>8, <2>1, <2>3, <3>2, FinProjectsAssumption DEF Nobody
    <3>3. CASE q.at = "updating" /\ q.seen = request[r].seen
                 /\ q.match = request[r].match /\ q.picks = request[r].picks
      BY <1>2, <2>2, <2>3, <3>3 DEF Locks, Overwritten
    <3> QED
      BY <3>1, <3>2, <3>3
  <2>4. CASE s # r
    BY <1>2, <2>2, <2>4
  <2> QED
    BY <2>3, <2>4
<1> QED
  BY <1>4, <1>7, <1>8 DEF SeenInv

(* A step that changes projects: none is lost, those locked by an import   *)
(* that goes on keep their revision, and the other imports stand still.    *)
LEMMA RowsChange ==
  ASSUME SeenInv, RequestsTyped', RowsTyped', RevisionCounts', EditorsKnow',
         \A p \in Projects : Known(p, project) => Known(p, project'),
         \A s \in Requests : request'[s] \in {request[s], NoRequest},
         \A s \in Requests, p \in Projects : rowLock'[p] = s =>
           rowLock[p] = s /\ request'[s] = request[s] /\ project'[p].rev = project[p].rev
  PROVE  SeenInv'
<1>1. ASSUME NEW s \in Requests PROVE Stands(request'[s], project')
  <2>1. CASE request'[s] = request[s]
    <3>1. Stands(request[s], project)
      BY DEF SeenInv
    <3>2. \A p : Known(p, project) => Known(p, project')
      BY DEF Known
    <3> QED
      BY <2>1, <3>1, <3>2 DEF Stands
  <2>2. CASE request'[s] = NoRequest
    BY <2>2, NewRequest DEF Stands, Is, Unseen
  <2> QED
    BY <2>1, <2>2
<1>2. ASSUME NEW s \in Requests, NEW p \in Projects, rowLock'[p] = s
      PROVE  Locks(request'[s], p, project')
  <2>1. Locks(request[s], p, project)
    BY <1>2 DEF SeenInv
  <2> QED
    BY <1>2, <2>1 DEF Locks
<1> QED
  BY <1>1, <1>2 DEF SeenInv

(* The steps of an import up to the row of its first project, and its ends *)
(* without a commit.                                                       *)
LEMMA RequestSteps ==
  ASSUME SeenInv, RequestsTyped', NEW r \in Requests,
         \/ \E u \in Users, f \in Files : Preview(r, u, f)
         \/ StartHandler(r) \/ ShowPreview(r) \/ Leave(r) \/ Confirm(r) \/ MatchAgain(r) \/ CreateRows(r)
         \/ CheckTargets(r) \/ Fail(r) \/ ClockStep(r)
  PROVE  SeenInv'
<1>1. IsRequest(request[r]) /\ Stands(request[r], project)
  BY DEF SeenInv, RequestsTyped
<1>2. Stands(NoRequest, project)
  BY NewRequest DEF Stands, Is, Unseen
<1>3. ASSUME NEW u \in Users, NEW f \in Files, Preview(r, u, f) PROVE SeenInv'
  <2> DEFINE q == [NoRequest EXCEPT !.at = "receiving", !.user = u, !.file = f]
  <2>0. Is(q, "receiving", u, f, <<>>, <<>>, NoPicks, "fresh", "no")
    BY NewRequest
  <2>2. request[r].at = "idle"
    BY <1>3 DEF Preview
  <2>3. request' = [request EXCEPT ![r] = q] /\ UNCHANGED <<project, changes, rowLock, editor>>
    BY <1>3 DEF Preview
  <2> HIDE DEF q
  <2>1. Stands(q, project)
    BY <2>0, NewRequest DEF Stands, Is, Unseen
  <2> QED
    BY <2>1, <2>2, <2>3, RecordChanges
<1>4. CASE ShowPreview(r)
  <2> DEFINE m == MatchRows(request[r].file)
             q == [request[r] EXCEPT !.at = "shown", !.seen = m]
  <2>1. Is(q, "shown", request[r].user, request[r].file, m, request[r].match, request[r].picks,
           request[r].clock, request[r].aborted)
    BY <1>1, SetAtSeen
  <2>2. \A i \in DOMAIN request[r].file : m[i].status = "CHOICE" =>
          \E p \in Projects : Live(p) /\ m[i] = Found(p)
    BY Matched
  <2>3. ASSUME NEW i \in DOMAIN request[r].file, m[i].status = "CHOICE"
        PROVE  /\ Known(m[i].target, project) /\ m[i].rev = m[i].was
               /\ m[i].rev = project[m[i].target].rev
    <3>1. PICK p \in Projects : Live(p) /\ m[i] = Found(p)
      BY <2>2, <2>3
    <3>2. m[i].target = p /\ m[i].rev = project[p].rev /\ m[i].was = changes[p]
      BY <3>1 DEF Found
    <3> QED
      BY <3>1, <3>2 DEF Known, Live, SeenInv, RevisionCounts
  <2> HIDE DEF m
  <2>6. request[r].at = "parsing"
    BY <1>4 DEF ShowPreview
  <2>4. Stands(q, project)
    BY <1>1, <2>1, <2>3, <2>6 DEF Stands, Is, Unseen
  <2>5. request' = [request EXCEPT ![r] = q] /\ UNCHANGED <<project, changes, editor>>
        /\ rowLock' = [p \in Projects |-> IF rowLock[p] = r THEN Nobody ELSE rowLock[p]]
    BY <1>4 DEF ShowPreview, End, m
  <2> HIDE DEF q
  <2> QED
    BY <2>4, <2>5, RecordChanges
<1>5. CASE Leave(r)
  BY <1>2, <1>5, RecordChanges DEF Leave
<1>6. CASE Confirm(r)
  <2>1. PICK picks :
          /\ picks.overwrite \subseteq Offered(r)
          /\ request' = [request EXCEPT ![r] = [request[r] EXCEPT !.at = "resending", !.picks = picks]]
    <3>1. PICK overwrite \in SUBSET Offered(r), skip \in SUBSET DOMAIN request[r].file :
            request' = [request EXCEPT ![r].at = "resending",
                                       ![r].picks = [overwrite |-> overwrite, skip |-> skip]]
      BY <1>6 DEF Confirm
    <3>2. PICK picks : picks = [overwrite |-> overwrite, skip |-> skip]
      OBVIOUS
    <3>3. picks.overwrite \subseteq Offered(r)
      BY <3>2
    <3>4. request' = [request EXCEPT ![r].at = "resending", ![r].picks = picks]
      BY <3>1, <3>2
    <3>5. request' = [request EXCEPT ![r] = [request[r] EXCEPT !.at = "resending", !.picks = picks]]
      BY <3>4
    <3> QED
      BY <3>3, <3>5
  <2> DEFINE q == [request[r] EXCEPT !.at = "resending", !.picks = picks]
  <2>2. Is(q, "resending", request[r].user, request[r].file, request[r].seen,
           request[r].match, picks, request[r].clock, request[r].aborted)
    BY <1>1, SetAtPicks
  <2>3. request[r].at = "shown" /\ UNCHANGED <<project, changes, rowLock, editor>>
    BY <1>6 DEF Confirm
  <2>4. Stands(q, project)
    BY <1>1, <2>1, <2>2, <2>3 DEF Stands, Is, Offered, Unseen
  <2> HIDE DEF q
  <2> QED
    BY <2>1, <2>3, <2>4, RecordChanges DEF q
<1>7. CASE MatchAgain(r)
  <2> DEFINE q == [request[r] EXCEPT !.at = "checking", !.match = MatchRows(request[r].file)]
  <2>1. Is(q, "checking", request[r].user, request[r].file, request[r].seen,
           MatchRows(request[r].file), request[r].picks, request[r].clock, request[r].aborted)
    BY <1>1, SetAtMatch
  <2>2. request[r].at = "confirming" /\ request' = [request EXCEPT ![r] = q]
        /\ UNCHANGED <<project, changes, rowLock, editor>>
    BY <1>7 DEF MatchAgain
  <2>3. Stands(q, project)
    BY <1>1, <2>1, <2>2 DEF Stands, Is, Unseen
  <2> HIDE DEF q
  <2> QED
    BY <2>2, <2>3, RecordChanges
<1>8. ASSUME NEW at \in {"created", "updating"}, request[r].at \in {"checking", "created"},
             request' = [request EXCEPT ![r].at = at],
             UNCHANGED <<project, changes, rowLock, editor>>
      PROVE  SeenInv'
  <2> DEFINE q == [request[r] EXCEPT !.at = at]
  <2>1. Is(q, at, request[r].user, request[r].file, request[r].seen, request[r].match,
           request[r].picks, request[r].clock, request[r].aborted)
    BY <1>1, SetAt
  <2>2. Stands(q, project)
    BY <1>1, <1>8, <2>1 DEF Stands, Is, Unseen
  <2>3. request' = [request EXCEPT ![r] = q]
    BY <1>8
  <2> HIDE DEF q
  <2> QED
    BY <1>8, <2>2, <2>3, RecordChanges
<1>9. CASE CreateRows(r)
  BY <1>8, <1>9 DEF CreateRows
<1>10. CASE CheckTargets(r)
  BY <1>8, <1>10 DEF CheckTargets
<1>11. CASE Fail(r)
  BY <1>2, <1>11, RecordChanges DEF Fail, End
<1>12. ASSUME NEW q, Is(q, request[r].at, request[r].user, request[r].file, request[r].seen,
                        request[r].match, request[r].picks, q.clock, q.aborted),
              request' = [request EXCEPT ![r] = q],
              UNCHANGED <<project, changes, rowLock, editor>>
       PROVE  SeenInv'
  <2>1. Stands(q, project)
    BY <1>1, <1>12 DEF Stands, Is
  <2> QED
    BY <1>12, <2>1, RecordChanges DEF Is
<1>13. CASE Abort(r)
  <2>0. PICK aborted : request' = [request EXCEPT ![r].aborted = aborted]
    BY <1>13 DEF Abort
  <2> DEFINE q == [request[r] EXCEPT !.aborted = aborted]
  <2>1. Is(q, request[r].at, request[r].user, request[r].file, request[r].seen,
           request[r].match, request[r].picks, q.clock, q.aborted)
    <3>1. Is(q, request[r].at, request[r].user, request[r].file, request[r].seen,
             request[r].match, request[r].picks, request[r].clock, aborted)
      BY <1>1, SetAborted
    <3> QED
      BY <3>1 DEF Is
  <2>2. request' = [request EXCEPT ![r] = q] /\ UNCHANGED <<project, changes, rowLock, editor>>
    BY <1>13, <2>0 DEF Abort
  <2> HIDE DEF q
  <2> QED
    BY <1>12, <2>1, <2>2
<1>14. ASSUME NEW clock, request' = [request EXCEPT ![r].clock = clock],
              UNCHANGED <<project, changes, rowLock, editor>>
       PROVE  SeenInv'
  <2> DEFINE q == [request[r] EXCEPT !.clock = clock]
  <2>1. Is(q, request[r].at, request[r].user, request[r].file, request[r].seen,
           request[r].match, request[r].picks, q.clock, q.aborted)
    <3>1. Is(q, request[r].at, request[r].user, request[r].file, request[r].seen,
             request[r].match, request[r].picks, clock, request[r].aborted)
      BY <1>1, SetClock
    <3> QED
      BY <3>1 DEF Is
  <2>2. request' = [request EXCEPT ![r] = q]
    BY <1>14
  <2> HIDE DEF q
  <2> QED
    BY <1>12, <1>14, <2>1, <2>2
<1>15. CASE ClockStep(r)
  BY <1>13, <1>14, <1>15 DEF ClockStep, Overdue, Expire
<1>16. CASE StartHandler(r)
  <2>1. /\ request' = [request EXCEPT ![r].at = IF @ = "receiving" THEN "parsing" ELSE "confirming"]
        /\ request[r].at \in {"receiving", "resending"} /\ UNCHANGED <<project, changes, rowLock, editor>>
    BY <1>16 DEF StartHandler, Entering
  <2>2. PICK at : /\ at = IF request[r].at = "receiving" THEN "parsing" ELSE "confirming"
                  /\ request' = [request EXCEPT ![r].at = at]
    BY <2>1
  <2> DEFINE q == [request[r] EXCEPT !.at = at]
  <2>3. Is(q, at, request[r].user, request[r].file, request[r].seen, request[r].match,
           request[r].picks, request[r].clock, request[r].aborted)
    BY <1>1, SetAt
  <2>4. Stands(q, project)
    BY <1>1, <2>1, <2>2, <2>3 DEF Stands, Is, Unseen
  <2>5. request' = [request EXCEPT ![r] = q]
    BY <2>2
  <2> HIDE DEF q
  <2> QED
    BY <2>1, <2>4, <2>5, RecordChanges
<1> QED
  BY <1>3, <1>4, <1>5, <1>6, <1>7, <1>9, <1>10, <1>11, <1>15, <1>16

(* updateMany takes a row at the revision of the preview.                  *)
LEMMA TargetStep ==
  ASSUME SeenInv, NEW r \in Requests, NEW i \in DOMAIN request[r].file, UpdateTarget(r, i)
  PROVE  SeenInv'
<1>1. PICK R : rowLock \in [Projects -> R]
  BY DEF SeenInv, RowsTyped
<1>2. /\ rowLock' = [rowLock EXCEPT ![Target(r, i)] = r] /\ i \in ToOverwrite(r) /\ StillAt(r, i)
      /\ UNCHANGED <<project, changes, request, lock, editor>> /\ request[r].at = "updating"
  BY DEF UpdateTarget
<1>3. rowLock' \in [Projects -> R \cup {r}]
  BY <1>1, <1>2
<1>4. RequestsTyped' /\ RowsTyped' /\ RevisionCounts' /\ EditorsKnow'
      /\ \A s \in Requests : Stands(request'[s], project')
  BY <1>2, <1>3 DEF SeenInv, RequestsTyped, RowsTyped, RevisionCounts, EditorsKnow
<1>5. ASSUME NEW s \in Requests, NEW p \in Projects, rowLock'[p] = s
      PROVE  Locks(request[s], p, project)
  <2>1. CASE rowLock[p] = s
    BY <2>1 DEF SeenInv
  <2>2. CASE rowLock[p] # s
    <3>1. p = Target(r, i) /\ s = r
      BY <1>1, <1>2, <1>5, <2>2
    <3>2. i \in Overwritten(request[r])
      BY <1>2 DEF ToOverwrite, Overwritten
    <3> QED
      BY <1>2, <3>1, <3>2 DEF Locks, StillAt, Target
  <2> QED
    BY <2>1, <2>2
<1> QED
  BY <1>2, <1>4, <1>5 DEF SeenInv

(* A committing import raises its targets, each locked by it, and fills    *)
(* free rows.                                                              *)
LEMMA CommitStep ==
  ASSUME SeenInv, RequestsTyped', NEW r \in Requests, CommitImport(r)
  PROVE  SeenInv'
<1>1. PICK K : project \in [Projects -> [state : {"free", "live", "deleted"}, key : K, rev : Nat]]
  BY DEF SeenInv, RowsTyped
<1>2. PICK slots \in [NewKeys(r) -> Projects \ Taken] :
        project' = [p \in Projects |->
          IF p \in Targets(r) THEN [project[p] EXCEPT !.rev = @ + 1]
          ELSE IF \E k \in NewKeys(r) : slots[k] = p
                 THEN [state |-> "live", key |-> CHOOSE k \in NewKeys(r) : slots[k] = p, rev |-> 0]
                 ELSE project[p]]
  BY DEF CommitImport
<1>3. /\ \A p \in Targets(r) : rowLock[p] = r
      /\ changes' = [p \in Projects |-> IF p \in Targets(r) THEN changes[p] + 1 ELSE changes[p]]
      /\ request' = [request EXCEPT ![r] = NoRequest] /\ UNCHANGED editor
      /\ rowLock' = [p \in Projects |-> IF rowLock[p] = r THEN Nobody ELSE rowLock[p]]
  BY DEF CommitImport, End
<1>4. ASSUME NEW p \in Projects, p \in Targets(r)
      PROVE  /\ project'[p].state = project[p].state /\ project'[p].key = project[p].key
             /\ project'[p].rev = project[p].rev + 1 /\ changes'[p] = changes[p] + 1
             /\ project'[p] \in [state : {"free", "live", "deleted"}, key : K, rev : Nat]
  <2>1. project[p] \in [state : {"free", "live", "deleted"}, key : K, rev : Nat]
    BY <1>1
  <2>2. project'[p] = [project[p] EXCEPT !.rev = @ + 1]
    BY <1>2, <1>4
  <2> QED
    BY <1>3, <1>4, <2>1, <2>2
<1>5. ASSUME NEW p \in Projects, p \notin Targets(r), NEW k \in NewKeys(r), slots[k] = p
      PROVE  /\ project[p].state = "free" /\ project'[p].state = "live" /\ project'[p].rev = 0
             /\ project'[p].key \in NewKeys(r) /\ changes'[p] = changes[p]
             /\ project'[p] = [state |-> "live", key |-> project'[p].key, rev |-> 0]
  <2>1. p \notin Taken
    BY <1>5
  <2>2. project'[p] = [state |-> "live", key |-> CHOOSE l \in NewKeys(r) : slots[l] = p, rev |-> 0]
    BY <1>2, <1>5
  <2>3. (CHOOSE l \in NewKeys(r) : slots[l] = p) \in NewKeys(r)
    BY <1>5
  <2> QED
    BY <1>3, <1>5, <2>1, <2>2, <2>3 DEF Taken
<1>6. ASSUME NEW p \in Projects, p \notin Targets(r), \A k \in NewKeys(r) : slots[k] # p
      PROVE  project'[p] = project[p] /\ changes'[p] = changes[p]
  BY <1>2, <1>3, <1>6
<1>7. changes \in [Projects -> Nat]
  BY DEF SeenInv, RowsTyped
<1>8. RowsTyped'
  <2>1. \A p \in Projects :
          project'[p] \in [state : {"free", "live", "deleted"}, key : K \cup NewKeys(r), rev : Nat]
    <3> SUFFICES ASSUME NEW p \in Projects
                 PROVE  project'[p] \in [state : {"free", "live", "deleted"}, key : K \cup NewKeys(r), rev : Nat]
      OBVIOUS
    <3>1. CASE p \in Targets(r)
      <4>1. project'[p] \in [state : {"free", "live", "deleted"}, key : K, rev : Nat]
        BY <1>4, <3>1
      <4> QED
        BY <4>1
    <3>2. ASSUME p \notin Targets(r), NEW k \in NewKeys(r), slots[k] = p
          PROVE  project'[p] \in [state : {"free", "live", "deleted"}, key : K \cup NewKeys(r), rev : Nat]
      <4>1. PICK key \in NewKeys(r) : project'[p] = [state |-> "live", key |-> key, rev |-> 0]
        BY <1>5, <3>2
      <4> QED
        BY <4>1
    <3>3. CASE p \notin Targets(r) /\ \A k \in NewKeys(r) : slots[k] # p
      <4>1. project'[p] = project[p] /\ project[p] \in [state : {"free", "live", "deleted"}, key : K, rev : Nat]
        BY <1>1, <1>6, <3>3
      <4> QED
        BY <4>1
    <3> QED
      BY <3>1, <3>2, <3>3
  <2>2. project' \in [Projects -> [state : {"free", "live", "deleted"}, key : K \cup NewKeys(r), rev : Nat]]
    BY <1>2, <2>1
  <2>3. changes' \in [Projects -> Nat]
    BY <1>3, <1>7
  <2>4. (\E S : rowLock' \in [Projects -> S]) /\ \E S : editor' \in [Editors -> S]
    <3>1. PICK R : rowLock \in [Projects -> R]
      BY DEF SeenInv, RowsTyped
    <3>2. rowLock' \in [Projects -> R \cup {Nobody}]
      BY <1>3, <3>1
    <3> QED
      BY <1>3, <3>2 DEF SeenInv, RowsTyped
  <2> QED
    BY <2>2, <2>3, <2>4 DEF RowsTyped
<1>9. RevisionCounts'
  <2> SUFFICES ASSUME NEW p \in Projects
               PROVE  changes'[p] = project'[p].rev /\ (project'[p].state = "free" => project'[p].rev = 0)
    BY DEF RevisionCounts
  <2>1. changes[p] = project[p].rev /\ (project[p].state = "free" => project[p].rev = 0)
    BY DEF SeenInv, RevisionCounts
  <2>2. CASE p \in Targets(r)
    <3>1. project[p].state # "free"
      <4>1. Locks(request[r], p, project)
        BY <1>3, <2>2 DEF SeenInv
      <4>2. PICK j \in Overwritten(request[r]) : request[r].seen[j].target = p /\ request[r].at = "updating"
        BY <4>1 DEF Locks
      <4>3. Stands(request[r], project)
        BY DEF SeenInv
      <4> QED
        BY <4>2, <4>3 DEF Stands, Overwritten, Known, Unseen
    <3> QED
      BY <1>4, <2>1, <2>2, <3>1
  <2>3. ASSUME p \notin Targets(r), NEW k \in NewKeys(r), slots[k] = p
        PROVE  changes'[p] = project'[p].rev /\ project'[p].state # "free"
    BY <1>5, <2>1, <2>3
  <2>4. CASE p \notin Targets(r) /\ \A k \in NewKeys(r) : slots[k] # p
    BY <1>6, <2>1, <2>4
  <2> QED
    BY <2>2, <2>3, <2>4
<1>10. \A p \in Projects : Known(p, project) => Known(p, project')
  BY <1>4, <1>5, <1>6 DEF Known
<1>11. EditorsKnow'
  <2>1. \A p : Known(p, project) => Known(p, project')
    BY <1>10 DEF Known
  <2> QED
    BY <1>3, <2>1 DEF SeenInv, EditorsKnow
<1>12. ASSUME NEW s \in Requests PROVE request'[s] \in {request[s], NoRequest}
  <2>1. PICK S : request \in [Requests -> S]
    BY DEF SeenInv, RequestsTyped
  <2> QED
    BY <1>3, <2>1
<1>13. ASSUME NEW s \in Requests, NEW p \in Projects, rowLock'[p] = s
       PROVE  rowLock[p] = s /\ request'[s] = request[s] /\ project'[p].rev = project[p].rev
  <2>1. rowLock[p] = s /\ s # r
    BY <1>3, <1>13, FinProjectsAssumption DEF Nobody
  <2>2. request'[s] = request[s]
    <3>1. PICK S : request \in [Requests -> S]
      BY DEF SeenInv, RequestsTyped
    <3> QED
      BY <1>3, <2>1, <3>1
  <2>3. project[p].state # "free"
    <3>1. Locks(request[s], p, project) /\ Stands(request[s], project)
      BY <2>1 DEF SeenInv
    <3>2. PICK j \in Overwritten(request[s]) : request[s].seen[j].target = p /\ request[s].at = "updating"
      BY <3>1 DEF Locks
    <3> QED
      BY <3>1, <3>2 DEF Stands, Overwritten, Known, Unseen
  <2>4. p \notin Targets(r)
    BY <1>3, <2>1
  <2> QED
    BY <1>5, <1>6, <2>1, <2>2, <2>3, <2>4
<1> QED
  BY <1>8, <1>9, <1>10, <1>11, <1>12, <1>13, RowsChange

(* The write of another handler, to a row that no import holds.            *)
LEMMA WriteStep ==
  ASSUME SeenInv, NEW e \in Editors, editor[e].op # "none", rowLock[editor[e].on] = Nobody,
         NEW row, project' = [project EXCEPT ![editor[e].on] = row],
         \E K : row \in [state : {"live", "deleted"}, key : K, rev : Nat],
         \/ row.rev = project[editor[e].on].rev /\ UNCHANGED changes
         \/ /\ row.rev = project[editor[e].on].rev + 1
            /\ changes' = [changes EXCEPT ![editor[e].on] = @ + 1],
         Written(e)
  PROVE  SeenInv'
<1> DEFINE p == editor[e].on
<1>1. p \in Projects /\ project[p].state # "free"
  BY DEF SeenInv, EditorsKnow, Known
<1>2. PICK K : row \in [state : {"live", "deleted"}, key : K, rev : Nat]
  OBVIOUS
<1>3. PICK L : project \in [Projects -> [state : {"free", "live", "deleted"}, key : L, rev : Nat]]
  BY DEF SeenInv, RowsTyped
<1>4. /\ project'[p] = row /\ row.state # "free"
      /\ \A x \in Projects \ {p} : project'[x] = project[x]
  BY <1>1, <1>2, <1>3
<1>5. changes \in [Projects -> Nat]
  BY DEF SeenInv, RowsTyped
<1>6. /\ UNCHANGED <<request, lock, rowLock>>
      /\ editor' = [editor EXCEPT ![e] = [op |-> "none", on |-> Nobody]]
  BY DEF Written
<1> HIDE DEF p
<1>7. RowsTyped'
  <2>1. \A x \in Projects :
          project'[x] \in [state : {"free", "live", "deleted"}, key : K \cup L, rev : Nat]
    <3>1. row \in [state : {"free", "live", "deleted"}, key : K \cup L, rev : Nat]
      BY <1>2
    <3>2. \A x \in Projects :
            project[x] \in [state : {"free", "live", "deleted"}, key : K \cup L, rev : Nat]
      BY <1>3
    <3> QED
      BY <1>4, <3>1, <3>2
  <2>2. project' \in [Projects -> [state : {"free", "live", "deleted"}, key : K \cup L, rev : Nat]]
    BY <1>3, <2>1
  <2>3. changes' \in [Projects -> Nat]
    BY <1>5
  <2>4. \E S : editor' \in [Editors -> S]
    <3>1. PICK S : editor \in [Editors -> S]
      BY DEF SeenInv, RowsTyped
    <3>2. editor' \in [Editors -> S \cup {[op |-> "none", on |-> Nobody]}]
      BY <1>6, <3>1
    <3> QED
      BY <3>2
  <2> QED
    BY <1>6, <2>2, <2>3, <2>4 DEF SeenInv, RowsTyped
<1>8. RevisionCounts'
  <2>1. \A x \in Projects : changes[x] = project[x].rev
                            /\ (project[x].state = "free" => project[x].rev = 0)
    BY DEF SeenInv, RevisionCounts
  <2>2. \A x \in Projects \ {p} : changes'[x] = changes[x]
    BY <1>5 DEF p
  <2>3. changes'[p] = row.rev
    BY <1>1, <1>5, <2>1 DEF p
  <2> QED
    BY <1>4, <2>1, <2>2, <2>3 DEF RevisionCounts
<1>9. \A x : Known(x, project) => Known(x, project')
  BY <1>4 DEF Known
<1>10. EditorsKnow'
  <2>1. PICK S : editor \in [Editors -> S]
    BY DEF SeenInv, RowsTyped
  <2> QED
    BY <1>6, <1>9, <2>1 DEF SeenInv, EditorsKnow
<1>11. RequestsTyped'
  BY <1>6 DEF SeenInv, RequestsTyped
<1>12. ASSUME NEW s \in Requests, NEW x \in Projects, rowLock'[x] = s
       PROVE  rowLock[x] = s /\ project'[x].rev = project[x].rev
  BY <1>4, <1>6, <1>12, FinProjectsAssumption DEF p, Nobody
<1> QED
  BY <1>6, <1>7, <1>8, <1>9, <1>10, <1>11, <1>12, RowsChange

(* A project with another key or state and the next data revision.         *)
Row(state, key, rev) == [state |-> state, key |-> key, rev |-> rev]

LEMMA RowSets ==
  \A s, k, n, x : /\ [Row(s, k, n) EXCEPT !.state = x] = Row(x, k, n)
                  /\ [Row(s, k, n) EXCEPT !.key = x] = Row(s, x, n)
                  /\ [Row(s, k, n) EXCEPT !.rev = x] = Row(s, k, x)
                  /\ Row(s, k, n).rev = n
<1> TAKE s, k, n, x
<1>1. PICK q : q = Row(s, k, n)
  OBVIOUS
<1>2. /\ [q EXCEPT !.state = x] = Row(x, k, n) /\ [q EXCEPT !.key = x] = Row(s, x, n)
      /\ [q EXCEPT !.rev = x] = Row(s, k, x) /\ q.rev = n
  BY <1>1 DEF Row
<1> QED
  BY <1>1, <1>2

LEMMA RowRaised ==
  ASSUME NEW q, NEW x, q = Row(q.state, q.key, q.rev)
  PROVE  /\ [q EXCEPT !.key = x, !.rev = @ + 1] = Row(q.state, x, q.rev + 1)
         /\ [q EXCEPT !.state = x, !.rev = @ + 1] = Row(x, q.key, q.rev + 1)
<1>1. PICK y : y = [q EXCEPT !.key = x]
  OBVIOUS
<1>2. y = Row(q.state, x, q.rev)
  <2>1. PICK s, k, n : s = q.state /\ k = q.key /\ n = q.rev /\ q = Row(s, k, n)
    OBVIOUS
  <2> QED
    BY <1>1, <2>1, RowSets
<1>3. PICK z : z = [q EXCEPT !.state = x]
  OBVIOUS
<1>4. z = Row(x, q.key, q.rev)
  <2>1. PICK s, k, n : s = q.state /\ k = q.key /\ n = q.rev /\ q = Row(s, k, n)
    OBVIOUS
  <2> QED
    BY <1>3, <2>1, RowSets
<1>5. y.rev = q.rev /\ z.rev = q.rev
  BY <1>2, <1>4, RowSets
<1>6. /\ [y EXCEPT !.rev = @ + 1] = [y EXCEPT !.rev = q.rev + 1]
      /\ [z EXCEPT !.rev = @ + 1] = [z EXCEPT !.rev = q.rev + 1]
  BY <1>5
<1>7. /\ [q EXCEPT !.key = x, !.rev = @ + 1] = [y EXCEPT !.rev = @ + 1]
      /\ [q EXCEPT !.state = x, !.rev = @ + 1] = [z EXCEPT !.rev = @ + 1]
  BY <1>1, <1>3
<1> QED
  BY <1>2, <1>4, <1>6, <1>7, RowSets

(* The reads and writes of the other handlers.                             *)
LEMMA EditSteps ==
  ASSUME SeenInv, NEW e \in Editors, EditStep(e)
  PROVE  SeenInv'
<1>1. PICK K : project \in [Projects -> [state : {"free", "live", "deleted"}, key : K, rev : Nat]]
  BY DEF SeenInv, RowsTyped
<1>2. ASSUME NEW op, NEW p \in Projects, project[p].state # "free", Reading(e, op, p) PROVE SeenInv'
  <2>1. PICK S : editor \in [Editors -> S]
    BY DEF SeenInv, RowsTyped
  <2>2. editor' = [editor EXCEPT ![e] = [op |-> op, on |-> p]]
        /\ UNCHANGED <<project, changes, request, lock, rowLock>>
    BY <1>2 DEF Reading
  <2>3. editor' \in [Editors -> S \cup {[op |-> op, on |-> p]}]
    BY <2>1, <2>2
  <2>4. RowsTyped' /\ RequestsTyped' /\ RevisionCounts'
    BY <2>2, <2>3 DEF SeenInv, RowsTyped, RequestsTyped, RevisionCounts
  <2>5. EditorsKnow'
    BY <1>2, <2>1, <2>2 DEF SeenInv, EditorsKnow, Known
  <2> QED
    BY <2>2, <2>4, <2>5, RowsChange
<1>3. ASSUME NEW op, op # "none", Writing(e, op), NEW key, Change(editor[e].on, key), Written(e),
             project[editor[e].on].state # "free", editor[e].on \in Projects
      PROVE  SeenInv'
  <2> DEFINE p == editor[e].on
             row == [project[p] EXCEPT !.key = key, !.rev = @ + 1]
  <2>1. project[p] \in [state : {"free", "live", "deleted"}, key : K, rev : Nat]
    BY <1>1, <1>3
  <2>2. row \in [state : {"live", "deleted"}, key : K \cup {key}, rev : Nat] /\ row.rev = project[p].rev + 1
    <3>1. project[p] = Row(project[p].state, project[p].key, project[p].rev)
      BY <2>1 DEF Row
    <3>2. row = Row(project[p].state, key, project[p].rev + 1)
      BY <3>1, RowRaised
    <3> HIDE DEF row
    <3> QED
      BY <1>3, <2>1, <3>2 DEF Row
  <2>3. project' = [project EXCEPT ![p] = row] /\ changes' = [changes EXCEPT ![p] = @ + 1]
    BY <1>3 DEF Change
  <2> HIDE DEF row
  <2> QED
    BY <1>3, <2>2, <2>3, WriteStep DEF Writing
<1>4. editor[e].op # "none" => editor[e].on \in Projects /\ project[editor[e].on].state # "free"
  BY DEF SeenInv, EditorsKnow, Known
<1>5. ASSUME NEW key, CommitUpdate(e, key) \/ CommitCell(e, key) PROVE SeenInv'
  BY <1>3, <1>4, <1>5 DEF CommitUpdate, CommitCell, Writing
<1>6. CASE CommitDetail(e)
  BY <1>3, <1>4, <1>6 DEF CommitDetail, Writing
<1>7. CASE CommitDelete(e)
  <2> DEFINE p == editor[e].on
             row == [project[p] EXCEPT !.state = "deleted"]
  <2>1. project[p] \in [state : {"free", "live", "deleted"}, key : K, rev : Nat]
    BY <1>1, <1>4, <1>7 DEF CommitDelete, Writing
  <2>2. row \in [state : {"live", "deleted"}, key : K, rev : Nat] /\ row.rev = project[p].rev
    BY <2>1
  <2>3. project' = [project EXCEPT ![p] = row] /\ UNCHANGED changes /\ Written(e)
    BY <1>7 DEF CommitDelete
  <2> HIDE DEF row
  <2> QED
    BY <1>7, <2>2, <2>3, WriteStep DEF CommitDelete, Writing
<1>8. CASE CommitRestore(e)
  <2> DEFINE p == editor[e].on
             row == [project[p] EXCEPT !.state = "live", !.rev = @ + 1]
  <2>1. project[p] \in [state : {"free", "live", "deleted"}, key : K, rev : Nat]
    BY <1>1, <1>4, <1>8 DEF CommitRestore, Writing
  <2>2. row \in [state : {"live", "deleted"}, key : K, rev : Nat] /\ row.rev = project[p].rev + 1
    <3>1. project[p] = Row(project[p].state, project[p].key, project[p].rev)
      BY <2>1 DEF Row
    <3>2. row = Row("live", project[p].key, project[p].rev + 1)
      BY <3>1, RowRaised
    <3> HIDE DEF row
    <3> QED
      BY <2>1, <3>2 DEF Row
  <2>3. project' = [project EXCEPT ![p] = row] /\ changes' = [changes EXCEPT ![p] = @ + 1] /\ Written(e)
    BY <1>8 DEF CommitRestore
  <2> HIDE DEF row
  <2> QED
    BY <1>8, <2>2, <2>3, WriteStep DEF CommitRestore, Writing
<1>9. ASSUME NEW p \in Projects,
             UpdateProject(e, p) \/ CellSave(e, p) \/ RunDetailChange(e, p)
             \/ BatchDelete(e, p) \/ BatchRestore(e, p)
      PROVE  SeenInv'
  BY <1>2, <1>9 DEF UpdateProject, CellSave, RunDetailChange, BatchDelete, BatchRestore, Live
<1> QED
  BY <1>5, <1>6, <1>7, <1>8, <1>9 DEF EditStep

(* A project made by hand fills a free row, which nobody has locked.       *)
LEMMA CreateStep ==
  ASSUME SeenInv, NEW p \in Projects, NEW key, CreateProject(p, key)
  PROVE  SeenInv'
<1>1. PICK K : project \in [Projects -> [state : {"free", "live", "deleted"}, key : K, rev : Nat]]
  BY DEF SeenInv, RowsTyped
<1>2. /\ project' = [project EXCEPT ![p] = [state |-> "live", key |-> key, rev |-> 0]]
      /\ project[p].state = "free"
      /\ UNCHANGED <<changes, request, lock, rowLock, editor>>
  BY DEF CreateProject
<1>3. project' \in [Projects -> [state : {"free", "live", "deleted"}, key : K \cup {key}, rev : Nat]]
  <2>1. \A x \in Projects :
          project[x] \in [state : {"free", "live", "deleted"}, key : K \cup {key}, rev : Nat]
    BY <1>1
  <2>2. [state |-> "live", key |-> key, rev |-> 0]
          \in [state : {"free", "live", "deleted"}, key : K \cup {key}, rev : Nat]
    OBVIOUS
  <2> QED
    BY <1>1, <1>2, <2>1, <2>2
<1>4. /\ project'[p].state = "live" /\ project'[p].rev = 0
      /\ \A x \in Projects \ {p} : project'[x] = project[x]
  BY <1>1, <1>2
<1>5. project[p].rev = 0
  BY <1>2 DEF SeenInv, RevisionCounts
<1>6. RowsTyped' /\ RequestsTyped'
  BY <1>2, <1>3 DEF SeenInv, RowsTyped, RequestsTyped
<1>7. RevisionCounts'
  BY <1>2, <1>4, <1>5 DEF SeenInv, RevisionCounts
<1>8. \A x : Known(x, project) => Known(x, project')
  BY <1>4 DEF Known
<1>9. EditorsKnow'
  BY <1>2, <1>8 DEF SeenInv, EditorsKnow
<1>10. \A x \in Projects : project'[x].rev = project[x].rev
  BY <1>4, <1>5
<1> QED
  BY <1>2, <1>6, <1>7, <1>8, <1>9, <1>10, RowsChange

(* OverwritesWhatWasSeen for any projects, files, requests and editors: a  *)
(* row of a committing import is locked by it at the revision that its     *)
(* preview read, and the revision counts the changes.                      *)
THEOREM AlwaysOverwritesWhatWasSeen == FinSpec => OverwritesWhatWasSeen
<1>1. FinInit => LockInv /\ SeenInv
  <2> SUFFICES ASSUME FinInit PROVE LockInv /\ SeenInv
    OBVIOUS
  <2>1. IsRequest(NoRequest) /\ NoRequest.at = "idle" /\ Stands(NoRequest, project)
    BY NewRequest DEF Is, Stands, Unseen
  <2>2. request \in [Requests -> {NoRequest}] /\ lock \in [Users -> {Nobody}]
    BY DEF FinInit
  <2>3. LockInv /\ \A r \in Requests : Stands(request[r], project)
    BY <2>1, <2>2 DEF LockInv, RequestsTyped, TokenHeld, Owns
  <2>4. /\ project \in [Projects -> [state : {"free", "live", "deleted"}, key : Keys, rev : {0}]]
        /\ changes = [p \in Projects |-> 0] /\ rowLock = [p \in Projects |-> Nobody]
        /\ editor = [e \in Editors |-> [op |-> "none", on |-> Nobody]]
    BY DEF FinInit
  <2>5. project \in [Projects -> [state : {"free", "live", "deleted"}, key : Keys, rev : Nat]]
    BY <2>4
  <2>6. changes \in [Projects -> Nat] /\ rowLock \in [Projects -> {Nobody}]
        /\ editor \in [Editors -> {[op |-> "none", on |-> Nobody]}]
    BY <2>4
  <2>7. RowsTyped /\ RevisionCounts /\ EditorsKnow
    BY <2>4, <2>5, <2>6 DEF RowsTyped, RevisionCounts, EditorsKnow
  <2>8. \A r \in Requests, p \in Projects : rowLock[p] # r
    BY <2>4, FinProjectsAssumption DEF Nobody
  <2> QED
    BY <2>3, <2>7, <2>8 DEF SeenInv, LockInv
<1>2. ASSUME LockInv, SeenInv, [FinNext]_finVars PROVE LockInv' /\ SeenInv'
  <2>1. ASSUME NEW r \in Requests, ImportStep(r) \/ ClockStep(r) PROVE LockInv' /\ SeenInv'
    <3>1. LockInv' /\ RequestsTyped'
      BY <1>2, <2>1, LockSteps DEF LockInv
    <3> QED
      BY <1>2, <2>1, <3>1, RequestSteps, TargetStep, CommitStep DEF ImportStep
  <2>2. ASSUME UNCHANGED <<request, lock>> PROVE LockInv'
    BY <1>2, <2>2 DEF LockInv, RequestsTyped, TokenHeld
  <2>3. ASSUME NEW e \in Editors, EditStep(e) PROVE LockInv' /\ SeenInv'
    <3>1. UNCHANGED <<request, lock>>
      BY <2>3 DEF EditStep, UpdateProject, CellSave, RunDetailChange, BatchDelete, BatchRestore, Reading,
                  CommitUpdate, CommitCell, CommitDetail, CommitDelete, CommitRestore, Written
    <3> QED
      BY <1>2, <2>2, <2>3, <3>1, EditSteps
  <2>4. ASSUME NEW p \in Projects, NEW k \in Keys, CreateProject(p, k) PROVE LockInv' /\ SeenInv'
    <3>1. UNCHANGED <<request, lock>>
      BY <2>4 DEF CreateProject
    <3> QED
      BY <1>2, <2>2, <2>4, <3>1, CreateStep
  <2>5. CASE UNCHANGED finVars
    <3>1. LockInv'
      BY <2>2, <2>5 DEF finVars
    <3>2. SeenInv'
      BY <1>2, <2>5 DEF finVars, SeenInv, RequestsTyped, RowsTyped, RevisionCounts, EditorsKnow
    <3> QED
      BY <3>1, <3>2
  <2> QED
    BY <1>2, <2>1, <2>3, <2>4, <2>5 DEF FinNext
<1>3. ASSUME SeenInv, [FinNext]_finVars, NEW r \in Requests, Commits(r), NEW i \in ToOverwrite(r)
      PROVE  changes[Target(r, i)] = request[r].seen[i].was
  <2>1. CommitImport(r)
    <3>1. ASSUME NEW s \in Requests, ImportStep(s) \/ ClockStep(s) PROVE CommitImport(r)
      <4>1. PICK S : request \in [Requests -> S]
        BY <1>3 DEF SeenInv, RequestsTyped
      <4>2. CommitImport(s)
        BY <1>3, <3>1 DEF Commits, ImportStep, ClockStep, Preview, StartHandler, ShowPreview, Leave, Confirm,
             MatchAgain, CreateRows, CheckTargets, UpdateTarget, Fail, Abort, Overdue, Expire
      <4>3. s = r
        BY <1>3, <4>1, <4>2 DEF Commits, CommitImport, End
      <4> QED
        BY <4>2, <4>3
    <3>2. ASSUME UNCHANGED request PROVE FALSE
      BY <1>3, <3>2 DEF Commits
    <3>3. ASSUME NEW e \in Editors, EditStep(e) PROVE UNCHANGED request
      BY <3>3 DEF EditStep, UpdateProject, CellSave, RunDetailChange, BatchDelete, BatchRestore, Reading,
                  CommitUpdate, CommitCell, CommitDetail, CommitDelete, CommitRestore, Written
    <3>4. ASSUME NEW p \in Projects, NEW k \in Keys, CreateProject(p, k) PROVE UNCHANGED request
      BY <3>4 DEF CreateProject
    <3>5. CASE UNCHANGED finVars
      BY <3>2, <3>5 DEF finVars
    <3> QED
      BY <1>3, <3>1, <3>2, <3>3, <3>4, <3>5 DEF FinNext
  <2> DEFINE q == request[r]
             p == Target(r, i)
  <2>2. rowLock[p] = r
    BY <1>3, <2>1 DEF CommitImport, Targets
  <2>3. Stands(q, project) /\ i \in q.picks.overwrite /\ q.at = "updating" /\ q.seen[i].target = p
    BY <1>3 DEF SeenInv, ToOverwrite, Target, Commits
  <2>4. Known(p, project) /\ q.seen[i].rev = q.seen[i].was
    BY <2>3 DEF Stands
  <2>5. Locks(q, p, project)
    BY <1>3, <2>2, <2>4 DEF SeenInv, Known
  <2>6. PICK j \in Overwritten(q) : q.seen[j].target = p /\ project[p].rev = q.seen[j].rev
    BY <2>5 DEF Locks
  <2>7. q.seen[j].rev = q.seen[i].rev
    BY <2>3, <2>6 DEF Stands, Overwritten
  <2>8. changes[p] = project[p].rev
    BY <1>3, <2>4 DEF SeenInv, RevisionCounts, Known
  <2> QED
    BY <2>4, <2>6, <2>7, <2>8
<1>4. LockInv /\ SeenInv /\ [FinNext]_finVars
      => [\A r \in Requests : Commits(r) =>
            \A i \in ToOverwrite(r) : changes[Target(r, i)] = request[r].seen[i].was]_finVars
  BY <1>3
<1> QED
  BY <1>1, <1>2, <1>4, PTL DEF FinSpec, OverwritesWhatWasSeen

-----------------------------------------------------------------------------
(* The worker pool.  A thread works on, or has posted the result of, the   *)
(* task its worker is waiting for, unless that was given up; a worker that *)
(* may be given a task has nothing under way.                              *)
Workers ==
  [busy : BOOLEAN, terminating : BOOLEAN, task : Tasks \cup {NoTask}, runs : Tasks \cup {NoTask},
   posted : Tasks \cup {NoTask}]

Fits(o) ==
  /\ o \in Workers
  /\ o.posted # NoTask => o.runs = NoTask /\ o.task \in {NoTask, o.posted}
  /\ o.runs # NoTask => o.task \in {NoTask, o.runs}
  /\ ~o.busy /\ ~o.terminating => o.runs = NoTask /\ o.posted = NoTask

PoolInv ==
  /\ queue \in Seq(Tasks)
  /\ worker = [w \in Places |-> worker[w]] /\ \A w \in Places : Fits(worker[w])
  /\ outcome = [t \in Tasks |-> outcome[t]]
  /\ AnswersItself

LEMMA LesserOfTwo ==
  ASSUME NEW a \in Nat, NEW b \in Nat
  PROVE  Min({a, b}) \in Nat /\ Min({a, b}) <= a /\ Min({a, b}) <= b
BY DEF Min

(* Handing out queued tasks to workers that have nothing under way.        *)
LEMMA DispatchFits ==
  ASSUME NEW ws, NEW q \in Seq(Tasks), \A w \in Places : Fits(ws[w]), Dispatch(ws, q)
  PROVE  /\ queue' \in Seq(Tasks)
         /\ worker' = [w \in Places |-> worker'[w]] /\ \A w \in Places : Fits(worker'[w])
<1> DEFINE free == Idle(ws)
           turn(w) == Cardinality({v \in free : v <= w})
           n == IF stopped THEN 0 ELSE Min({Cardinality(free), Len(q)})
<1>1. IsFiniteSet(free)
  <2>1. IsFiniteSet(Places)
    BY XlsxPoolAssumption, FS_Interval DEF Places
  <2>2. free \subseteq Places
    BY DEF Idle
  <2> QED
    BY <2>1, <2>2, FS_Subset
<1>2. Len(q) \in Nat /\ Cardinality(free) \in Nat
  BY <1>1, FS_CardinalityType
<1>3. n \in Nat /\ n <= Len(q)
  BY <1>2, LesserOfTwo
<1>4. ASSUME NEW w \in free
      PROVE  turn(w) \in Nat \ {0}
  <2>1. {v \in free : v <= w} \subseteq free /\ w \in {v \in free : v <= w}
    BY <1>4 DEF Idle, Places
  <2>2. IsFiniteSet({v \in free : v <= w})
    BY <1>1, <2>1, FS_Subset
  <2> QED
    BY <2>1, <2>2, FS_CardinalityType, FS_EmptySet
<1>5. /\ worker' = [w \in Places |->
           IF w \in free /\ turn(w) <= n
             THEN [ws[w] EXCEPT !.busy = TRUE, !.task = q[turn(w)], !.runs = q[turn(w)]]
             ELSE ws[w]]
      /\ queue' = SubSeq(q, n + 1, Len(q))
  BY DEF Dispatch
<1> HIDE DEF n, turn, free
<1>6. queue' \in Seq(Tasks)
  <2>1. n + 1 \in 1 .. Len(q) + 1 /\ Len(q) \in (n + 1) - 1 .. Len(q)
    BY <1>2, <1>3
  <2>2. SubSeq(q, n + 1, Len(q)) \in Seq(Tasks)
    BY <2>1, SubSeqProperties
  <2> QED
    BY <1>5, <2>2
<1>7. ASSUME NEW w \in Places
      PROVE  Fits(worker'[w])
  <2>1. CASE w \in free /\ turn(w) <= n
    <3>1. turn(w) \in 1 .. Len(q)
      BY <1>2, <1>3, <1>4, <2>1
    <3>2. PICK t \in Tasks : t = q[turn(w)]
      BY <3>1
    <3>3. worker'[w] = [ws[w] EXCEPT !.busy = TRUE, !.task = t, !.runs = t]
      BY <1>5, <2>1, <3>2
    <3>4. ws[w].posted = NoTask
      BY <2>1 DEF free, Idle, Fits
    <3>5. t # NoTask
      BY XlsxPoolAssumption
    <3> QED
      BY <3>3, <3>4, <3>5 DEF Fits, Workers
  <2>2. CASE ~(w \in free /\ turn(w) <= n)
    BY <1>5, <2>2
  <2> QED
    BY <2>1, <2>2
<1> QED
  BY <1>5, <1>6, <1>7

(* A worker that has just been spawned.                                    *)
LEMMA NewFits == Fits(NewWorker)
BY DEF Fits, Workers, NewWorker

LEMMA PoolStep ==
  ASSUME PoolInv, [PoolNext]_poolVars
  PROVE  PoolInv'
<1> USE XlsxPoolAssumption DEF PoolInv, AnswersItself
<1>1. ASSUME NEW t \in Tasks, Run(t) PROVE PoolInv'
  <2>1. Append(queue, t) \in Seq(Tasks)
    OBVIOUS
  <2> QED
    BY <1>1, <2>1, DispatchFits DEF Run
<1>2. ASSUME NEW t \in Tasks, AbortQueued(t) PROVE PoolInv'
  <2>1. PICK i \in DOMAIN queue : queue' = RemoveAt(queue, i)
    BY <1>2 DEF AbortQueued
  <2>2. queue' \in Seq(Tasks)
    BY <2>1 DEF RemoveAt
  <2> QED
    BY <1>2, <2>2 DEF AbortQueued
<1>3. ASSUME NEW t \in Tasks, AbortRunning(t) PROVE PoolInv'
  <2>1. \A w \in Places : worker'[w] = IF worker[w].task = t
          THEN [worker[w] EXCEPT !.task = NoTask, !.busy = FALSE, !.terminating = TRUE] ELSE worker[w]
    BY <1>3 DEF AbortRunning
  <2>2. ASSUME NEW w \in Places PROVE Fits(worker'[w])
    <3>1. CASE worker[w].task = t
      <4>1. PICK o \in Workers : o = worker[w]
        BY DEF Fits
      <4>2. PICK z : z = [o EXCEPT !.task = NoTask, !.busy = FALSE, !.terminating = TRUE]
        OBVIOUS
      <4>3. /\ z \in Workers /\ z.task = NoTask /\ z.terminating
            /\ z.posted = o.posted /\ z.runs = o.runs
        BY <4>1, <4>2 DEF Workers
      <4> QED
        BY <2>1, <3>1, <4>1, <4>2, <4>3 DEF Fits
    <3>2. CASE worker[w].task # t
      BY <2>1, <3>2
    <3> QED
      BY <3>1, <3>2
  <2> QED
    BY <1>3, <2>2 DEF AbortRunning
<1>4. ASSUME NEW w \in Places, Post(w) PROVE PoolInv'
  <2>1. /\ worker'[w] = [worker[w] EXCEPT !.runs = NoTask, !.posted = worker[w].runs]
        /\ \A v \in Places \ {w} : worker'[v] = worker[v]
    BY <1>4 DEF Post
  <2>2. Fits(worker'[w])
    BY <1>4, <2>1 DEF Post, Fits, Workers
  <2> QED
    BY <1>4, <2>1, <2>2 DEF Post
<1>5. ASSUME NEW w \in Places, Receive(w) PROVE PoolInv'
  <2> DEFINE ws == [worker EXCEPT ![w].posted = NoTask, ![w].task = NoTask, ![w].busy = FALSE]
  <2>1. /\ ws[w] = [worker[w] EXCEPT !.posted = NoTask, !.task = NoTask, !.busy = FALSE]
        /\ \A v \in Places \ {w} : ws[v] = worker[v]
    OBVIOUS
  <2>2. Fits(ws[w])
    BY <1>5, <2>1 DEF Receive, Fits, Workers
  <2>3. worker[w].task # NoTask => worker[w].task = worker[w].posted /\ worker[w].task \in Tasks
    BY <1>5 DEF Receive, Fits, Workers
  <2>4. outcome' = [u \in Tasks |-> outcome'[u]] /\ AnswersItself'
    BY <1>5, <2>3 DEF Receive
  <2> QED
    BY <1>5, <2>1, <2>2, <2>4, DispatchFits DEF Receive
<1>6. ASSUME NEW w \in Places, Die(w) PROVE PoolInv'
  <2>1. \A v \in Places : Fits([worker EXCEPT ![w] = NewWorker][v])
    BY NewFits
  <2> QED
    BY <1>6, <2>1, DispatchFits DEF Die
<1>7. ASSUME NEW w \in Places, Replace(w) PROVE PoolInv'
  <2>1. \A v \in Places : Fits([worker EXCEPT ![w] = NewWorker][v])
    BY NewFits
  <2> QED
    BY <1>7, <2>1, DispatchFits DEF Replace
<1>8. CASE Stop
  <2>1. \A w \in Places : Fits(worker'[w])
    BY <1>8 DEF Stop, Fits, Workers
  <2> QED
    BY <1>8, <2>1 DEF Stop
<1>9. CASE UNCHANGED poolVars
  BY <1>9 DEF poolVars
<1> QED
  BY <1>1, <1>2, <1>3, <1>4, <1>5, <1>6, <1>7, <1>8, <1>9 DEF PoolNext, PlaceStep

(* A caller gets the result of its own task or none, although messages of  *)
(* threads that were given up may still arrive.                            *)
THEOREM AlwaysAnswersItself == PoolSpec => []AnswersItself
<1>1. PoolInit => PoolInv
  BY NewFits DEF PoolInit, PoolInv, AnswersItself
<1>2. PoolInv /\ [PoolNext]_poolVars => PoolInv'
  BY PoolStep
<1>3. PoolInv => AnswersItself
  BY DEF PoolInv
<1> QED
  BY <1>1, <1>2, <1>3, PTL DEF PoolSpec
=============================================================================
