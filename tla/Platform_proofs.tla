--------------------------- MODULE Platform_proofs ---------------------------
(***************************************************************************)
(* platform-core for any number of users, requests, sessions, processes    *)
(* and functions: what the session guard accepts, which failure counters   *)
(* live, which saves of grants pass, what a cached authorization context   *)
(* says, and how the last super administrator can be lost.                 *)
(***************************************************************************)
EXTENDS Sessions, Authority, FiniteSetTheorems, TLAPS

-----------------------------------------------------------------------------
(* Requests.                                                               *)

(* A request is a record: it keeps its fields when one of them is set.     *)
Record(q) == q = [x \in DOMAIN q |-> q[x]]
Fields == {"pc", "user", "cookie", "sid", "sv", "iat", "since", "markSince", "keys", "ips", "count"}
IsRequest(q) == q = Idle \/ (Record(q) /\ DOMAIN q = Fields)

Same(q, z) ==
  /\ q.user = z.user /\ q.cookie = z.cookie /\ q.since = z.since /\ q.markSince = z.markSince
  /\ DOMAIN z = Fields /\ Record(z)

LEMMA NewRequests ==
  /\ Idle.pc = "idle"
  /\ \A pc, u, keys :
       /\ Record(Request(pc, u, keys)) /\ DOMAIN Request(pc, u, keys) = Fields
       /\ Request(pc, u, keys).pc = pc /\ Request(pc, u, keys).user = u
       /\ Request(pc, u, keys).keys = keys
  BY DEF Idle, Record, Fields, Request

LEMMA NewVisit ==
  ASSUME NEW s, NEW q, q = Visit(s)
  PROVE  /\ Record(q) /\ DOMAIN q = Fields /\ q.pc = "load" /\ q.user = sess[s].user
         /\ q.cookie = s /\ q.sid = s /\ q.sv = sess[s].sv /\ q.iat = sess[s].iat
         /\ q.since = sv[sess[s].user] /\ q.markSince = mark[sess[s].user]
  BY DEF Record, Fields, Visit

LEMMA SetPc ==
  ASSUME NEW q, Record(q), DOMAIN q = Fields, NEW x, NEW z, z = [q EXCEPT !.pc = x]
  PROVE  Same(q, z) /\ z.pc = x /\ z.sid = q.sid /\ z.sv = q.sv /\ z.iat = q.iat
         /\ z.keys = q.keys /\ z.count = q.count
  BY DEF Record, Fields, Same

-----------------------------------------------------------------------------
(* Sessions.                                                               *)

GuardPcs == {"load", "rotate", "delete", "touch", "handler", "change"}
Dead(s) == sess[s] = NoSession

(* What a request in the guard knows: "since" and "markSince" were read    *)
(* from its user's row, which only goes up; from the loader on, its own    *)
(* version is no older; a cookie that was given up is dead.                *)
Fine(q) ==
  /\ IsRequest(q)
  /\ q.pc # "idle" => q.user \in Users
  /\ q.pc = "set" => q.sv \in Nat
  /\ q.pc \in GuardPcs =>
       /\ q.cookie \in Sids /\ q.sv \in Nat /\ q.iat \in Nat
       /\ q.since \in Nat /\ q.since <= sv[q.user]
       /\ q.markSince \in Nat /\ q.markSince <= mark[q.user]
       /\ q.pc # "load" => q.sv >= q.since
       /\ q.pc \in {"load", "rotate"} => q.sid = q.cookie
       /\ q.pc = "delete" => q.iat >= q.markSince
       /\ q.pc \in {"touch", "handler", "change"} =>
            /\ q.iat >= q.markSince \/ Dead(q.cookie)
            /\ q.sid # q.cookie => Dead(q.cookie)

StoreTyped ==
  /\ sv \in [Users -> Nat] /\ mark \in [Users -> Nat]
  /\ sess \in [Sids -> {NoSession} \cup [user : Users, sv : Nat, iat : Nat]]

SessInv ==
  /\ StoreTyped
  /\ \E S : req \in [Requests -> S]
  /\ \A r \in Requests : Fine(req[r])

(* Versions and marks go up, and a dead cookie of a request stays dead.    *)
NoRevival ==
  /\ \A u \in Users : sv'[u] >= sv[u] /\ mark'[u] >= mark[u]
  /\ \A r \in Requests :
       req[r].pc \in GuardPcs /\ Dead(req[r].cookie) => sess'[req[r].cookie] = NoSession

LEMMA FineStays ==
  ASSUME SessInv, StoreTyped', NoRevival, NEW r \in Requests, NEW q, q = req[r]
  PROVE  Fine(q)'
<1>1. Fine(q) /\ (q.pc \in GuardPcs /\ Dead(q.cookie) => sess'[q.cookie] = NoSession)
  BY DEF SessInv, NoRevival, Dead
<1>2. q.pc # "idle" => sv[q.user] \in Nat /\ mark[q.user] \in Nat
                       /\ sv'[q.user] \in Nat /\ mark'[q.user] \in Nat
                       /\ sv'[q.user] >= sv[q.user] /\ mark'[q.user] >= mark[q.user]
  BY <1>1 DEF SessInv, StoreTyped, Fine, NoRevival
<1> QED
  BY <1>1, <1>2 DEF Fine, Dead, GuardPcs

LEMMA OneRequest ==
  ASSUME SessInv, StoreTyped', NoRevival, NEW r \in Requests, NEW z, Fine(z)',
         req' = [req EXCEPT ![r] = z]
  PROVE  SessInv'
<1>1. PICK S : req \in [Requests -> S]
  BY DEF SessInv
<1>2. req' \in [Requests -> S \cup {z}] /\ req'[r] = z
      /\ \A x \in Requests \ {r} : req'[x] = req[x]
  BY <1>1
<1>3. ASSUME NEW x \in Requests PROVE Fine(req[x])'
  <2>1. CASE x = r
    BY <1>2, <2>1 DEF Fine, Dead
  <2>2. CASE x # r
    <3>1. PICK q : q = req[x]
      OBVIOUS
    <3>2. Fine(q)' /\ req'[x] = q
      BY <1>2, <2>2, <3>1, FineStays
    <3> QED
      BY <3>2 DEF Fine, Dead
  <2> QED
    BY <2>1, <2>2
<1> QED
  BY <1>2, <1>3 DEF SessInv

LEMMA IdleFine == Fine(Idle)'
  BY NewRequests DEF Fine, IsRequest, GuardPcs

(* Nothing but the request moves.                                          *)
LEMMA StoreStays ==
  ASSUME SessInv, UNCHANGED <<sv, mark, sess>>
  PROVE  StoreTyped' /\ NoRevival
<1>1. StoreTyped' /\ sv \in [Users -> Nat] /\ mark \in [Users -> Nat]
  BY DEF SessInv, StoreTyped
<1> QED
  BY <1>1 DEF NoRevival, Dead

LEMMA Destroyed ==
  ASSUME SessInv, NEW s, Destroy(s), UNCHANGED <<sv, mark>>
  PROVE  StoreTyped' /\ NoRevival /\ (s \in Sids => sess'[s] = NoSession)
<1>1. sv \in [Users -> Nat] /\ mark \in [Users -> Nat]
      /\ sess \in [Sids -> {NoSession} \cup [user : Users, sv : Nat, iat : Nat]]
      /\ sess' = [sess EXCEPT ![s] = NoSession]
  BY DEF SessInv, StoreTyped, Destroy
<1>2. StoreTyped'
  BY <1>1 DEF StoreTyped
<1>3. \A r \in Requests : req[r].pc \in GuardPcs => req[r].cookie \in Sids
  BY DEF SessInv, Fine
<1> QED
  BY <1>1, <1>2, <1>3 DEF NoRevival, Dead

(* A new session has an id no request carries.                             *)
LEMMA Opened ==
  ASSUME SessInv, NEW s \in Sids, FreshSid(s), NEW u \in Users, NEW v \in Nat, NEW i \in Nat,
         sess' = [sess EXCEPT ![s] = [user |-> u, sv |-> v, iat |-> i]], UNCHANGED <<sv, mark>>
  PROVE  StoreTyped' /\ NoRevival
<1>1. sv \in [Users -> Nat] /\ mark \in [Users -> Nat]
      /\ sess \in [Sids -> {NoSession} \cup [user : Users, sv : Nat, iat : Nat]]
  BY DEF SessInv, StoreTyped
<1>2. [user |-> u, sv |-> v, iat |-> i] \in [user : Users, sv : Nat, iat : Nat]
  OBVIOUS
<1>3. StoreTyped'
  BY <1>1, <1>2 DEF StoreTyped
<1>4. \A r \in Requests : req[r].pc \in GuardPcs => req[r].cookie \in Sids \ {s}
  BY DEF SessInv, Fine, FreshSid, At, GuardPcs
<1> QED
  BY <1>1, <1>3, <1>4 DEF NoRevival, Dead

(* A request that is at work has its fields.                               *)
LEMMA AtWork ==
  ASSUME SessInv, NEW r \in Requests, req[r].pc # "idle"
  PROVE  Record(req[r]) /\ DOMAIN req[r] = Fields /\ Fine(req[r]) /\ req[r].user \in Users
         /\ sv[req[r].user] \in Nat /\ mark[req[r].user] \in Nat
  BY NewRequests DEF SessInv, StoreTyped, Fine, IsRequest

(* A step of a request outside the guard that opens no session.            *)
LEMMA QuietStep ==
  ASSUME SessInv, UNCHANGED <<sv, mark, sess>>, NEW r \in Requests, NEW z,
         IsRequest(z), z.pc \notin GuardPcs, z.pc = "set" => z.sv \in Nat,
         z.pc # "idle" => z.user \in Users, req' = [req EXCEPT ![r] = z]
  PROVE  SessInv'
<1>1. Fine(z)'
  BY DEF Fine
<1> QED
  BY <1>1, StoreStays, OneRequest

LEMMA LoginSteps ==
  ASSUME SessInv, LoginStep
  PROVE  SessInv'
<1>1. ASSUME NEW r \in Requests, NEW u \in Users, NEW ip, LoginVerified(r, u, ip) PROVE SessInv'
  <2>1. PICK z : z = Request("verified", u, <<>>)
    OBVIOUS
  <2>2. IsRequest(z) /\ z.pc = "verified" /\ z.user = u
    BY <2>1, NewRequests DEF IsRequest
  <2>3. req' = [req EXCEPT ![r] = z] /\ UNCHANGED <<sv, mark, sess>>
    BY <1>1, <2>1 DEF LoginVerified, userRow
  <2> QED
    BY <2>2, <2>3, QuietStep DEF GuardPcs
<1>2. ASSUME NEW r \in Requests, RecordSuccess(r) PROVE SessInv'
  <2>1. PICK z : z = [req[r] EXCEPT !.pc = "session"]
    OBVIOUS
  <2>2. req[r].pc = "verified" /\ req' = [req EXCEPT ![r] = z] /\ UNCHANGED <<sv, mark, sess>>
    BY <1>2, <2>1 DEF RecordSuccess, At, Goto, userRow
  <2>3. IsRequest(z) /\ z.pc = "session" /\ z.user \in Users
    <3>1. Record(req[r]) /\ DOMAIN req[r] = Fields /\ req[r].user \in Users
      BY <2>2, AtWork
    <3>2. Same(req[r], z) /\ z.pc = "session"
      BY <2>1, <3>1, SetPc
    <3> QED
      BY <3>1, <3>2 DEF IsRequest, Same
  <2> QED
    BY <2>2, <2>3, QuietStep DEF GuardPcs
<1>3. ASSUME NEW r \in Requests, CreateUserSession(r) PROVE SessInv'
  <2>0. PICK q : q = req[r]
    OBVIOUS
  <2>1. PICK z : z = [q EXCEPT !.pc = "set", !.sv = sv[req[r].user]]
    OBVIOUS
  <2>2. req[r].pc = "session" /\ UNCHANGED <<sv, mark, sess>>
        /\ req' \in {[req EXCEPT ![r] = z], [req EXCEPT ![r] = Idle]}
    BY <1>3, <2>0, <2>1 DEF CreateUserSession, At, Done, userRow
  <2>3. IsRequest(z) /\ z.pc = "set" /\ z.user \in Users /\ z.sv \in Nat
    <3>1. Record(q) /\ DOMAIN q = Fields /\ q.user \in Users /\ sv[q.user] \in Nat
      BY <2>0, <2>2, AtWork
    <3>2. Same(q, z) /\ z.pc = "set" /\ z.sv = sv[q.user]
      BY <2>0, <2>1, <3>1 DEF Record, Fields, Same
    <3> QED
      BY <3>1, <3>2 DEF IsRequest, Same
  <2>4. IsRequest(Idle) /\ Idle.pc = "idle"
    BY NewRequests DEF IsRequest
  <2>5. CASE req' = [req EXCEPT ![r] = z]
    BY <2>2, <2>3, <2>5, QuietStep DEF GuardPcs
  <2>6. CASE req' = [req EXCEPT ![r] = Idle]
    BY <2>2, <2>4, <2>6, QuietStep DEF GuardPcs
  <2> QED
    BY <2>2, <2>5, <2>6
<1>4. ASSUME NEW r \in Requests, NEW s \in Sids, CreateSession(r, s) PROVE SessInv'
  <2>1. /\ req[r].pc = "set" /\ FreshSid(s) /\ UNCHANGED <<sv, mark>> /\ req' = [req EXCEPT ![r] = Idle]
        /\ sess' = [sess EXCEPT ![s] = [user |-> req[r].user, sv |-> req[r].sv, iat |-> mark[req[r].user]]]
    BY <1>4 DEF CreateSession, At, Done, userRow
  <2>2. req[r].user \in Users /\ req[r].sv \in Nat /\ mark[req[r].user] \in Nat
    BY <2>1, AtWork DEF Fine
  <2>3. StoreTyped' /\ NoRevival
    BY <2>1, <2>2, Opened
  <2> QED
    BY <2>1, <2>3, IdleFine, OneRequest
<1> QED
  BY <1>1, <1>2, <1>3, <1>4 DEF LoginStep

(* The counters and locks of login protection do not touch sessions.       *)
LEMMA ProtectionSteps ==
  ASSUME SessInv, ProtectionStep
  PROVE  SessInv'
<1>1. ASSUME NEW r \in Requests, NEW u \in Users, NEW pc \in {"incr", "unlock"}, NEW keys,
             req' = [req EXCEPT ![r] = Request(pc, u, keys)], UNCHANGED <<sv, mark, sess>>
      PROVE  SessInv'
  <2>1. PICK z : z = Request(pc, u, keys)
    OBVIOUS
  <2>2. IsRequest(z) /\ z.pc = pc /\ z.user = u
    BY <2>1, NewRequests DEF IsRequest
  <2> QED
    BY <1>1, <2>1, <2>2, QuietStep DEF GuardPcs
<1>2. ASSUME NEW r \in Requests, NEW z, Same(req[r], z) \/ z = Idle, req[r].pc # "idle",
             z.pc \in {"idle", "incr", "expire", "lock", "unlockIps"}, req' = [req EXCEPT ![r] = z],
             UNCHANGED <<sv, mark, sess>>
      PROVE  SessInv'
  <2>1. IsRequest(z) /\ (z.pc # "idle" => z.user \in Users)
    BY <1>2, AtWork, NewRequests DEF IsRequest, Same
  <2> QED
    BY <1>2, <2>1, QuietStep DEF GuardPcs
<1>3. ASSUME NEW r \in Requests, NEW u \in Users, NEW ip, LoginFails(r, u, ip) PROVE SessInv'
  BY <1>1, <1>3 DEF LoginFails, userRow
<1>4. ASSUME NEW r \in Requests, Incr(r) PROVE SessInv'
  <2>0. PICK q : q = req[r]
    OBVIOUS
  <2>1. PICK n, z : n = fail[Head(req[r].keys)] + 1 /\ z = [q EXCEPT !.pc = "expire", !.count = n]
    OBVIOUS
  <2>2. req[r].pc = "incr" /\ req' = [req EXCEPT ![r] = z] /\ UNCHANGED <<sv, mark, sess>>
    BY <1>4, <2>0, <2>1 DEF Incr, At, userRow
  <2>3. Same(req[r], z) /\ z.pc = "expire"
    <3>1. Record(q) /\ DOMAIN q = Fields
      BY <2>0, <2>2, AtWork
    <3>2. Same(q, z) /\ z.pc = "expire"
      BY <2>1, <3>1 DEF Record, Fields, Same
    <3> QED
      BY <2>0, <3>2
  <2> QED
    BY <1>2, <2>2, <2>3
<1>5. ASSUME NEW r \in Requests, Expire(r) PROVE SessInv'
  <2>1. PICK z : z = [req[r] EXCEPT !.pc = "lock"]
    OBVIOUS
  <2>2. req[r].pc = "expire" /\ req' = [req EXCEPT ![r] = z] /\ UNCHANGED <<sv, mark, sess>>
    BY <1>5, <2>1 DEF Expire, At, Goto, userRow
  <2>3. Same(req[r], z) /\ z.pc = "lock"
    BY <2>1, <2>2, AtWork, SetPc
  <2> QED
    BY <1>2, <2>2, <2>3
<1>6. ASSUME NEW r \in Requests, LockKey(r) PROVE SessInv'
  <2>0. PICK q : q = req[r]
    OBVIOUS
  <2>1. PICK rest, z : rest = Tail(req[r].keys) /\ z = [q EXCEPT !.pc = "incr", !.keys = rest]
    OBVIOUS
  <2>2. req[r].pc = "lock" /\ UNCHANGED <<sv, mark, sess>>
        /\ req' \in {[req EXCEPT ![r] = z], [req EXCEPT ![r] = Idle]}
    BY <1>6, <2>0, <2>1 DEF LockKey, At, Done, userRow
  <2>3. Same(req[r], z) /\ z.pc = "incr"
    <3>1. Record(q) /\ DOMAIN q = Fields
      BY <2>0, <2>2, AtWork
    <3>2. Same(q, z) /\ z.pc = "incr"
      BY <2>1, <3>1 DEF Record, Fields, Same
    <3> QED
      BY <2>0, <3>2
  <2> QED
    BY <1>2, <2>2, <2>3, NewRequests
<1>7. ASSUME NEW r \in Requests, NEW u \in Users, UnlockByAdmin(r, u) PROVE SessInv'
  BY <1>1, <1>7 DEF UnlockByAdmin, userRow
<1>8. ASSUME NEW r \in Requests, UnlockIps(r) PROVE SessInv'
  <2>0. PICK q : q = req[r]
    OBVIOUS
  <2>1. PICK ips, z : /\ ips = (IF \E k \in lockedIps[req[r].user] : lock[k] THEN lockedIps[req[r].user] ELSE {})
                      /\ z = [q EXCEPT !.pc = "unlockIps", !.ips = ips]
    OBVIOUS
  <2>2. req[r].pc = "unlock" /\ req' = [req EXCEPT ![r] = z] /\ UNCHANGED <<sv, mark, sess>>
    BY <1>8, <2>0, <2>1 DEF UnlockIps, At, userRow
  <2>3. Same(req[r], z) /\ z.pc = "unlockIps"
    <3>1. Record(q) /\ DOMAIN q = Fields
      BY <2>0, <2>2, AtWork
    <3>2. Same(q, z) /\ z.pc = "unlockIps"
      BY <2>1, <3>1 DEF Record, Fields, Same
    <3> QED
      BY <2>0, <3>2
  <2> QED
    BY <1>2, <2>2, <2>3
<1>9. ASSUME NEW r \in Requests, ForgetIps(r) PROVE SessInv'
  BY <1>2, <1>9, NewRequests DEF ForgetIps, At, Done, userRow
<1>10. ASSUME UNCHANGED <<sv, mark, sess, req>> PROVE SessInv'
  BY <1>10 DEF SessInv, StoreTyped, Fine, Dead
<1>11. ASSUME NEW k \in Keys, KeyExpires(k) PROVE SessInv'
  BY <1>10, <1>11 DEF KeyExpires, userRow
<1> QED
  BY <1>3, <1>4, <1>5, <1>6, <1>7, <1>8, <1>9, <1>11 DEF ProtectionStep

(* The guard and the handlers behind it.                                   *)
LEMMA GuardSteps ==
  ASSUME SessInv, GuardStep
  PROVE  SessInv'
<1>1. ASSUME NEW r \in Requests, NEW s \in Sids, GuardRead(r, s) PROVE SessInv'
  <2>1. PICK z : z = Visit(s)
    OBVIOUS
  <2>2. Live(s) /\ req' = [req EXCEPT ![r] = z] /\ UNCHANGED <<sv, mark, sess>>
    BY <1>1, <2>1 DEF GuardRead, userRow
  <2>3. sess[s] \in [user : Users, sv : Nat, iat : Nat]
    BY <2>2 DEF SessInv, StoreTyped, Live
  <2>4. sv[sess[s].user] \in Nat /\ mark[sess[s].user] \in Nat /\ sess[s].user \in Users
        /\ sess[s].sv \in Nat /\ sess[s].iat \in Nat
    BY <2>3 DEF SessInv, StoreTyped
  <2>5. Fine(z)'
    BY <2>1, <2>2, <2>4, NewVisit DEF Fine, IsRequest, GuardPcs
  <2> QED
    BY <2>2, <2>5, StoreStays, OneRequest
<1>2. ASSUME NEW r \in Requests, NEW c, Destroy(c), UNCHANGED <<sv, mark>>, Done(r) PROVE SessInv'
  BY <1>2, Destroyed, IdleFine, OneRequest DEF Done
<1>3. ASSUME NEW r \in Requests, UNCHANGED <<sv, mark, sess>>, Done(r) PROVE SessInv'
  BY <1>3, StoreStays, IdleFine, OneRequest DEF Done
<1>4. ASSUME NEW r \in Requests, NEW q, q = req[r], q.pc \in GuardPcs, NEW pc, NEW z, z = [q EXCEPT !.pc = pc]
      PROVE  /\ Goto(r, pc) => req' = [req EXCEPT ![r] = z]
             /\ Same(q, z) /\ z.pc = pc /\ z.sid = q.sid /\ z.sv = q.sv /\ z.iat = q.iat
             /\ Fine(q) /\ q.user \in Users /\ sv[q.user] \in Nat /\ mark[q.user] \in Nat
  <2>1. Record(q) /\ DOMAIN q = Fields
    BY <1>4, AtWork DEF GuardPcs
  <2>2. Fine(q) /\ q.user \in Users /\ sv[q.user] \in Nat /\ mark[q.user] \in Nat
    BY <1>4, AtWork DEF GuardPcs
  <2> QED
    BY <1>4, <2>1, <2>2, SetPc DEF Goto
<1>5. ASSUME NEW r \in Requests, GuardLoad(r) PROVE SessInv'
  <2>1. CASE Destroy(req[r].cookie) /\ Done(r)
    <3>1. UNCHANGED <<sv, mark>>
      BY <1>5 DEF GuardLoad, userRow
    <3> QED
      BY <1>2, <2>1, <3>1
  <2>2. CASE SessionStands(r) /\ UNCHANGED sess /\ Goto(r, "rotate")
    <3>1. PICK q, z : q = req[r] /\ z = [q EXCEPT !.pc = "rotate"]
      OBVIOUS
    <3>2. q.pc = "load" /\ UNCHANGED <<sv, mark, sess>> /\ sv[q.user] = q.sv
      BY <1>5, <2>2, <3>1 DEF GuardLoad, At, userRow, SessionStands
    <3>3. /\ req' = [req EXCEPT ![r] = z] /\ Same(q, z) /\ z.pc = "rotate"
          /\ z.sid = q.sid /\ z.sv = q.sv /\ z.iat = q.iat /\ Fine(q)
      BY <1>4, <2>2, <3>1, <3>2 DEF GuardPcs
    <3>4. Fine(z)'
      BY <3>2, <3>3 DEF Fine, IsRequest, Same, GuardPcs
    <3> QED
      BY <3>2, <3>3, <3>4, StoreStays, OneRequest
  <2> QED
    BY <1>5, <2>1, <2>2 DEF GuardLoad
<1>6. ASSUME NEW r \in Requests, GuardKeeps(r) PROVE SessInv'
  <2>1. PICK q, z : q = req[r] /\ z = [q EXCEPT !.pc = "touch"]
    OBVIOUS
  <2>2. /\ q.pc = "rotate" /\ UNCHANGED <<sv, mark, sess>> /\ Goto(r, "touch")
        /\ ~(q.iat < mark[q.user]) \/ Dead(q.cookie)
    BY <1>6, <2>1 DEF GuardKeeps, At, userRow, Elevated, Live, Dead
  <2>3. /\ req' = [req EXCEPT ![r] = z] /\ Same(q, z) /\ z.pc = "touch"
        /\ z.sid = q.sid /\ z.sv = q.sv /\ z.iat = q.iat /\ Fine(q) /\ mark[q.user] \in Nat
    BY <1>4, <2>1, <2>2 DEF GuardPcs
  <2>4. Fine(z)'
    BY <2>2, <2>3 DEF Fine, IsRequest, Same, GuardPcs, Dead
  <2> QED
    BY <2>2, <2>3, <2>4, StoreStays, OneRequest
<1>7. ASSUME NEW r \in Requests, NEW s \in Sids, GuardRotates(r, s) PROVE SessInv'
  <2>1. PICK q : q = req[r]
    OBVIOUS
  <2>2. PICK n, z : n = mark[q.user] /\ z = [q EXCEPT !.pc = "delete", !.sid = s, !.iat = n]
    OBVIOUS
  <2>3. /\ q.pc = "rotate" /\ FreshSid(s) /\ UNCHANGED <<sv, mark>> /\ req' = [req EXCEPT ![r] = z]
        /\ sess' = [sess EXCEPT ![s] = [user |-> q.user, sv |-> q.sv, iat |-> n]]
    BY <1>7, <2>1, <2>2 DEF GuardRotates, At, userRow
  <2>4. /\ Record(q) /\ DOMAIN q = Fields /\ Fine(q) /\ q.user \in Users /\ n \in Nat
    BY <2>1, <2>2, <2>3, AtWork
  <2>5. Same(q, z) /\ z.pc = "delete" /\ z.sid = s /\ z.iat = n /\ z.sv = q.sv
    BY <2>2, <2>4 DEF Record, Fields, Same
  <2>6. StoreTyped' /\ NoRevival
    BY <2>3, <2>4, Opened DEF Fine, GuardPcs
  <2>7. Fine(z)'
    BY <2>2, <2>3, <2>4, <2>5 DEF Fine, IsRequest, Same, GuardPcs
  <2> QED
    BY <2>3, <2>6, <2>7, OneRequest
<1>8. ASSUME NEW r \in Requests, GuardDeletes(r) PROVE SessInv'
  <2>1. PICK q, z : q = req[r] /\ z = [q EXCEPT !.pc = "touch"]
    OBVIOUS
  <2>2. q.pc = "delete" /\ UNCHANGED <<sv, mark>> /\ Destroy(q.cookie) /\ Goto(r, "touch")
    BY <1>8, <2>1 DEF GuardDeletes, DeleteOld, At, userRow
  <2>3. /\ req' = [req EXCEPT ![r] = z] /\ Same(q, z) /\ z.pc = "touch"
        /\ z.sid = q.sid /\ z.sv = q.sv /\ z.iat = q.iat /\ Fine(q)
    BY <1>4, <2>1, <2>2 DEF GuardPcs
  <2>4. StoreTyped' /\ NoRevival /\ sess'[q.cookie] = NoSession
    BY <2>2, <2>3, Destroyed DEF Fine, GuardPcs
  <2>5. Fine(z)'
    BY <2>2, <2>3, <2>4 DEF Fine, IsRequest, Same, GuardPcs, Dead
  <2> QED
    BY <2>3, <2>4, <2>5, OneRequest
<1>9. ASSUME NEW r \in Requests, NEW from \in {"touch", "handler"}, NEW to \in {"handler", "change"},
             At(r, from), Goto(r, to), UNCHANGED <<sv, mark, sess>>
      PROVE  SessInv'
  <2>1. PICK q, z : q = req[r] /\ z = [q EXCEPT !.pc = to]
    OBVIOUS
  <2>2. /\ req' = [req EXCEPT ![r] = z] /\ Same(q, z) /\ z.pc = to
        /\ z.sid = q.sid /\ z.sv = q.sv /\ z.iat = q.iat /\ Fine(q) /\ q.pc = from
    BY <1>4, <1>9, <2>1 DEF GuardPcs, At
  <2>3. Fine(z)'
    BY <1>9, <2>2 DEF Fine, IsRequest, Same, GuardPcs, Dead
  <2> QED
    BY <1>9, <2>2, <2>3, StoreStays, OneRequest
<1>10. ASSUME NEW r \in Requests, GuardTouch(r) PROVE SessInv'
  BY <1>2, <1>9, <1>10 DEF GuardTouch, userRow
<1>11. ASSUME NEW r \in Requests, ChangePasswordRead(r) PROVE SessInv'
  BY <1>9, <1>11 DEF ChangePasswordRead, userRow
<1>12. ASSUME NEW r \in Requests, Logout(r) PROVE SessInv'
  BY <1>2, <1>12 DEF Logout, userRow
<1>13. ASSUME NEW r \in Requests, OtherHandler(r) PROVE SessInv'
  BY <1>3, <1>13 DEF OtherHandler, userRow
<1>14. ASSUME NEW u, sv' = [sv EXCEPT ![u] = @ + 1], UNCHANGED <<mark, sess>>
       PROVE  StoreTyped' /\ NoRevival
  <2>1. sv \in [Users -> Nat] /\ mark \in [Users -> Nat]
    BY DEF SessInv, StoreTyped
  <2>2. \A x \in Users : sv'[x] \in Nat /\ sv'[x] >= sv[x] /\ mark'[x] >= mark[x]
    BY <1>14, <2>1
  <2> QED
    BY <1>14, <2>1, <2>2 DEF SessInv, StoreTyped, NoRevival, Dead
<1>15. ASSUME NEW r \in Requests, ChangePassword(r) PROVE SessInv'
  <2>1. /\ sv' = [sv EXCEPT ![req[r].user] = @ + 1] /\ UNCHANGED <<mark, sess>>
        /\ req' = [req EXCEPT ![r] = Idle]
    BY <1>15 DEF ChangePassword, SetPassword, NextVersion, Done
  <2> QED
    BY <1>14, <2>1, IdleFine, OneRequest
<1>16. ASSUME NEW s \in Sids, SessionExpires(s) PROVE SessInv'
  <2>1. Destroy(s) /\ UNCHANGED <<sv, mark, req>>
    BY <1>16 DEF SessionExpires, userRow
  <2>2. StoreTyped' /\ NoRevival
    BY <2>1, Destroyed
  <2>3. \A r \in Requests : Fine(req[r])'
    <3> SUFFICES ASSUME NEW r \in Requests PROVE Fine(req[r])'
      OBVIOUS
    <3>1. PICK q : q = req[r]
      OBVIOUS
    <3>2. Fine(q)' /\ req'[r] = q
      BY <2>1, <2>2, <3>1, FineStays
    <3> QED
      BY <3>2 DEF Fine, Dead
  <2> QED
    BY <2>1, <2>2, <2>3 DEF SessInv
<1> QED
  BY <1>1, <1>5, <1>6, <1>7, <1>8, <1>10, <1>11, <1>12, <1>13, <1>15, <1>16 DEF GuardStep

(* Accounts: passwords reset, users removed, restored and elevated.        *)
LEMMA AccountSteps ==
  ASSUME SessInv, AccountStep
  PROVE  SessInv'
<1>1. sv \in [Users -> Nat] /\ mark \in [Users -> Nat]
  BY DEF SessInv, StoreTyped
<1>2. PICK u \in Users :
        /\ \/ sv' = [sv EXCEPT ![u] = @ + 1] /\ UNCHANGED mark
           \/ mark' = [mark EXCEPT ![u] = @ + 1] /\ UNCHANGED sv
           \/ UNCHANGED <<sv, mark>>
        /\ UNCHANGED <<sess, req>>
  BY DEF AccountStep, ResetPassword, SetPassword, NextVersion, DeactivateUser, RestoreUser, MarkElevation,
         userRow
<1>3. sv' \in [Users -> Nat] /\ mark' \in [Users -> Nat]
      /\ \A x \in Users : sv'[x] >= sv[x] /\ mark'[x] >= mark[x]
  BY <1>1, <1>2
<1>4. StoreTyped' /\ NoRevival
  BY <1>2, <1>3 DEF SessInv, StoreTyped, NoRevival, Dead
<1>5. \A r \in Requests : Fine(req[r])'
  <2> SUFFICES ASSUME NEW r \in Requests PROVE Fine(req[r])'
    OBVIOUS
  <2>1. PICK q : q = req[r]
    OBVIOUS
  <2>2. Fine(q)' /\ req'[r] = q
    BY <1>2, <1>4, <2>1, FineStays
  <2> QED
    BY <2>2 DEF Fine, Dead
<1> QED
  BY <1>2, <1>4, <1>5 DEF SessInv

(* A request that ends knows nothing any more.                             *)
LEMMA LostSteps ==
  ASSUME SessInv, LostStep
  PROVE  SessInv'
<1>1. PICK r \in Requests : Done(r) /\ UNCHANGED <<sv, mark, sess>>
  BY DEF LostStep, Lost, userRow
<1> QED
  BY <1>1, StoreStays, IdleFine, OneRequest DEF Done

LEMMA SessInvAlways == SessionsSpec => []SessInv
<1>1. SessionsInit => SessInv
  <2> SUFFICES ASSUME SessionsInit PROVE SessInv
    OBVIOUS
  <2>1. Fine(Idle)
    BY NewRequests DEF Fine, IsRequest, GuardPcs
  <2>2. req \in [Requests -> {Idle}] /\ \A r \in Requests : req[r] = Idle
    BY DEF SessionsInit
  <2>3. StoreTyped
    BY DEF SessionsInit, StoreTyped
  <2> QED
    BY <2>1, <2>2, <2>3 DEF SessInv
<1>2. SessInv /\ [SessionsNext]_sessionVars => SessInv'
  <2>1. ASSUME SessInv, UNCHANGED sessionVars PROVE SessInv'
    <3>1. UNCHANGED <<sv, mark, sess, req>>
      BY <2>1 DEF sessionVars
    <3> QED
      BY <2>1, <3>1 DEF SessInv, StoreTyped, Fine, Dead
  <2> QED
    BY <2>1, LoginSteps, ProtectionSteps, GuardSteps, AccountSteps, LostSteps DEF SessionsNext
<1> QED
  BY <1>1, <1>2, PTL DEF SessionsSpec

(* RevokedStaysOut for any users, requests and sessions: the loader        *)
(* compares with a version that is no older than the one of the start.     *)
THEOREM RevokedAlwaysStaysOut == SessionsSpec => []RevokedStaysOut
<1>1. SessInv => RevokedStaysOut
  BY DEF SessInv, Fine, GuardPcs, RevokedStaysOut, Accepted
<1> QED
  BY <1>1, SessInvAlways, PTL

(* RotatesAway for any users, requests and sessions: an id is never issued *)
(* again while a request carries it, so a deleted one stays dead.          *)
THEOREM AlwaysRotatesAway == SessionsSpec => []RotatesAway
<1>1. SessInv => RotatesAway
  BY DEF SessInv, Fine, GuardPcs, RotatesAway, Accepted, Live, Dead
<1> QED
  BY <1>1, SessInvAlways, PTL

-----------------------------------------------------------------------------
(* Failure counters.                                                       *)

CountersTyped == fail \in [Keys -> Nat] /\ ttl \in [Keys -> BOOLEAN]
Lasting(k) == fail[k] > 0 /\ ~ttl[k]

(* A step after which no more counters are unattended than before.         *)
Keeps == CountersTyped' /\ \A k \in Keys : Unattended(k)' => Unattended(k)

(* A request that is not about to give a counter its expiry moves, and     *)
(* makes no counter last.                                                  *)
LEMMA CountersKept ==
  ASSUME SessInv, CountersTyped', NEW r \in Requests, ~At(r, "expire"), NEW z,
         req' = [req EXCEPT ![r] = z], \A k \in Keys : Lasting(k)' => Lasting(k)
  PROVE  Keeps
<1>1. \A x \in Requests \ {r} : req'[x] = req[x]
  BY DEF SessInv
<1>2. \A k \in Keys, x \in Requests : GivesExpiry(x, k) => GivesExpiry(x, k)'
  BY <1>1 DEF GivesExpiry, At, FirstFailure
<1> QED
  BY <1>2 DEF Keeps, Unattended, Lasting

LEMMA CounterSteps ==
  ASSUME SessInv, CountersTyped, SessionsNext, ~LostStep
  PROVE  Keeps
<1>1. fail \in [Keys -> Nat] /\ ttl \in [Keys -> BOOLEAN]
  BY DEF CountersTyped
<1>2. ASSUME NEW r \in Requests, ~At(r, "expire"), NEW z, req' = [req EXCEPT ![r] = z],
             UNCHANGED <<fail, ttl>>
      PROVE  Keeps
  BY <1>1, <1>2, CountersKept DEF CountersTyped, Lasting
<1>3. ASSUME UNCHANGED <<req, fail, ttl>> PROVE Keeps
  BY <1>1, <1>3 DEF Keeps, CountersTyped, Unattended, GivesExpiry, At, FirstFailure
<1>4. CASE AccountStep
  <2>1. UNCHANGED <<req, fail, ttl>>
    BY <1>4 DEF AccountStep, ResetPassword, DeactivateUser, RestoreUser, MarkElevation, redisKeys
  <2> QED
    BY <1>3, <2>1
<1>5. CASE GuardStep
  <2>1. ASSUME NEW s \in Sids, SessionExpires(s) PROVE Keeps
    BY <1>3, <2>1 DEF SessionExpires, redisKeys
  <2>2. ASSUME NEW r \in Requests, ~At(r, "expire"), (\E pc : Goto(r, pc)) \/ Done(r),
               UNCHANGED <<fail, ttl>>
        PROVE  Keeps
    BY <1>2, <2>2 DEF Goto, Done
  <2>3. ASSUME NEW r \in Requests, NEW s \in Sids, GuardRead(r, s) \/ GuardRotates(r, s) PROVE Keeps
    <3>1. PICK z : req' = [req EXCEPT ![r] = z] /\ UNCHANGED <<fail, ttl>> /\ ~At(r, "expire")
      BY <2>3 DEF GuardRead, GuardRotates, At, redisKeys
    <3> QED
      BY <1>2, <3>1
  <2>4. ASSUME NEW r \in Requests, GuardLoad(r) \/ GuardKeeps(r) \/ GuardDeletes(r) \/ GuardTouch(r)
        PROVE  Keeps
    BY <2>2, <2>4 DEF GuardLoad, GuardKeeps, GuardDeletes, GuardTouch, At, redisKeys
  <2>5. ASSUME NEW r \in Requests,
               Logout(r) \/ ChangePasswordRead(r) \/ ChangePassword(r) \/ OtherHandler(r)
        PROVE  Keeps
    BY <2>2, <2>5 DEF Logout, ChangePasswordRead, ChangePassword, OtherHandler, At, redisKeys
  <2> QED
    BY <1>5, <2>1, <2>3, <2>4, <2>5 DEF GuardStep
<1>6. ASSUME NEW k \in Keys, fail' = [fail EXCEPT ![k] = 0], ttl' = [ttl EXCEPT ![k] = FALSE]
      PROVE  CountersTyped' /\ \A x \in Keys : Lasting(x)' => Lasting(x)
  BY <1>1, <1>6 DEF CountersTyped, Lasting
<1>7. CASE LoginStep
  <2>1. ASSUME NEW r \in Requests, NEW u \in Users, NEW ip, LoginVerified(r, u, ip) PROVE Keeps
    <3>1. PICK z : req' = [req EXCEPT ![r] = z] /\ UNCHANGED <<fail, ttl>> /\ ~At(r, "expire")
      BY <2>1 DEF LoginVerified, At, redisKeys
    <3> QED
      BY <1>2, <3>1
  <2>2. ASSUME NEW r \in Requests, RecordSuccess(r) PROVE Keeps
    <3>1. req[r].user \in Keys /\ ~At(r, "expire")
      BY <2>2, AtWork DEF RecordSuccess, At, Keys
    <3>2. \E z : req' = [req EXCEPT ![r] = z]
      BY <2>2 DEF RecordSuccess, Goto
    <3>3. fail' = [fail EXCEPT ![req[r].user] = 0] /\ ttl' = [ttl EXCEPT ![req[r].user] = FALSE]
      BY <2>2 DEF RecordSuccess
    <3> QED
      BY <1>6, <3>1, <3>2, <3>3, CountersKept
  <2>3. ASSUME NEW r \in Requests, CreateUserSession(r) PROVE Keeps
    <3>1. PICK z : req' = [req EXCEPT ![r] = z] /\ UNCHANGED <<fail, ttl>> /\ ~At(r, "expire")
      BY <2>3 DEF CreateUserSession, At, Done, redisKeys
    <3> QED
      BY <1>2, <3>1
  <2>4. ASSUME NEW r \in Requests, NEW s \in Sids, CreateSession(r, s) PROVE Keeps
    <3>1. PICK z : req' = [req EXCEPT ![r] = z] /\ UNCHANGED <<fail, ttl>> /\ ~At(r, "expire")
      BY <2>4 DEF CreateSession, At, Done, redisKeys
    <3> QED
      BY <1>2, <3>1
  <2> QED
    BY <1>7, <2>1, <2>2, <2>3, <2>4 DEF LoginStep
<1>8. ASSUME NEW r \in Requests, Incr(r) PROVE Keeps
  <2>1. PICK q : q = req[r]
    OBVIOUS
  <2>2. PICK k, n, z : k = Head(q.keys) /\ n = fail[k] + 1 /\ z = [q EXCEPT !.pc = "expire", !.count = n]
    OBVIOUS
  <2>3. q.pc = "incr" /\ fail' = [fail EXCEPT ![k] = @ + 1] /\ req' = [req EXCEPT ![r] = z]
        /\ UNCHANGED ttl
    BY <1>8, <2>1, <2>2 DEF Incr, At
  <2>4. z.pc = "expire" /\ z.count = n /\ z.keys = q.keys
    <3>1. Record(q) /\ DOMAIN q = Fields
      BY <2>1, <2>3, AtWork
    <3> QED
      BY <2>2, <3>1 DEF Record, Fields
  <2>5. req'[r] = z /\ \A x \in Requests \ {r} : req'[x] = req[x]
    BY <2>3 DEF SessInv
  <2>6. ASSUME NEW x \in Keys, Unattended(x)'
        PROVE  Unattended(x)
    <3>1. \A y \in Requests \ {r} : ~GivesExpiry(y, x)
      BY <2>5, <2>6 DEF Unattended, GivesExpiry, At, FirstFailure
    <3>2. ~GivesExpiry(r, x)
      BY <2>1, <2>3 DEF GivesExpiry, At
    <3>3. Lasting(x)
      <4>1. x = k /\ fail[k] = 0 => GivesExpiry(r, x)'
        BY <2>2, <2>4, <2>5 DEF GivesExpiry, At, FirstFailure
      <4> QED
        BY <1>1, <2>3, <2>6, <4>1 DEF Lasting, Unattended
    <3> QED
      BY <3>1, <3>2, <3>3 DEF Unattended, Lasting
  <2>7. CountersTyped'
    <3>1. fail' = [x \in Keys |-> IF x = k THEN fail[x] + 1 ELSE fail[x]]
      BY <1>1, <2>3
    <3>2. \A x \in Keys : fail[x] \in Nat
      BY <1>1
    <3>3. fail' \in [Keys -> Nat]
      BY <3>1, <3>2
    <3> QED
      BY <1>1, <2>3, <3>3 DEF CountersTyped
  <2> QED
    BY <2>6, <2>7 DEF Keeps
<1>9. ASSUME NEW r \in Requests, Expire(r) PROVE Keeps
  <2>1. PICK k : k = Head(req[r].keys)
    OBVIOUS
  <2>2. /\ ttl' = [ttl EXCEPT ![k] = IF FirstFailure(r) /\ fail[k] > 0 THEN TRUE ELSE @]
        /\ UNCHANGED fail
    BY <1>9, <2>1 DEF Expire
  <2>3. \A x \in Requests \ {r} : req'[x] = req[x]
    BY <1>9 DEF Expire, Goto, SessInv
  <2>4. ASSUME NEW x \in Keys, Unattended(x)'
        PROVE  Unattended(x)
    <3>1. Lasting(x) /\ ~(x = k /\ FirstFailure(r))
      BY <1>1, <2>2, <2>4 DEF Lasting, Unattended
    <3>2. \A y \in Requests \ {r} : ~GivesExpiry(y, x)
      BY <2>3, <2>4 DEF Unattended, GivesExpiry, At, FirstFailure
    <3> QED
      BY <2>1, <3>1, <3>2 DEF Unattended, GivesExpiry, Lasting
  <2>5. CountersTyped'
    BY <1>1, <2>2 DEF CountersTyped
  <2> QED
    BY <2>4, <2>5 DEF Keeps
<1>10. ASSUME NEW r \in Requests, LockKey(r) \/ UnlockIps(r) PROVE Keeps
  <2>1. PICK z : req' = [req EXCEPT ![r] = z] /\ UNCHANGED <<fail, ttl>> /\ ~At(r, "expire")
    BY <1>10 DEF LockKey, UnlockIps, At, Done
  <2> QED
    BY <1>2, <2>1
<1>11. ASSUME NEW r \in Requests, NEW u \in Users, NEW ip, LoginFails(r, u, ip) PROVE Keeps
  <2>1. PICK z : req' = [req EXCEPT ![r] = z] /\ UNCHANGED <<fail, ttl>> /\ ~At(r, "expire")
    BY <1>11 DEF LoginFails, At, redisKeys
  <2> QED
    BY <1>2, <2>1
<1>12. ASSUME NEW r \in Requests, NEW u \in Users, UnlockByAdmin(r, u) PROVE Keeps
  <2>1. PICK z : req' = [req EXCEPT ![r] = z] /\ ~At(r, "expire")
    BY <1>12 DEF UnlockByAdmin, At
  <2>2. u \in Keys /\ fail' = [fail EXCEPT ![u] = 0] /\ ttl' = [ttl EXCEPT ![u] = FALSE]
    BY <1>12 DEF UnlockByAdmin, Keys
  <2> QED
    BY <1>6, <2>1, <2>2, CountersKept
<1>13. ASSUME NEW r \in Requests, ForgetIps(r) PROVE Keeps
  <2>1. PICK z : req' = [req EXCEPT ![r] = z] /\ ~At(r, "expire")
    BY <1>13 DEF ForgetIps, At, Done
  <2>2. /\ fail' = [k \in Keys |-> IF k \in req[r].ips THEN 0 ELSE fail[k]]
        /\ ttl' = [k \in Keys |-> ttl[k] /\ k \notin req[r].ips]
    BY <1>13 DEF ForgetIps
  <2>3. CountersTyped' /\ \A k \in Keys : Lasting(k)' => Lasting(k)
    BY <1>1, <2>2 DEF CountersTyped, Lasting
  <2> QED
    BY <2>1, <2>3, CountersKept
<1>14. ASSUME NEW k \in Keys, KeyExpires(k) PROVE Keeps
  <2>1. UNCHANGED req
    BY <1>14 DEF KeyExpires
  <2>2. CountersTyped' /\ \A x \in Keys : Lasting(x)' => Lasting(x)
    BY <1>1, <1>6, <1>14 DEF KeyExpires, CountersTyped, Lasting
  <2> QED
    BY <2>1, <2>2 DEF Keeps, Unattended, GivesExpiry, Lasting, At, FirstFailure
<1> QED
  BY <1>4, <1>5, <1>7, <1>8, <1>9, <1>10, <1>11, <1>12, <1>13, <1>14 DEF SessionsNext, ProtectionStep

(* The request that ends leaves behind the counter it had made one.        *)
LEMMA CounterLost ==
  ASSUME SessInv, CountersTyped, NEW r \in Requests, Lost(r), NEW k \in Keys, Unattended(k)'
  PROVE  CountersTyped' /\ (Unattended(k) \/ GivesExpiry(r, k))
<1>1. UNCHANGED <<fail, ttl>> /\ \A x \in Requests \ {r} : req'[x] = req[x]
  BY DEF Lost, Done, redisKeys, SessInv
<1> QED
  BY <1>1 DEF CountersTyped, Unattended, GivesExpiry, At, FirstFailure

(* CountersExpire for any users, addresses and requests: who makes a       *)
(* counter of zero one is the one that will give it its expiry, unless it  *)
(* ends before.                                                            *)
THEOREM CountersAlwaysExpire == SessionsSpec => CountersExpire
<1> DEFINE Step == \A k \in Keys : Unattended(k)' =>
                     Unattended(k) \/ \E r \in Requests : GivesExpiry(r, k) /\ Lost(r)
<1>1. SessionsInit => CountersTyped
  BY DEF SessionsInit, CountersTyped
<1>2. SessInv /\ CountersTyped /\ [SessionsNext]_sessionVars => CountersTyped' /\ [Step]_sessionVars
  <2>1. ASSUME CountersTyped, UNCHANGED sessionVars PROVE CountersTyped'
    BY <2>1 DEF sessionVars, CountersTyped
  <2>2. ASSUME SessInv, CountersTyped, SessionsNext, ~LostStep PROVE CountersTyped' /\ Step
    BY <2>2, CounterSteps DEF Keeps
  <2>3. ASSUME SessInv, CountersTyped, NEW r \in Requests, Lost(r) PROVE CountersTyped' /\ Step
    <3>1. CountersTyped'
      BY <2>3 DEF Lost, redisKeys, CountersTyped
    <3> QED
      BY <2>3, <3>1, CounterLost
  <2> QED
    BY <2>1, <2>2, <2>3 DEF LostStep
<1> QED
  BY <1>1, <1>2, SessInvAlways, PTL DEF SessionsSpec, CountersExpire

-----------------------------------------------------------------------------
(* The authorization context and the grant form.  Versions only rise, and  *)
(* what a version stands for changes with it: what was read at a version   *)
(* that still holds is what the tables say.                                *)

TablesTyped ==
  /\ status = [u \in People |-> status[u]] /\ super \in [People -> BOOLEAN]
  /\ pv \in [People -> Nat] /\ grants \in [People -> SUBSET Functions]
  /\ catalog \in SUBSET Functions /\ dv \in Nat
  /\ cache = [u \in People |-> cache[u]]
  /\ op = [p \in Procs |-> op[p]]

VersionPairs == [pv : Nat, dv : Nat]
LoadSteps == {"cached", "rebuildUser"}
BuildSteps == {"rebuildGrants", "rebuildCodes", "write"}
Loads == [step : LoadSteps, user : People, v : VersionPairs]
Builds == [step : BuildSteps, user : People, v : VersionPairs, super : BOOLEAN, codes : SUBSET Functions]
FormSteps == {"listing", "showing", "form", "saving", "save"}
Shown == {"form", "saving", "save"}
Forms == [step : FormSteps, target : People, pv : Nat, listed : SUBSET Functions,
          shown : SUBSET Functions, operator : People, super : BOOLEAN, catalog : SUBSET Functions]
Entries == [v : VersionPairs, super : BOOLEAN, codes : SUBSET Functions]

Shape(o) ==
  /\ "step" \in DOMAIN o
  /\ o.step \in LoadSteps => o \in Loads
  /\ o.step \in BuildSteps => o \in Builds
  /\ o.step \in FormSteps => o \in Forms

Plain(o) == "step" \in DOMAIN o /\ o.step \notin LoadSteps \cup BuildSteps \cup FormSteps

Past(v, u) == v.pv <= pv[u] /\ v.dv <= dv
Fresh(v, u) == ~Deleted(u) /\ v.pv = pv[u] /\ v.dv = dv
AsTables(o, u) == o.super = Context(u).super /\ o.codes = Context(u).codes

(* What each step of rebuildAuthContext has read, if its versions hold.    *)
BuildSound(o) ==
  /\ o.step \in LoadSteps \cup BuildSteps => Past(o.v, o.user)
  /\ o.step \in BuildSteps /\ Fresh(o.v, o.user) =>
       CASE o.step = "rebuildGrants" -> ~super[o.user] /\ ~o.super
         [] o.step = "rebuildCodes" -> ~super[o.user] /\ ~o.super /\ o.codes = grants[o.user]
         [] o.step = "write" -> AsTables(o, o.user)

FormSound(o) ==
  o.step \in FormSteps =>
    /\ o.pv <= pv[o.target]
    /\ o.step \in Shown /\ o.pv = pv[o.target] => o.shown = grants[o.target] \cap o.listed

EntrySound(c, u) ==
  c # None => c \in Entries /\ Past(c.v, u) /\ (Fresh(c.v, u) => AsTables(c, u))

AuthInv ==
  /\ TablesTyped
  /\ \A p \in Procs : Shape(op[p]) /\ BuildSound(op[p]) /\ FormSound(op[p])
  /\ \A u \in People : EntrySound(cache[u], u)

(* What a step may do to the tables.                                       *)
Rise ==
  /\ TablesTyped'
  /\ dv' >= dv /\ (dv' = dv => catalog' = catalog)
  /\ \A u \in People :
       /\ pv'[u] >= pv[u]
       /\ pv'[u] = pv[u] => grants'[u] = grants[u] /\ super'[u] = super[u]
       /\ pv'[u] = pv[u] /\ Deleted(u) => Deleted(u)'

LEMMA FreshStays ==
  ASSUME AuthInv, Rise, NEW u \in People, NEW v \in VersionPairs, Past(v, u)
  PROVE  /\ Past(v, u)'
         /\ Fresh(v, u)' => /\ Fresh(v, u) /\ super'[u] = super[u] /\ grants'[u] = grants[u]
                            /\ catalog' = catalog /\ Context(u)' = Context(u)
<1>1. v.pv \in Nat /\ v.dv \in Nat /\ pv[u] \in Nat /\ pv'[u] \in Nat /\ dv \in Nat /\ dv' \in Nat
  BY DEF AuthInv, Rise, TablesTyped, VersionPairs
<1>2. pv'[u] >= pv[u] /\ dv' >= dv
  BY DEF Rise
<1>3. Past(v, u)'
  BY <1>1, <1>2 DEF Past
<1>4. ASSUME Fresh(v, u)' PROVE pv'[u] = pv[u] /\ dv' = dv /\ ~Deleted(u)'
  BY <1>1, <1>2, <1>4 DEF Past, Fresh
<1>5. ASSUME Fresh(v, u)'
      PROVE  /\ Fresh(v, u) /\ super'[u] = super[u] /\ grants'[u] = grants[u]
             /\ catalog' = catalog /\ ~Deleted(u)
  BY <1>4, <1>5 DEF Rise, Fresh
<1>6. ASSUME Fresh(v, u)' PROVE Context(u)' = Context(u)
  BY <1>4, <1>5, <1>6 DEF Context
<1> QED
  BY <1>3, <1>5, <1>6

LEMMA OpStays ==
  ASSUME AuthInv, Rise, NEW o, Shape(o), BuildSound(o), FormSound(o)
  PROVE  BuildSound(o)' /\ FormSound(o)'
<1>1. ASSUME o.step \in LoadSteps \cup BuildSteps PROVE BuildSound(o)'
  <2>1. o.user \in People /\ o.v \in VersionPairs /\ Past(o.v, o.user)
    BY <1>1 DEF Shape, Loads, Builds, BuildSound
  <2>2. /\ Past(o.v, o.user)'
        /\ Fresh(o.v, o.user)' => /\ Fresh(o.v, o.user) /\ super'[o.user] = super[o.user]
                                  /\ grants'[o.user] = grants[o.user] /\ Context(o.user)' = Context(o.user)
    BY <2>1, FreshStays
  <2> QED
    BY <2>2 DEF BuildSound, AsTables, BuildSteps
<1>2. ASSUME o.step \in FormSteps PROVE FormSound(o)'
  <2>1. o.target \in People /\ o.pv \in Nat
    BY <1>2 DEF Shape, Forms
  <2>2. pv[o.target] \in Nat /\ pv'[o.target] \in Nat
    BY <2>1 DEF AuthInv, Rise, TablesTyped
  <2> QED
    BY <1>2, <2>1, <2>2 DEF FormSound, Rise
<1> QED
  BY <1>1, <1>2 DEF BuildSound, FormSound

LEMMA EntryStays ==
  ASSUME AuthInv, Rise, NEW u \in People, NEW c, EntrySound(c, u)
  PROVE  EntrySound(c, u)'
<1>1. CASE c # None
  <2>1. c \in Entries /\ c.v \in VersionPairs /\ Past(c.v, u)
    BY <1>1 DEF EntrySound, Entries
  <2> QED
    BY <1>1, <2>1, FreshStays DEF EntrySound, AsTables
<1> QED
  BY <1>1 DEF EntrySound

LEMMA PlainIsSound ==
  ASSUME NEW o, Plain(o) PROVE Shape(o) /\ BuildSound(o)' /\ FormSound(o)'
BY DEF Plain, Shape, BuildSound, FormSound

(* A step that moves the tables as Rise says, at most one process, and no  *)
(* cache entry.                                                            *)
LEMMA TableMoves ==
  ASSUME AuthInv, Rise, UNCHANGED cache, NEW p \in Procs, NEW z,
         op' = op \/ (op' = [op EXCEPT ![p] = z] /\ Shape(z) /\ BuildSound(z)' /\ FormSound(z)')
  PROVE  AuthInv'
<1>1. ASSUME NEW x \in Procs PROVE (Shape(op[x]) /\ BuildSound(op[x]) /\ FormSound(op[x]))'
  <2>1. CASE op'[x] = op[x]
    <3>1. PICK o : o = op[x] /\ o = op'[x]
      BY <2>1
    <3>2. Shape(o) /\ BuildSound(o) /\ FormSound(o)
      BY <3>1 DEF AuthInv
    <3>3. BuildSound(o)' /\ FormSound(o)'
      BY <3>2, OpStays
    <3> QED
      BY <3>1, <3>2, <3>3 DEF Shape, BuildSound, FormSound
  <2>2. CASE op'[x] # op[x]
    <3>1. op'[x] = z /\ Shape(z) /\ BuildSound(z)' /\ FormSound(z)'
      BY <2>2 DEF AuthInv, TablesTyped
    <3> QED
      BY <3>1 DEF Shape, BuildSound, FormSound
  <2> QED
    BY <2>1, <2>2
<1>2. ASSUME NEW u \in People PROVE EntrySound(cache[u], u)'
  <2>1. PICK c : c = cache[u] /\ c = cache'[u]
    OBVIOUS
  <2>2. EntrySound(c, u)'
    BY <2>1, EntryStays DEF AuthInv
  <2> QED
    BY <2>1, <2>2 DEF EntrySound
<1> QED
  BY <1>1, <1>2 DEF AuthInv, Rise

LEMMA NoOpIsPlain == Plain(NoOp)
BY DEF Plain, NoOp, LoadSteps, BuildSteps, FormSteps

LEMMA StillTables ==
  ASSUME AuthInv, UNCHANGED <<people, catalog, dv>>, UNCHANGED cache, NEW z, NEW p \in Procs,
         op' = op \/ op' = [op EXCEPT ![p] = z]
  PROVE  Rise
BY DEF AuthInv, Rise, TablesTyped, people, Deleted

(* One account is raised, whatever becomes of its role and its grants.     *)
LEMMA BumpOne ==
  ASSUME AuthInv, UNCHANGED <<status, super, catalog, dv>>, UNCHANGED cache, NEW t, NEW O,
         NEW items \in SUBSET Functions, NEW z, NEW p \in Procs, op' = [op EXCEPT ![p] = z],
         grants' = [grants EXCEPT ![t] = (@ \ O) \cup items], pv' = [pv EXCEPT ![t] = @ + 1]
  PROVE  Rise
<1>1. \A u \in People : pv[u] \in Nat /\ grants[u] \in SUBSET Functions
  BY DEF AuthInv, TablesTyped
<1>2. /\ pv' = [u \in People |-> IF u = t THEN pv[u] + 1 ELSE pv[u]]
      /\ grants' = [u \in People |-> IF u = t THEN (grants[u] \ O) \cup items ELSE grants[u]]
  BY DEF AuthInv, TablesTyped
<1>3. pv' \in [People -> Nat]
  <2>1. \A u \in People : (IF u = t THEN pv[u] + 1 ELSE pv[u]) \in Nat
    BY <1>1
  <2> QED
    BY <1>2, <2>1
<1>4. grants' \in [People -> SUBSET Functions]
  BY <1>1, <1>2
<1>5. TablesTyped'
  BY <1>3, <1>4 DEF AuthInv, TablesTyped
<1> QED
  BY <1>1, <1>2, <1>5 DEF Rise, Deleted, AuthInv, TablesTyped

LEMMA StandsStill ==
  ASSUME AuthInv, Rise, UNCHANGED <<cache, op>>
  PROVE  AuthInv'
<1>1. ASSUME NEW x \in Procs PROVE (Shape(op[x]) /\ BuildSound(op[x]) /\ FormSound(op[x]))'
  <2>1. PICK o : o = op[x] /\ o = op'[x]
    OBVIOUS
  <2>2. Shape(o) /\ BuildSound(o) /\ FormSound(o)
    BY <2>1 DEF AuthInv
  <2>3. BuildSound(o)' /\ FormSound(o)'
    BY <2>2, OpStays
  <2> QED
    BY <2>1, <2>2, <2>3 DEF Shape, BuildSound, FormSound
<1>2. ASSUME NEW u \in People PROVE EntrySound(cache[u], u)'
  <2>1. PICK c : c = cache[u] /\ c = cache'[u]
    OBVIOUS
  <2>2. EntrySound(c, u)'
    BY <2>1, EntryStays DEF AuthInv
  <2> QED
    BY <2>1, <2>2 DEF EntrySound
<1> QED
  BY <1>1, <1>2 DEF AuthInv, Rise

(* Form and group steps, batches and reconciliations.                      *)
LEMMA GrantSteps ==
  ASSUME AuthInv, FormStep \/ BatchStep \/ GroupStep
  PROVE  AuthInv'
<1>1. ASSUME NEW p \in Procs, NEW z, op' = [op EXCEPT ![p] = z], UNCHANGED <<people, catalog, dv>>,
             UNCHANGED cache, z \in Forms, FormSound(z)
      PROVE  AuthInv'
  <2>1. Rise
    BY <1>1, StillTables
  <2>2. z.step \in FormSteps
    BY <1>1 DEF Forms
  <2>3. Shape(z) /\ BuildSound(z)'
    BY <1>1, <2>2 DEF Forms, Shape, BuildSound, FormSteps, LoadSteps, BuildSteps
  <2>4. FormSound(z)'
    BY <1>1 DEF FormSound, people
  <2> QED
    BY <1>1, <2>1, <2>3, <2>4, TableMoves
<1>2. ASSUME NEW p \in Procs, NEW t \in People, OpenForm(p, t) PROVE AuthInv'
  <2>1. PICK z : z = [step |-> "listing", target |-> t, pv |-> pv[t], listed |-> {}, shown |-> {},
                      operator |-> t, super |-> FALSE, catalog |-> {}]
    OBVIOUS
  <2>2. op' = [op EXCEPT ![p] = z] /\ UNCHANGED <<people, catalog, dv>> /\ UNCHANGED cache
    BY <1>2, <2>1 DEF OpenForm, Become
  <2>3. z \in Forms
    BY <2>1 DEF AuthInv, TablesTyped, Forms, FormSteps
  <2>4. FormSound(z)
    BY <2>1 DEF FormSound, Shown, AuthInv, TablesTyped
  <2> QED
    BY <1>1, <2>2, <2>3, <2>4
<1>3. ASSUME NEW p \in Procs, op[p].step \in FormSteps
      PROVE  /\ op[p] \in Forms /\ FormSound(op[p])
             /\ grants[op[p].target] \in SUBSET Functions /\ catalog \in SUBSET Functions
  <2>1. op[p] \in Forms /\ FormSound(op[p])
    BY <1>3 DEF AuthInv, Shape
  <2> QED
    BY <2>1 DEF Forms, AuthInv, TablesTyped
<1>4. ASSUME NEW p \in Procs, ListCatalog(p) PROVE AuthInv'
  <2>1. op[p].step = "listing" /\ op[p] \in Forms /\ FormSound(op[p]) /\ catalog \in SUBSET Functions
    BY <1>3, <1>4 DEF ListCatalog, Doing, FormSteps
  <2>2. PICK z : z = [op[p] EXCEPT !.step = "showing", !.listed = catalog]
    OBVIOUS
  <2>3. op' = [op EXCEPT ![p] = z] /\ UNCHANGED <<people, catalog, dv>> /\ UNCHANGED cache
    BY <1>4, <2>2 DEF ListCatalog, AuthInv, TablesTyped
  <2>4. z \in Forms /\ FormSound(z)
    BY <2>1, <2>2 DEF Forms, FormSteps, FormSound, Shown
  <2> QED
    BY <1>1, <2>3, <2>4
<1>5. ASSUME NEW p \in Procs, ShowGrants(p) PROVE AuthInv'
  <2>1. /\ op[p].step = "showing" /\ op[p] \in Forms /\ FormSound(op[p])
        /\ grants[op[p].target] \in SUBSET Functions
    BY <1>3, <1>5 DEF ShowGrants, Doing, FormSteps
  <2>2. PICK z : z = [op[p] EXCEPT !.step = "form",
                                   !.shown = grants[op[p].target] \cap op[p].listed]
    OBVIOUS
  <2>3. op' = [op EXCEPT ![p] = z] /\ UNCHANGED <<people, catalog, dv>> /\ UNCHANGED cache
    BY <1>5, <2>2 DEF ShowGrants, AuthInv, TablesTyped
  <2>4. z \in Forms /\ FormSound(z)
    BY <2>1, <2>2 DEF Forms, FormSteps, FormSound, Shown
  <2> QED
    BY <1>1, <2>3, <2>4
<1>6. ASSUME NEW p \in Procs, NEW o \in People, LoadOperator(p, o) PROVE AuthInv'
  <2>1. op[p].step = "form" /\ op[p] \in Forms /\ FormSound(op[p])
    BY <1>3, <1>6 DEF LoadOperator, Doing, FormSteps
  <2>2. PICK z : z = [op[p] EXCEPT !.step = "saving", !.operator = o, !.super = super[o]]
    OBVIOUS
  <2>3. op' = [op EXCEPT ![p] = z] /\ UNCHANGED <<people, catalog, dv>> /\ UNCHANGED cache
    BY <1>6, <2>2 DEF LoadOperator, AuthInv, TablesTyped
  <2>4. super[o] \in BOOLEAN
    BY DEF AuthInv, TablesTyped
  <2>5. z \in Forms /\ FormSound(z)
    BY <2>1, <2>2, <2>4 DEF Forms, FormSteps, FormSound, Shown
  <2> QED
    BY <1>1, <2>3, <2>5
<1>7. ASSUME NEW p \in Procs, LoadCatalog(p) PROVE AuthInv'
  <2>1. op[p].step = "saving" /\ op[p] \in Forms /\ FormSound(op[p]) /\ catalog \in SUBSET Functions
    BY <1>3, <1>7 DEF LoadCatalog, Doing, FormSteps
  <2>2. PICK z : z = [op[p] EXCEPT !.step = "save", !.catalog = catalog]
    OBVIOUS
  <2>3. op' = [op EXCEPT ![p] = z] /\ UNCHANGED <<people, catalog, dv>> /\ UNCHANGED cache
    BY <1>7, <2>2 DEF LoadCatalog, AuthInv, TablesTyped
  <2>4. z \in Forms /\ FormSound(z)
    BY <2>1, <2>2 DEF Forms, FormSteps, FormSound, Shown
  <2> QED
    BY <1>1, <2>3, <2>4
<1>8. ASSUME NEW p \in Procs, NEW items \in SUBSET Functions, SaveEmployeeGrants(p, items)
      PROVE  AuthInv'
  <2>1. PICK z : z = NoOp
    OBVIOUS
  <2>2. op' = [op EXCEPT ![p] = z] /\ UNCHANGED cache
    BY <1>8, <2>1 DEF SaveEmployeeGrants, Abort, End
  <2>3. Shape(z) /\ BuildSound(z)' /\ FormSound(z)'
    BY <2>1, NoOpIsPlain, PlainIsSound
  <2>4. Rise
    <3>1. CASE UNCHANGED <<people, catalog, dv>>
      BY <2>2, <3>1, StillTables
    <3>2. CASE ~UNCHANGED <<people, catalog, dv>>
      <4>1. PICK t, O : /\ grants' = [grants EXCEPT ![t] = (@ \ O) \cup items]
                        /\ pv' = [pv EXCEPT ![t] = @ + 1]
                        /\ UNCHANGED <<status, super, catalog, dv>>
        <5>1. PICK t, O : t = op[p].target /\ O = Replaced(p)
          OBVIOUS
        <5> QED
          BY <1>8, <3>2, <5>1 DEF SaveEmployeeGrants, Abort, NextPv
      <4> QED
        BY <2>2, <4>1, BumpOne
    <3> QED
      BY <3>1, <3>2
  <2> QED
    BY <2>2, <2>3, <2>4, TableMoves
<1>9. ASSUME NEW T \in SUBSET People, NEW new, UNCHANGED <<status, super, catalog, dv>>,
             UNCHANGED <<cache, op>>, new \in [People -> SUBSET Functions],
             grants' = [u \in People |-> IF u \in T THEN new[u] ELSE grants[u]], pv' = Bumped(T)
      PROVE  AuthInv'
  <2>1. \A u \in People : pv[u] \in Nat
    BY DEF AuthInv, TablesTyped
  <2>2. pv' \in [People -> Nat] /\ \A u \in People : pv'[u] = IF u \in T THEN pv[u] + 1 ELSE pv[u]
    BY <1>9, <2>1 DEF Bumped
  <2>3. grants' \in [People -> SUBSET Functions]
    BY <1>9 DEF AuthInv, TablesTyped
  <2>4. TablesTyped'
    BY <1>9, <2>2, <2>3 DEF AuthInv, TablesTyped
  <2>5. Rise
    BY <1>9, <2>1, <2>2, <2>4 DEF Rise, Deleted, AuthInv, TablesTyped
  <2> QED
    BY <1>9, <2>5, StandsStill
<1>10. ASSUME NEW o \in People, NEW T \in SUBSET People, NEW items \in SUBSET Functions, NEW g \in BOOLEAN,
             BatchGrant(o, T, items, g)
      PROVE  AuthInv'
  <2>1. PICK added, changed : /\ added = items \cup Expanded(g)
                              /\ changed = {t \in T : ~(added \subseteq grants[t])}
    OBVIOUS
  <2>2. PICK new : new = [u \in People |-> grants[u] \cup added]
    OBVIOUS
  <2>3. added \in SUBSET Functions /\ \A u \in People : grants[u] \in SUBSET Functions
    BY <2>1 DEF Expanded, AuthInv, TablesTyped
  <2>4. new \in [People -> SUBSET Functions] /\ changed \in SUBSET People
    BY <2>1, <2>2, <2>3
  <2>5. grants' = [u \in People |-> IF u \in changed THEN grants[u] \cup added ELSE grants[u]]
    BY <1>10, <2>1 DEF BatchGrant
  <2>6. grants' = [u \in People |-> IF u \in changed THEN new[u] ELSE grants[u]]
    BY <2>2, <2>5
  <2>7. pv' = Bumped(changed) /\ UNCHANGED <<status, super, catalog, dv>> /\ UNCHANGED <<cache, op>>
    BY <1>10, <2>1 DEF BatchGrant
  <2> QED
    BY <1>9, <2>4, <2>6, <2>7
<1>11. ASSUME NEW o \in People, NEW T \in SUBSET People, BatchRevoke(o, T) PROVE AuthInv'
  <2>1. PICK changed : changed = {t \in T : grants[t] \cap InScope(super[o], catalog) # {}}
    OBVIOUS
  <2>2. PICK new : new = [u \in People |-> grants[u] \ InScope(super[o], catalog)]
    OBVIOUS
  <2>3. new \in [People -> SUBSET Functions] /\ changed \in SUBSET People
    BY <2>1, <2>2 DEF AuthInv, TablesTyped
  <2>4. grants' = [u \in People |-> IF u \in changed THEN grants[u] \ InScope(super[o], catalog) ELSE grants[u]]
    BY <1>11, <2>1 DEF BatchRevoke
  <2>5. grants' = [u \in People |-> IF u \in changed THEN new[u] ELSE grants[u]]
    BY <2>2, <2>4
  <2>6. pv' = Bumped(changed) /\ UNCHANGED <<status, super, catalog, dv>> /\ UNCHANGED <<cache, op>>
    BY <1>11, <2>1 DEF BatchRevoke
  <2> QED
    BY <1>9, <2>3, <2>5, <2>6
<1>12. ASSUME NEW C \in SUBSET Functions, ReconcileCatalog(C) PROVE AuthInv'
  <2>1. catalog' = C /\ dv' = dv + 1 /\ UNCHANGED people /\ UNCHANGED <<cache, op>>
    BY <1>12 DEF ReconcileCatalog, NextDv
  <2>2. TablesTyped'
    BY <2>1 DEF AuthInv, TablesTyped, people
  <2>3. Rise
    BY <2>1, <2>2 DEF Rise, Deleted, people, AuthInv, TablesTyped
  <2> QED
    BY <2>1, <2>3, StandsStill
<1>13. ASSUME GroupStep PROVE AuthInv'
  <2>1. UNCHANGED <<people, catalog, dv>> /\ UNCHANGED <<cache, op>>
    BY <1>13 DEF GroupStep, SaveGroup, BatchDeleteGroups
  <2>2. Rise
    BY <2>1 DEF AuthInv, Rise, TablesTyped, people, Deleted
  <2> QED
    BY <2>1, <2>2, StandsStill
<1> QED
  BY <1>2, <1>4, <1>5, <1>6, <1>7, <1>8, <1>10, <1>11, <1>12, <1>13 DEF FormStep, BatchStep

(* loadAuthContext: the tables stand still.                                *)
LEMMA ContextSteps ==
  ASSUME AuthInv, ContextStep
  PROVE  AuthInv'
<1>1. ASSUME NEW p \in Procs, NEW u \in People, ReadVersions(p, u) PROVE AuthInv'
  <2>1. PICK z : z = [step |-> "cached", user |-> u, v |-> Versions(u)]
    OBVIOUS
  <2>2. op' = [op EXCEPT ![p] = z] /\ UNCHANGED <<people, catalog, dv>> /\ UNCHANGED cache
    BY <1>1, <2>1 DEF ReadVersions, Become
  <2>3. pv[u] \in Nat /\ dv \in Nat
    BY DEF AuthInv, TablesTyped
  <2>4. z \in Loads /\ Past(z.v, u)
    BY <2>1, <2>3 DEF Loads, LoadSteps, VersionPairs, Versions, Past
  <2>5. Past(z.v, z.user)'
    BY <2>1, <2>2, <2>4 DEF Past, people
  <2>6. Shape(z) /\ BuildSound(z)' /\ FormSound(z)'
    BY <2>1, <2>4, <2>5 DEF Shape, BuildSound, FormSound, BuildSteps, FormSteps
  <2> QED
    BY <2>2, <2>6, StillTables, TableMoves
<1>2. ASSUME NEW p \in Procs, ReadCache(p) PROVE AuthInv'
  <2>1. PICK q : q = op[p]
    OBVIOUS
  <2>2. PICK z : z = [q EXCEPT !.step = "rebuildUser"]
    OBVIOUS
  <2>3. q.step = "cached" /\ Shape(q) /\ BuildSound(q) /\ FormSound(q)
        /\ UNCHANGED <<people, catalog, dv>> /\ UNCHANGED cache
    BY <1>2, <2>1 DEF ReadCache, Doing, AuthInv
  <2>4. op' = [op EXCEPT ![p] = NoOp] \/ op' = [op EXCEPT ![p] = z]
    BY <1>2, <2>1, <2>2 DEF ReadCache, Become
  <2>5. q \in Loads /\ Past(q.v, q.user)
    BY <2>3 DEF Shape, LoadSteps, BuildSound
  <2>6. z \in Loads /\ z.step = "rebuildUser" /\ z.v = q.v /\ z.user = q.user
    BY <2>2, <2>5 DEF Loads, LoadSteps
  <2>7. Past(z.v, z.user)'
    BY <2>3, <2>5, <2>6 DEF Past, people
  <2>8. Shape(z) /\ BuildSound(z)' /\ FormSound(z)'
    BY <2>6, <2>7 DEF Shape, BuildSound, FormSound, BuildSteps, Loads, FormSteps
  <2>9. PICK n : n = NoOp
    OBVIOUS
  <2>10. Shape(n) /\ BuildSound(n)' /\ FormSound(n)'
    BY <2>9, NoOpIsPlain, PlainIsSound
  <2>11. Rise
    BY <2>3, <2>4, StillTables
  <2> QED
    BY <2>3, <2>4, <2>8, <2>9, <2>10, <2>11, TableMoves
<1>3. ASSUME NEW p \in Procs, RebuildUser(p) PROVE AuthInv'
  <2>1. PICK q, u : q = op[p] /\ u = q.user
    OBVIOUS
  <2>2. PICK z : z = [step |-> IF Context(u).super \/ Deleted(u) THEN "write" ELSE "rebuildGrants",
                      user |-> u, v |-> q.v, super |-> Context(u).super, codes |-> {}]
    OBVIOUS
  <2>3. q.step = "rebuildUser" /\ Shape(q) /\ BuildSound(q)
        /\ UNCHANGED <<people, catalog, dv>> /\ UNCHANGED cache
        /\ op' = [op EXCEPT ![p] = z]
    BY <1>3, <2>1, <2>2 DEF RebuildUser, Doing, Become, AuthInv
  <2>4. q \in Loads /\ u \in People /\ Past(q.v, u)
    BY <2>1, <2>3 DEF Shape, LoadSteps, BuildSound, Loads
  <2>5. Context(u).super \in BOOLEAN /\ Context(u).super = (super[u] /\ ~Deleted(u))
    BY <2>4 DEF Context, AuthInv, TablesTyped
  <2>6. z \in Builds /\ z.step \in {"write", "rebuildGrants"}
    BY <2>2, <2>4, <2>5 DEF Builds, BuildSteps, Loads
  <2>7. Past(z.v, z.user)'
    BY <2>2, <2>3, <2>4 DEF Past, people
  <2>8. z.step = "write" /\ ~Deleted(u) => super[u] /\ AsTables(z, u)
    BY <2>2, <2>5 DEF AsTables, Context
  <2>9. z.step = "rebuildGrants" => ~super[u] /\ ~z.super
    BY <2>2, <2>5
  <2>10. BuildSound(z)'
    BY <2>2, <2>3, <2>6, <2>7, <2>8, <2>9
       DEF BuildSound, Fresh, AsTables, Context, Deleted, people, BuildSteps, LoadSteps
  <2>11. Shape(z) /\ FormSound(z)'
    BY <2>6 DEF Shape, FormSound, LoadSteps, Builds, BuildSteps, FormSteps
  <2> QED
    BY <2>3, <2>10, <2>11, StillTables, TableMoves
<1>4. ASSUME NEW p \in Procs, RebuildGrants(p) PROVE AuthInv'
  <2>1. PICK q, u : q = op[p] /\ u = q.user
    OBVIOUS
  <2>2. PICK z : z = [q EXCEPT !.step = "rebuildCodes", !.codes = grants[u]]
    OBVIOUS
  <2>3. q.step = "rebuildGrants" /\ Shape(q) /\ BuildSound(q)
        /\ UNCHANGED <<people, catalog, dv>> /\ UNCHANGED cache
        /\ op' = [op EXCEPT ![p] = z]
    BY <1>4, <2>1, <2>2 DEF RebuildGrants, Doing, AuthInv
  <2>4. q \in Builds /\ u \in People /\ Past(q.v, u)
    BY <2>1, <2>3 DEF Shape, BuildSteps, BuildSound, Builds
  <2>5. grants[u] \in SUBSET Functions
    BY <2>4 DEF AuthInv, TablesTyped
  <2>6. z \in Builds /\ z.step = "rebuildCodes" /\ z.codes = grants[u]
        /\ z.v = q.v /\ z.user = u /\ z.super = q.super
    BY <2>1, <2>2, <2>4, <2>5 DEF Builds, BuildSteps
  <2>7. Fresh(q.v, u) => ~super[u] /\ ~q.super
    BY <2>1, <2>3, <2>4 DEF BuildSound, BuildSteps
  <2>8. Past(z.v, z.user)'
    BY <2>3, <2>4, <2>6 DEF Past, people
  <2>9. BuildSound(z)'
    BY <2>3, <2>6, <2>7, <2>8 DEF BuildSound, Fresh, Deleted, people
  <2>10. Shape(z) /\ FormSound(z)'
    BY <2>6 DEF Shape, FormSound, LoadSteps, Builds, FormSteps
  <2> QED
    BY <2>3, <2>9, <2>10, StillTables, TableMoves
<1>5. ASSUME NEW p \in Procs, RebuildCodes(p) PROVE AuthInv'
  <2>1. PICK q, u : q = op[p] /\ u = q.user
    OBVIOUS
  <2>2. PICK z : z = [q EXCEPT !.step = "write", !.codes = @ \cap catalog]
    OBVIOUS
  <2>3. q.step = "rebuildCodes" /\ Shape(q) /\ BuildSound(q)
        /\ UNCHANGED <<people, catalog, dv>> /\ UNCHANGED cache
        /\ op' = [op EXCEPT ![p] = z]
    BY <1>5, <2>1, <2>2 DEF RebuildCodes, Doing, AuthInv
  <2>4. q \in Builds /\ u \in People /\ Past(q.v, u)
    BY <2>1, <2>3 DEF Shape, BuildSteps, BuildSound, Builds
  <2>5. z \in Builds /\ z.step = "write" /\ z.codes = q.codes \cap catalog
        /\ z.v = q.v /\ z.user = u /\ z.super = q.super
    BY <2>1, <2>2, <2>4 DEF Builds, BuildSteps
  <2>6. Fresh(q.v, u) => ~super[u] /\ ~q.super /\ q.codes = grants[u]
    BY <2>1, <2>3, <2>4 DEF BuildSound, BuildSteps
  <2>7. Fresh(q.v, u) => AsTables(z, u)
    <3>1. q.super \in BOOLEAN /\ super[u] \in BOOLEAN
      BY <2>4 DEF Builds, AuthInv, TablesTyped
    <3> QED
      BY <2>5, <2>6, <3>1 DEF AsTables, Context, Fresh
  <2>8. Past(z.v, z.user)'
    BY <2>3, <2>4, <2>5 DEF Past, people
  <2>9. BuildSound(z)'
    BY <2>3, <2>5, <2>7, <2>8 DEF BuildSound, Fresh, AsTables, Context, Deleted, people
  <2>10. Shape(z) /\ FormSound(z)'
    BY <2>5 DEF Shape, FormSound, LoadSteps, Builds, FormSteps
  <2> QED
    BY <2>3, <2>9, <2>10, StillTables, TableMoves
<1>6. ASSUME UNCHANGED <<people, catalog, dv>>, NEW u \in People, NEW c, cache' = [cache EXCEPT ![u] = c],
             EntrySound(c, u),
             op' = op \/ \E p \in Procs : op' = [op EXCEPT ![p] = NoOp]
      PROVE  AuthInv'
  <2>1. TablesTyped' /\ Rise
    BY <1>6 DEF AuthInv, TablesTyped, Rise, people, Deleted
  <2>2. ASSUME NEW x \in Procs PROVE (Shape(op[x]) /\ BuildSound(op[x]) /\ FormSound(op[x]))'
    <3>1. PICK o : o = op'[x]
      OBVIOUS
    <3>2. o = op[x] \/ o = NoOp
      BY <1>6, <3>1 DEF AuthInv, TablesTyped
    <3>3. CASE o = op[x]
      BY <2>1, <3>1, <3>3, OpStays DEF AuthInv, Shape, BuildSound, FormSound
    <3>4. CASE o = NoOp
      <4>1. Shape(o) /\ BuildSound(o)' /\ FormSound(o)'
        BY <3>4, NoOpIsPlain, PlainIsSound
      <4> QED
        BY <3>1, <4>1 DEF Shape, BuildSound, FormSound
    <3> QED
      BY <3>2, <3>3, <3>4
  <2>3. ASSUME NEW x \in People PROVE EntrySound(cache[x], x)'
    <3>1. PICK e : e = cache'[x]
      OBVIOUS
    <3>2. EntrySound(e, x)
      BY <1>6, <3>1 DEF AuthInv, TablesTyped
    <3>3. EntrySound(e, x)'
      BY <2>1, <3>2, EntryStays
    <3> QED
      BY <3>1, <3>3 DEF EntrySound
  <2> QED
    BY <2>1, <2>2, <2>3 DEF AuthInv
<1>7. ASSUME NEW p \in Procs, WriteCache(p) PROVE AuthInv'
  <2>1. PICK q, u : q = op[p] /\ u = q.user
    OBVIOUS
  <2>2. PICK c : c = [v |-> q.v, super |-> q.super, codes |-> q.codes]
    OBVIOUS
  <2>3. q.step = "write" /\ Shape(q) /\ BuildSound(q)
        /\ UNCHANGED <<people, catalog, dv>> /\ cache' = [cache EXCEPT ![u] = c]
        /\ op' = [op EXCEPT ![p] = NoOp]
    BY <1>7, <2>1, <2>2 DEF WriteCache, StampRead, Doing, Become, AuthInv
  <2>4. q \in Builds /\ u \in People /\ Past(q.v, u)
    BY <2>1, <2>3 DEF Shape, BuildSteps, BuildSound, Builds
  <2>5. c \in Entries
    BY <2>2, <2>4 DEF Builds, Entries
  <2>6. Fresh(q.v, u) => AsTables(q, u)
    BY <2>1, <2>3 DEF BuildSound, BuildSteps
  <2>7. EntrySound(c, u)
    BY <2>2, <2>4, <2>5, <2>6 DEF EntrySound, AsTables
  <2> QED
    BY <1>6, <2>3, <2>4, <2>7
<1>8. ASSUME NEW u \in People, CacheExpires(u) PROVE AuthInv'
  <2>1. EntrySound(None, u) /\ cache' = [cache EXCEPT ![u] = None] /\ op' = op
        /\ UNCHANGED <<people, catalog, dv>>
    BY <1>8 DEF EntrySound, CacheExpires
  <2> QED
    BY <1>6, <2>1
<1> QED
  BY <1>1, <1>2, <1>3, <1>4, <1>5, <1>7, <1>8 DEF ContextStep

(* Appointments, demotions, deactivations and restorations.                *)
LEMMA RoleSteps ==
  ASSUME AuthInv, AppointStep \/ DemoteStep \/ LifecycleStep
  PROVE  AuthInv'
<1>1. ASSUME NEW p \in Procs, NEW z, Plain(z), Rise, op' = [op EXCEPT ![p] = z], UNCHANGED cache
      PROVE  AuthInv'
  BY <1>1, PlainIsSound, TableMoves
<1>2. ASSUME NEW p \in Procs, NEW z, Plain(z), op' = [op EXCEPT ![p] = z],
             UNCHANGED <<people, catalog, dv>>, UNCHANGED cache
      PROVE  AuthInv'
  BY <1>1, <1>2, StillTables
<1>3. ASSUME NEW p \in Procs, Abort(p) PROVE AuthInv'
  BY <1>2, <1>3, NoOpIsPlain DEF Abort, End
<1>4. ASSUME NEW p \in Procs, NEW t, NEW b \in BOOLEAN, End(p),
             super' = [super EXCEPT ![t] = b], pv' = [pv EXCEPT ![t] = @ + 1],
             UNCHANGED <<status, grants, catalog, dv, cache>>
      PROVE  AuthInv'
  <2>1. \A u \in People : pv[u] \in Nat
    BY DEF AuthInv, TablesTyped
  <2>2. pv' = [u \in People |-> IF u = t THEN pv[u] + 1 ELSE pv[u]]
    BY <1>4 DEF AuthInv, TablesTyped
  <2>3. \A u \in People : (IF u = t THEN pv[u] + 1 ELSE pv[u]) \in Nat
    BY <2>1
  <2>4. pv' \in [People -> Nat]
    BY <2>2, <2>3
  <2>5. super' \in [People -> BOOLEAN] /\ \A u \in People : u # t => super'[u] = super[u]
    BY <1>4 DEF AuthInv, TablesTyped
  <2>6. op' = [op EXCEPT ![p] = NoOp]
    BY <1>4 DEF End
  <2>7. TablesTyped'
    BY <1>4, <2>4, <2>5, <2>6 DEF AuthInv, TablesTyped
  <2>8. Rise
    BY <1>4, <2>1, <2>2, <2>5, <2>7 DEF Rise, Deleted, AuthInv, TablesTyped
  <2> QED
    BY <1>1, <1>4, <2>6, <2>8, NoOpIsPlain
<1>5. CASE AppointStep
  <2>1. ASSUME NEW p \in Procs, Appoint(p) PROVE AuthInv'
    <3>1. PICK t : t = op[p].target
      OBVIOUS
    <3> QED
      BY <1>4, <2>1, <3>1 DEF Appoint
  <2>2. ASSUME NEW p \in Procs, NEW o, NEW t, AppointRead(p, o, t) PROVE AuthInv'
    <3>1. PICK z : z = [step |-> "appoint", target |-> t]
      OBVIOUS
    <3>2. Plain(z)
      BY <3>1 DEF Plain, LoadSteps, BuildSteps, FormSteps
    <3> QED
      BY <1>2, <2>2, <3>1, <3>2 DEF AppointRead, Become
  <2> QED
    BY <1>5, <2>1, <2>2 DEF AppointStep
<1>6. CASE DemoteStep
  <2>1. ASSUME NEW p \in Procs, Demote(p) PROVE AuthInv'
    <3>1. PICK t : t = op[p].target
      OBVIOUS
    <3> QED
      BY <1>4, <2>1, <3>1 DEF Demote
  <2>2. ASSUME NEW p \in Procs, NEW o, NEW t, DemoteLock(p, o, t) PROVE AuthInv'
    <3>1. PICK z : z = [step |-> "demote", target |-> t]
      OBVIOUS
    <3>2. Plain(z)
      BY <3>1 DEF Plain, LoadSteps, BuildSteps, FormSteps
    <3> QED
      BY <1>2, <2>2, <3>1, <3>2 DEF DemoteLock, Become
  <2> QED
    BY <1>6, <2>1, <2>2 DEF DemoteStep
<1>7. CASE LifecycleStep
  <2>1. ASSUME NEW p \in Procs, NEW o, NEW T, DeactivateRead(p, o, T) PROVE AuthInv'
    <3>1. PICK z : z = [step |-> "targets", targets |-> T, lv |-> lv,
                        supers |-> {t \in T : super[t] /\ status[t] = "ACTIVE"}]
      OBVIOUS
    <3>2. Plain(z)
      BY <3>1 DEF Plain, LoadSteps, BuildSteps, FormSteps
    <3> QED
      BY <1>2, <2>1, <3>1, <3>2 DEF DeactivateRead, Become
  <2>2. ASSUME NEW p \in Procs, DeactivateLock(p) PROVE AuthInv'
    <3>1. PICK z : op' = [op EXCEPT ![p] = z] /\ (z = [step |-> "refused"] \/ z = [op[p] EXCEPT !.step = "deactivate"])
      BY <2>2 DEF DeactivateLock
    <3>2. "step" \in DOMAIN op[p]
      BY DEF AuthInv, Shape
    <3>3. Plain(z)
      BY <3>1, <3>2 DEF Plain, LoadSteps, BuildSteps, FormSteps
    <3> QED
      BY <1>2, <2>2, <3>1, <3>3 DEF DeactivateLock
  <2>3. ASSUME NEW p \in Procs, DeactivateRefused(p) PROVE AuthInv'
    BY <1>3, <2>3 DEF DeactivateRefused
  <2>4. ASSUME NEW p \in Procs, Deactivate(p) PROVE AuthInv'
    <3>1. PICK T : T = op[p].targets
      OBVIOUS
    <3>2. CASE Abort(p)
      BY <1>3, <3>2
    <3>3. CASE ~Abort(p)
      <4>1. /\ status' = [u \in People |-> IF u \in T THEN "DEACTIVATED" ELSE status[u]]
            /\ UNCHANGED <<super, pv, grants, catalog, dv, cache>> /\ op' = [op EXCEPT ![p] = NoOp]
        BY <2>4, <3>1, <3>3 DEF Deactivate, End
      <4>2. TablesTyped'
        BY <4>1 DEF AuthInv, TablesTyped
      <4>3. Rise
        BY <4>1, <4>2 DEF Rise, Deleted, AuthInv, TablesTyped
      <4> QED
        BY <1>1, <4>1, <4>3, NoOpIsPlain
    <3> QED
      BY <3>2, <3>3
  <2>5. ASSUME NEW p \in Procs, NEW o, NEW t, RestoreRead(p, o, t) PROVE AuthInv'
    <3>1. PICK z : z = [step |-> "restore", target |-> t, seen |-> lv[t], catalog |-> catalog]
      OBVIOUS
    <3>2. Plain(z)
      BY <3>1 DEF Plain, LoadSteps, BuildSteps, FormSteps
    <3> QED
      BY <1>2, <2>5, <3>1, <3>2 DEF RestoreRead, Become
  <2>6. ASSUME NEW p \in Procs, Restore(p) PROVE AuthInv'
    <3>1. PICK t, C : t = op[p].target /\ C = op[p].catalog
      OBVIOUS
    <3>2. CASE Abort(p)
      BY <1>3, <3>2
    <3>3. CASE ~Abort(p)
      <4>1. /\ status' = [status EXCEPT ![t] = "ACTIVE"] /\ pv' = [pv EXCEPT ![t] = @ + 1]
            /\ grants' = [grants EXCEPT ![t] = @ \cap C]
            /\ UNCHANGED <<super, catalog, dv, cache>> /\ op' = [op EXCEPT ![p] = NoOp]
        BY <2>6, <3>1, <3>3 DEF Restore, End, NextPv
      <4>2. \A u \in People : pv[u] \in Nat
        BY DEF AuthInv, TablesTyped
      <4>3. pv' = [u \in People |-> IF u = t THEN pv[u] + 1 ELSE pv[u]]
        BY <4>1 DEF AuthInv, TablesTyped
      <4>4. \A u \in People : (IF u = t THEN pv[u] + 1 ELSE pv[u]) \in Nat
        BY <4>2
      <4>5. pv' \in [People -> Nat]
        BY <4>3, <4>4
      <4>6. grants' \in [People -> SUBSET Functions] /\ status' = [u \in People |-> status'[u]]
        BY <4>1 DEF AuthInv, TablesTyped
      <4>7. TablesTyped'
        BY <4>1, <4>5, <4>6 DEF AuthInv, TablesTyped
      <4>8. Rise
        BY <4>1, <4>2, <4>3, <4>7 DEF Rise, Deleted, AuthInv, TablesTyped
      <4> QED
        BY <1>1, <4>1, <4>8, NoOpIsPlain
    <3> QED
      BY <3>2, <3>3
  <2> QED
    BY <1>7, <2>1, <2>2, <2>3, <2>4, <2>5, <2>6 DEF LifecycleStep
<1> QED
  BY <1>5, <1>6, <1>7

LEMMA AuthInvAlways == AuthoritySpec => []AuthInv
<1>1. AuthorityInit => AuthInv
  <2> SUFFICES ASSUME AuthorityInit PROVE AuthInv
    OBVIOUS
  <2>1. TablesTyped
    <3>1. /\ status = [u \in People |-> status[u]] /\ pv \in [People -> Nat]
          /\ super \in [People -> BOOLEAN] /\ dv \in Nat
      BY DEF AuthorityInit
    <3>2. grants \in [People -> SUBSET Functions] /\ catalog \in SUBSET Functions
      BY DEF AuthorityInit
    <3>3. cache = [u \in People |-> cache[u]] /\ op = [p \in Procs |-> op[p]]
      BY DEF AuthorityInit
    <3> QED
      BY <3>1, <3>2, <3>3 DEF TablesTyped
  <2>2. ASSUME NEW p \in Procs PROVE Shape(op[p]) /\ BuildSound(op[p]) /\ FormSound(op[p])
    BY NoOpIsPlain DEF AuthorityInit, Plain, Shape, BuildSound, FormSound
  <2>3. ASSUME NEW u \in People PROVE EntrySound(cache[u], u)
    BY DEF AuthorityInit, EntrySound
  <2> QED
    BY <2>1, <2>2, <2>3 DEF AuthInv
<1>2. AuthInv /\ [AuthorityNext]_authorityVars => AuthInv'
  <2>1. ASSUME AuthInv, UNCHANGED authorityVars PROVE AuthInv'
    <3>1. UNCHANGED <<cache, op>> /\ UNCHANGED <<people, catalog, dv>>
      BY <2>1 DEF authorityVars
    <3>2. Rise
      BY <2>1, <3>1 DEF AuthInv, Rise, TablesTyped, people, Deleted
    <3> QED
      BY <2>1, <3>1, <3>2, StandsStill
  <2> QED
    BY <2>1, ContextSteps, GrantSteps, RoleSteps DEF AuthorityNext
<1> QED
  BY <1>1, <1>2, PTL DEF AuthoritySpec

(* CacheCurrent for any accounts, functions and processes: the entry of a  *)
(* version that still holds is the authorization of the tables.            *)
THEOREM CacheAlwaysCurrent == AuthoritySpec => []CacheCurrent
<1>1. AuthInv => CacheCurrent
  <2> SUFFICES ASSUME AuthInv, NEW u \in People, cache[u] # None, ~Deleted(u), cache[u].v = Versions(u)
               PROVE  [super |-> cache[u].super, codes |-> cache[u].codes] = Context(u)
    BY DEF CacheCurrent
  <2>1. Fresh(cache[u].v, u)
    BY DEF Fresh, Versions
  <2>2. AsTables(cache[u], u)
    BY <2>1 DEF AuthInv, EntrySound
  <2> QED
    BY <2>2 DEF AsTables, Context
<1> QED
  BY <1>1, AuthInvAlways, PTL

(* FormCurrent for any accounts, functions and processes: a form whose     *)
(* version holds shows every grant its catalog has, and a save takes away  *)
(* nothing else but a function registered again since (getEmployeeGrants,  *)
(* saveEmployeeGrants).                                                    *)
THEOREM FormAlwaysCurrent == AuthoritySpec => []FormCurrent
<1>1. ASSUME AuthInv PROVE FormCurrent
  <2> SUFFICES ASSUME NEW p \in Procs, op[p].step \in Shown, op[p].pv = pv[op[p].target]
               PROVE  /\ op[p].shown = grants[op[p].target] \cap op[p].listed
                      /\ Replaced(p) \subseteq op[p].shown \cup (op[p].catalog \ op[p].listed)
    BY DEF FormCurrent, Shown
  <2>1. op[p].shown = grants[op[p].target] \cap op[p].listed
    BY <1>1 DEF AuthInv, FormSound, Shown, FormSteps
  <2> QED
    BY <2>1 DEF Replaced, InScope
<1> QED
  BY <1>1, AuthInvAlways, PTL

-----------------------------------------------------------------------------
(* The last super administrator.  A transaction that locked the active     *)
(* super administrators holds rows nobody else can demote or deactivate,   *)
(* and it left one of them out of what it is about to remove.              *)

RoleSound(o, rows) ==
  /\ o.step = "demote" => rows \ {o.target} # {}
  /\ o.step \in {"targets", "deactivate"} =>
       {"supers", "targets", "lv"} \subseteq DOMAIN o /\ o.supers \subseteq People
  /\ o.step = "deactivate" => o.supers = {} \/ Cardinality(rows) > Cardinality(o.supers)

SuperInv ==
  /\ held = [p \in Procs |-> held[p]]
  /\ \A p \in Procs : held[p] \subseteq ActiveSupers /\ RoleSound(op[p], held[p])

RemovalSteps == {"demote", "targets", "deactivate"}
OthersKept(p) == \A q \in Procs \ {p} : held[q] \subseteq ActiveSupers'

LEMMA OthersMove ==
  ASSUME AuthInv, SuperInv, NEW p \in Procs, OthersKept(p), NEW z, NEW rows,
         op' = [op EXCEPT ![p] = z], held' = [held EXCEPT ![p] = rows],
         rows \subseteq ActiveSupers', RoleSound(z, rows)
  PROVE  SuperInv'
<1>1. op'[p] = z /\ held'[p] = rows /\ held' = [q \in Procs |-> held'[q]]
      /\ \A q \in Procs \ {p} : op'[q] = op[q] /\ held'[q] = held[q]
  BY DEF SuperInv, AuthInv, TablesTyped
<1>2. ASSUME NEW q \in Procs PROVE held'[q] \subseteq ActiveSupers' /\ RoleSound(op'[q], held'[q])
  <2>1. CASE q = p
    BY <1>1, <2>1
  <2>2. CASE q # p
    BY <1>1, <2>2 DEF SuperInv, OthersKept
  <2> QED
    BY <2>1, <2>2
<1> QED
  BY <1>1, <1>2 DEF SuperInv

(* A step that starts no removal and unlocks its rows or keeps them.       *)
LEMMA NoRemoval ==
  ASSUME AuthInv, SuperInv, NEW p \in Procs, ActiveSupers \subseteq ActiveSupers', NEW z,
         op' = [op EXCEPT ![p] = z], z.step \notin RemovalSteps,
         held' = held \/ held' = [held EXCEPT ![p] = {}]
  PROVE  SuperInv'
<1>1. PICK rows : rows \in {held[p], {}} /\ held' = [held EXCEPT ![p] = rows]
  BY DEF SuperInv
<1>2. rows \subseteq ActiveSupers' /\ OthersKept(p)
  BY <1>1 DEF SuperInv, OthersKept
<1>3. RoleSound(z, rows)
  BY DEF RoleSound, RemovalSteps
<1> QED
  BY <1>1, <1>2, <1>3, OthersMove

LEMMA SameSupers ==
  ASSUME UNCHANGED <<status, super>>
  PROVE  ActiveSupers' = ActiveSupers
  BY DEF ActiveSupers

LEMMA NobodyMoves ==
  ASSUME SuperInv, UNCHANGED <<status, super, held, op>>
  PROVE  SuperInv'
  BY SameSupers DEF SuperInv

(* Rows another transaction holds are still active super administrators    *)
(* when an update leaves every account it does not name alone.             *)
LEMMA LockedStay ==
  ASSUME AuthInv, SuperInv, NEW p \in Procs, NEW T, T \cap LockedByOthers(p) = {},
         \A u \in People \ T : super'[u] = super[u] /\ status'[u] = status[u]
  PROVE  OthersKept(p)
<1>1. SUFFICES ASSUME NEW q \in Procs \ {p}, NEW u \in held[q] PROVE u \in ActiveSupers'
  BY DEF OthersKept
<1>2. u \in ActiveSupers /\ u \in People \ T
  BY <1>1 DEF SuperInv, ActiveSupers, LockedByOthers
<1> QED
  BY <1>2 DEF ActiveSupers

LEMMA FiniteSupers == IsFiniteSet(ActiveSupers) /\ Cardinality(ActiveSupers) \in Nat
<1>1. ActiveSupers \in SUBSET People
  BY DEF ActiveSupers
<1> QED
  BY <1>1, FS_Subset, FS_CardinalityType, AuthorityAssumption

LEMMA RemovalsSound ==
  ASSUME AuthInv, SuperInv, AppointStep \/ DemoteStep \/ LifecycleStep
  PROVE  SuperInv'
<1>1. ASSUME NEW p \in Procs, Abort(p) PROVE SuperInv'
  <2>1. op' = [op EXCEPT ![p] = NoOp] /\ held' = [held EXCEPT ![p] = {}]
        /\ UNCHANGED <<status, super>> /\ NoOp.step \notin RemovalSteps
    BY <1>1 DEF Abort, End, people, NoOp, RemovalSteps
  <2> QED
    BY <2>1, SameSupers, NoRemoval
<1>2. ASSUME NEW p \in Procs, End(p), OthersKept(p) PROVE SuperInv'
  <2>1. RoleSound(NoOp, {})
    BY DEF RoleSound, NoOp
  <2> QED
    BY <1>2, <2>1, OthersMove DEF End
<1>3. ASSUME NEW p \in Procs, NEW t, t \notin LockedByOthers(p), End(p),
             NEW b, super' = [super EXCEPT ![t] = b], UNCHANGED status
      PROVE  SuperInv'
  <2>1. \A u \in People \ {t} : super'[u] = super[u] /\ status'[u] = status[u]
    BY <1>3 DEF AuthInv, TablesTyped
  <2>2. OthersKept(p)
    BY <1>3, <2>1, LockedStay
  <2> QED
    BY <1>2, <1>3, <2>2
<1>4. ASSUME NEW p \in Procs, Appoint(p) PROVE SuperInv'
  <2>1. PICK t : t = op[p].target
    OBVIOUS
  <2> QED
    BY <1>3, <1>4, <2>1 DEF Appoint
<1>5. ASSUME NEW p \in Procs, NEW o, NEW t, AppointRead(p, o, t) PROVE SuperInv'
  <2>1. PICK z : z = [step |-> "appoint", target |-> t]
    OBVIOUS
  <2> QED
    BY <1>5, <2>1, SameSupers, NoRemoval DEF AppointRead, Become, people, RemovalSteps
<1>6. ASSUME NEW p \in Procs, Demote(p) PROVE SuperInv'
  <2>1. PICK t : t = op[p].target
    OBVIOUS
  <2> QED
    BY <1>3, <1>6, <2>1 DEF Demote
<1>7. ASSUME NEW p \in Procs, LockSupers(p), UNCHANGED <<status, super>>, NEW z,
             op' = [op EXCEPT ![p] = z], RoleSound(z, ActiveSupers)
      PROVE  SuperInv'
  <2>1. PICK rows : rows = ActiveSupers
    OBVIOUS
  <2>2. held' = [held EXCEPT ![p] = rows] /\ rows \subseteq ActiveSupers' /\ OthersKept(p)
    BY <1>7, <2>1, SameSupers DEF LockSupers, OthersKept, SuperInv
  <2> QED
    BY <1>7, <2>1, <2>2, OthersMove
<1>8. ASSUME NEW p \in Procs, NEW o, NEW t, DemoteLock(p, o, t) PROVE SuperInv'
  <2>1. PICK z : z = [step |-> "demote", target |-> t]
    OBVIOUS
  <2>2. o \in ActiveSupers /\ (t \in ActiveSupers => Cardinality(ActiveSupers) > 1)
    BY <1>8 DEF DemoteLock, ActiveSupers
  <2>3. ActiveSupers \ {t} # {}
    <3>1. SUFFICES ASSUME ActiveSupers \ {t} = {} PROVE FALSE
      OBVIOUS
    <3>2. ActiveSupers = {t}
      BY <2>2, <3>1
    <3> QED
      BY <2>2, <3>2, FS_Singleton
  <2>4. RoleSound(z, ActiveSupers)
    BY <2>1, <2>3 DEF RoleSound
  <2> QED
    BY <1>7, <1>8, <2>1, <2>4 DEF DemoteLock, Become, people
<1>9. ASSUME NEW p \in Procs, NEW o, NEW T \in SUBSET People, DeactivateRead(p, o, T) PROVE SuperInv'
  <2>1. PICK z : z = [step |-> "targets", targets |-> T, lv |-> lv,
                      supers |-> {t \in T : super[t] /\ status[t] = "ACTIVE"}]
    OBVIOUS
  <2>2. op' = [op EXCEPT ![p] = z] /\ UNCHANGED <<status, super, held>> /\ op[p].step = "none"
    BY <1>9, <2>1 DEF DeactivateRead, Become, people, Doing
  <2>3. RoleSound(z, held[p])
    BY <2>1 DEF RoleSound
  <2>4. OthersKept(p) /\ held' = [held EXCEPT ![p] = held[p]] /\ held[p] \subseteq ActiveSupers'
    BY <2>2, SameSupers DEF OthersKept, SuperInv
  <2> QED
    BY <2>2, <2>3, <2>4, OthersMove
<1>10. ASSUME NEW p \in Procs, DeactivateLock(p) PROVE SuperInv'
  <2>1. PICK q : q = op[p]
    OBVIOUS
  <2>2. /\ q.step = "targets" /\ LockSupers(p) /\ UNCHANGED <<status, super>>
        /\ "step" \in DOMAIN q /\ RoleSound(q, held[p])
    BY <1>10, <2>1 DEF DeactivateLock, Doing, people, SuperInv, AuthInv, Shape
  <2>3. CASE q.supers # {} /\ Cardinality(ActiveSupers) <= Cardinality(q.supers)
    <3>1. PICK z : z = [step |-> "refused"]
      OBVIOUS
    <3>2. op' = [op EXCEPT ![p] = z]
      BY <1>10, <2>1, <2>3, <3>1 DEF DeactivateLock
    <3>3. RoleSound(z, ActiveSupers)
      BY <3>1 DEF RoleSound
    <3> QED
      BY <1>7, <2>2, <3>2, <3>3
  <2>4. CASE ~(q.supers # {} /\ Cardinality(ActiveSupers) <= Cardinality(q.supers))
    <3>1. PICK z : z = [q EXCEPT !.step = "deactivate"]
      OBVIOUS
    <3>2. op' = [op EXCEPT ![p] = z]
      BY <1>10, <2>1, <2>4, <3>1 DEF DeactivateLock
    <3>3. {"supers", "targets", "lv"} \subseteq DOMAIN q /\ q.supers \subseteq People
      BY <2>2 DEF RoleSound
    <3>4. z.step = "deactivate" /\ z.supers = q.supers /\ DOMAIN z = DOMAIN q
      BY <2>2, <3>1, <3>3
    <3>5. Cardinality(q.supers) \in Nat /\ Cardinality(ActiveSupers) \in Nat
      BY <3>3, FiniteSupers, FS_Subset, FS_CardinalityType, AuthorityAssumption
    <3>6. q.supers = {} \/ Cardinality(ActiveSupers) > Cardinality(q.supers)
      BY <2>4, <3>5
    <3>7. RoleSound(z, ActiveSupers)
      BY <3>3, <3>4, <3>6 DEF RoleSound
    <3> QED
      BY <1>7, <2>2, <3>2, <3>7
  <2> QED
    BY <2>3, <2>4
<1>11. ASSUME NEW p \in Procs, Deactivate(p) PROVE SuperInv'
  <2>1. PICK T : T = op[p].targets
    OBVIOUS
  <2>2. CASE Abort(p)
    BY <1>1, <2>2
  <2>3. CASE ~Abort(p)
    <3>1. /\ T \cap LockedByOthers(p) = {} /\ End(p) /\ UNCHANGED super
          /\ status' = [u \in People |-> IF u \in T THEN "DEACTIVATED" ELSE status[u]]
      BY <1>11, <2>1, <2>3 DEF Deactivate
    <3>2. \A u \in People \ T : super'[u] = super[u] /\ status'[u] = status[u]
      BY <3>1
    <3> QED
      BY <1>2, <3>1, <3>2, LockedStay
  <2> QED
    BY <2>2, <2>3
<1>12. ASSUME NEW p \in Procs, NEW o, NEW t, RestoreRead(p, o, t) PROVE SuperInv'
  <2>1. PICK z : z = [step |-> "restore", target |-> t, seen |-> lv[t], catalog |-> catalog]
    OBVIOUS
  <2> QED
    BY <1>12, <2>1, SameSupers, NoRemoval DEF RestoreRead, Become, people, RemovalSteps
<1>13. ASSUME NEW p \in Procs, Restore(p) PROVE SuperInv'
  <2>1. PICK t : t = op[p].target
    OBVIOUS
  <2>2. CASE Abort(p)
    BY <1>1, <2>2
  <2>3. CASE ~Abort(p)
    <3>1. /\ t \notin LockedByOthers(p) /\ End(p) /\ UNCHANGED super
          /\ status' = [status EXCEPT ![t] = "ACTIVE"]
      BY <1>13, <2>1, <2>3 DEF Restore
    <3>2. \A u \in People \ {t} : super'[u] = super[u] /\ status'[u] = status[u]
      BY <3>1 DEF AuthInv, TablesTyped
    <3>3. {t} \cap LockedByOthers(p) = {}
      BY <3>1
    <3>4. OthersKept(p)
      BY <3>2, <3>3, LockedStay
    <3> QED
      BY <1>2, <3>1, <3>4
  <2> QED
    BY <2>2, <2>3
<1> QED
  BY <1>1, <1>4, <1>5, <1>6, <1>8, <1>9, <1>10, <1>11, <1>12, <1>13
     DEF AppointStep, DemoteStep, LifecycleStep, DeactivateRefused

(* Contexts, forms, batches and groups touch no role, status or row lock   *)
(* but the rows their own transaction ends with.                           *)
LEMMA OthersSound ==
  ASSUME AuthInv, SuperInv, ContextStep \/ FormStep \/ BatchStep \/ GroupStep
  PROVE  SuperInv' /\ UNCHANGED <<status, super>>
<1>1. ASSUME NEW p \in Procs, NEW z, op' = [op EXCEPT ![p] = z], z.step \notin RemovalSteps,
             UNCHANGED <<status, super>>, held' = held \/ held' = [held EXCEPT ![p] = {}]
      PROVE  SuperInv'
  BY <1>1, SameSupers, NoRemoval
<1>2. NoOp.step \notin RemovalSteps
  BY DEF NoOp, RemovalSteps
<1>3. CASE ContextStep
  <2>1. ASSUME NEW p \in Procs, NEW u, ReadVersions(p, u) PROVE SuperInv' /\ UNCHANGED <<status, super>>
    <3>1. PICK z : z = [step |-> "cached", user |-> u, v |-> Versions(u)]
      OBVIOUS
    <3> QED
      BY <1>1, <2>1, <3>1 DEF ReadVersions, Become, people, RemovalSteps
  <2>2. ASSUME NEW p \in Procs, ReadCache(p) PROVE SuperInv' /\ UNCHANGED <<status, super>>
    <3>1. PICK z : op' = [op EXCEPT ![p] = z] /\ (z = NoOp \/ z = [op[p] EXCEPT !.step = "rebuildUser"])
      BY <2>2 DEF ReadCache, Become
    <3>2. "step" \in DOMAIN op[p]
      BY DEF AuthInv, Shape
    <3>3. z.step \notin RemovalSteps
      BY <1>2, <3>1, <3>2 DEF RemovalSteps
    <3> QED
      BY <1>1, <2>2, <3>1, <3>3 DEF ReadCache, people
  <2>3. ASSUME NEW p \in Procs, RebuildUser(p) PROVE SuperInv' /\ UNCHANGED <<status, super>>
    <3>1. PICK u : u = op[p].user
      OBVIOUS
    <3>2. PICK z : z = [step |-> IF Context(u).super \/ Deleted(u) THEN "write" ELSE "rebuildGrants",
                        user |-> u, v |-> op[p].v, super |-> Context(u).super, codes |-> {}]
      OBVIOUS
    <3>3. op' = [op EXCEPT ![p] = z] /\ UNCHANGED <<status, super, held>>
      BY <2>3, <3>1, <3>2 DEF RebuildUser, Become, people
    <3>4. z.step \notin RemovalSteps
      BY <3>2 DEF RemovalSteps
    <3> QED
      BY <1>1, <3>3, <3>4
  <2>4. ASSUME NEW p \in Procs, RebuildGrants(p) PROVE SuperInv' /\ UNCHANGED <<status, super>>
    <3>1. PICK q : q = op[p]
      OBVIOUS
    <3>2. PICK z : z = [q EXCEPT !.step = "rebuildCodes", !.codes = grants[op[p].user]]
      OBVIOUS
    <3>3. op' = [op EXCEPT ![p] = z] /\ UNCHANGED <<status, super, held>> /\ "step" \in DOMAIN q
      BY <2>4, <3>1, <3>2 DEF RebuildGrants, people, AuthInv, Shape
    <3>4. z.step \notin RemovalSteps
      BY <3>2, <3>3 DEF RemovalSteps
    <3> QED
      BY <1>1, <3>3, <3>4
  <2>5. ASSUME NEW p \in Procs, RebuildCodes(p) PROVE SuperInv' /\ UNCHANGED <<status, super>>
    <3>1. PICK q : q = op[p]
      OBVIOUS
    <3>2. PICK z : z = [q EXCEPT !.step = "write", !.codes = @ \cap catalog]
      OBVIOUS
    <3>3. op' = [op EXCEPT ![p] = z] /\ UNCHANGED <<status, super, held>> /\ "step" \in DOMAIN q
      BY <2>5, <3>1, <3>2 DEF RebuildCodes, people, AuthInv, Shape
    <3>4. z.step \notin RemovalSteps
      BY <3>2, <3>3 DEF RemovalSteps
    <3> QED
      BY <1>1, <3>3, <3>4
  <2>6. ASSUME NEW p \in Procs, WriteCache(p) PROVE SuperInv' /\ UNCHANGED <<status, super>>
    BY <1>1, <1>2, <2>6 DEF WriteCache, Become, people
  <2>7. ASSUME NEW u, CacheExpires(u) PROVE SuperInv' /\ UNCHANGED <<status, super>>
    BY <2>7, NobodyMoves DEF CacheExpires, people
  <2> QED
    BY <1>3, <2>1, <2>2, <2>3, <2>4, <2>5, <2>6, <2>7 DEF ContextStep
<1>4. CASE FormStep
  <2>1. ASSUME NEW p \in Procs, NEW t, OpenForm(p, t) PROVE SuperInv' /\ UNCHANGED <<status, super>>
    <3>1. PICK z : z = [step |-> "listing", target |-> t, pv |-> pv[t], listed |-> {}, shown |-> {},
                        operator |-> t, super |-> FALSE, catalog |-> {}]
      OBVIOUS
    <3> QED
      BY <1>1, <2>1, <3>1 DEF OpenForm, Become, people, RemovalSteps
  <2>2. ASSUME NEW p \in Procs, ListCatalog(p) PROVE SuperInv' /\ UNCHANGED <<status, super>>
    <3>1. PICK q : q = op[p]
      OBVIOUS
    <3>2. PICK z : z = [q EXCEPT !.step = "showing", !.listed = catalog]
      OBVIOUS
    <3>3. op' = [op EXCEPT ![p] = z] /\ UNCHANGED <<status, super, held>> /\ "step" \in DOMAIN q
      BY <2>2, <3>1, <3>2 DEF ListCatalog, people, AuthInv, Shape
    <3>4. z.step \notin RemovalSteps
      BY <3>2, <3>3 DEF RemovalSteps
    <3> QED
      BY <1>1, <3>3, <3>4
  <2>3. ASSUME NEW p \in Procs, ShowGrants(p) PROVE SuperInv' /\ UNCHANGED <<status, super>>
    <3>1. PICK q : q = op[p]
      OBVIOUS
    <3>2. PICK z : z = [q EXCEPT !.step = "form", !.shown = grants[op[p].target] \cap q.listed]
      OBVIOUS
    <3>3. op' = [op EXCEPT ![p] = z] /\ UNCHANGED <<status, super, held>> /\ "step" \in DOMAIN q
      BY <2>3, <3>1, <3>2 DEF ShowGrants, people, AuthInv, Shape
    <3>4. z.step \notin RemovalSteps
      BY <3>2, <3>3 DEF RemovalSteps
    <3> QED
      BY <1>1, <3>3, <3>4
  <2>4. ASSUME NEW p \in Procs, NEW o, LoadOperator(p, o) PROVE SuperInv' /\ UNCHANGED <<status, super>>
    <3>1. PICK q : q = op[p]
      OBVIOUS
    <3>2. PICK z : z = [q EXCEPT !.step = "saving", !.operator = o, !.super = super[o]]
      OBVIOUS
    <3>3. op' = [op EXCEPT ![p] = z] /\ UNCHANGED <<status, super, held>> /\ "step" \in DOMAIN q
      BY <2>4, <3>1, <3>2 DEF LoadOperator, people, AuthInv, Shape
    <3>4. z.step \notin RemovalSteps
      BY <3>2, <3>3 DEF RemovalSteps
    <3> QED
      BY <1>1, <3>3, <3>4
  <2>5. ASSUME NEW p \in Procs, LoadCatalog(p) PROVE SuperInv' /\ UNCHANGED <<status, super>>
    <3>1. PICK q : q = op[p]
      OBVIOUS
    <3>2. PICK z : z = [q EXCEPT !.step = "save", !.catalog = catalog]
      OBVIOUS
    <3>3. op' = [op EXCEPT ![p] = z] /\ UNCHANGED <<status, super, held>> /\ "step" \in DOMAIN q
      BY <2>5, <3>1, <3>2 DEF LoadCatalog, people, AuthInv, Shape
    <3>4. z.step \notin RemovalSteps
      BY <3>2, <3>3 DEF RemovalSteps
    <3> QED
      BY <1>1, <3>3, <3>4
  <2>6. ASSUME NEW p \in Procs, NEW items, SaveEmployeeGrants(p, items)
        PROVE  SuperInv' /\ UNCHANGED <<status, super>>
    <3>1. End(p) /\ UNCHANGED <<status, super>>
      BY <2>6 DEF SaveEmployeeGrants, Abort, people
    <3> QED
      BY <1>1, <1>2, <3>1 DEF End
  <2> QED
    BY <1>4, <2>1, <2>2, <2>3, <2>4, <2>5, <2>6 DEF FormStep
<1>5. CASE BatchStep
  BY <1>5, NobodyMoves DEF BatchStep, BatchGrant, BatchRevoke, ReconcileCatalog, people
<1>6. CASE GroupStep
  BY <1>6, NobodyMoves DEF GroupStep, SaveGroup, BatchDeleteGroups, people
<1> QED
  BY <1>3, <1>4, <1>5, <1>6

LEMMA SuperInvAlways == AuthoritySpec => []SuperInv
<1>1. AuthorityInit => SuperInv
  <2> SUFFICES ASSUME AuthorityInit PROVE SuperInv
    OBVIOUS
  <2>1. held = [p \in Procs |-> held[p]] /\ \A p \in Procs : held[p] = {} /\ op[p] = NoOp
    BY DEF AuthorityInit
  <2>2. RoleSound(NoOp, {})
    BY DEF RoleSound, NoOp
  <2> QED
    BY <2>1, <2>2 DEF SuperInv
<1>2. AuthInv /\ SuperInv /\ [AuthorityNext]_authorityVars => SuperInv'
  <2>1. ASSUME SuperInv, UNCHANGED authorityVars PROVE SuperInv'
    BY <2>1, NobodyMoves DEF authorityVars, people
  <2> QED
    BY <2>1, RemovalsSound, OthersSound DEF AuthorityNext
<1> QED
  BY <1>1, <1>2, AuthInvAlways, PTL DEF AuthoritySpec

(* An update that names t empties the active super administrators only if  *)
(* it takes t away from them.                                              *)
LEMMA OneKept ==
  ASSUME NEW t, NEW u \in ActiveSupers, u # t, super' = [super EXCEPT ![t] = FALSE], UNCHANGED status,
         super = [x \in People |-> super[x]]
  PROVE  ActiveSupers' # {}
  BY DEF ActiveSupers

(* LastSuperStays for any accounts and processes: of all steps, only a     *)
(* deactivation can take the last active super administrator away, and     *)
(* only one whose targets changed their roles after it had read them.      *)
THEOREM LastSuperAlwaysStays == AuthoritySpec => LastSuperStays
<1> DEFINE Excused == \E p \in Procs : /\ Doing(p, "deactivate") /\ op'[p] = NoOp
                                       /\ op[p].supers # op[p].targets \cap ActiveSupers
           Kept == ActiveSupers # {} /\ ActiveSupers' = {} => Excused
<1>1. AuthInv /\ SuperInv /\ [AuthorityNext]_authorityVars => [Kept]_authorityVars
  <2> SUFFICES ASSUME AuthInv, SuperInv, AuthorityNext, ActiveSupers # {}, ActiveSupers' = {}
               PROVE  Excused
    BY DEF authorityVars
  <2>1. UNCHANGED <<status, super>> => FALSE
    BY SameSupers
  <2>2. ASSUME NEW p \in Procs, Abort(p) PROVE FALSE
    BY <2>1, <2>2 DEF Abort, people
  <2>3. ASSUME NEW p \in Procs, Appoint(p) PROVE FALSE
    <3>1. PICK t : t = op[p].target
      OBVIOUS
    <3>2. super' = [super EXCEPT ![t] = TRUE] /\ UNCHANGED status /\ super = [x \in People |-> super[x]]
      BY <2>3, <3>1 DEF Appoint, AuthInv, TablesTyped
    <3>3. ActiveSupers \subseteq ActiveSupers'
      BY <3>2 DEF ActiveSupers
    <3> QED
      BY <3>3
  <2>4. ASSUME NEW p \in Procs, Demote(p) PROVE FALSE
    <3>1. PICK t : t = op[p].target
      OBVIOUS
    <3>2. super' = [super EXCEPT ![t] = FALSE] /\ UNCHANGED status /\ super = [x \in People |-> super[x]]
      BY <2>4, <3>1 DEF Demote, AuthInv, TablesTyped
    <3>3. held[p] \subseteq ActiveSupers /\ held[p] \ {t} # {}
      BY <2>4, <3>1 DEF Demote, Doing, SuperInv, RoleSound
    <3> QED
      BY <3>2, <3>3, OneKept
  <2>5. ASSUME NEW p \in Procs, Deactivate(p) PROVE Excused
    <3>1. PICK T, S : T = op[p].targets /\ S = op[p].supers
      OBVIOUS
    <3>2. CASE Abort(p)
      BY <2>2, <3>2
    <3>3. CASE ~Abort(p)
      <4>1. /\ Doing(p, "deactivate") /\ End(p) /\ UNCHANGED super
            /\ status' = [u \in People |-> IF u \in T THEN "DEACTIVATED" ELSE status[u]]
        BY <2>5, <3>1, <3>3 DEF Deactivate
      <4>2. op'[p] = NoOp
        BY <4>1 DEF End, AuthInv, TablesTyped
      <4>3. ActiveSupers \subseteq T
        BY <4>1 DEF ActiveSupers
      <4>4. held[p] \subseteq ActiveSupers /\ (S = {} \/ Cardinality(held[p]) > Cardinality(S))
        BY <3>1, <4>1 DEF SuperInv, RoleSound, Doing
      <4>5. ASSUME S = T \cap ActiveSupers PROVE FALSE
        <5>1. S = ActiveSupers /\ held[p] \in SUBSET S
          BY <4>3, <4>4, <4>5
        <5>2. IsFiniteSet(S) /\ Cardinality(S) \in Nat
          BY <5>1, FiniteSupers
        <5>3. Cardinality(held[p]) \in Nat /\ Cardinality(held[p]) <= Cardinality(S)
          BY <5>1, <5>2, FS_Subset, FS_CardinalityType
        <5> QED
          BY <4>4, <5>1, <5>2, <5>3
      <4> QED
        BY <3>1, <4>1, <4>2, <4>5
    <3> QED
      BY <3>2, <3>3
  <2>6. ASSUME NEW p \in Procs, Restore(p) PROVE FALSE
    <3>1. PICK t : t = op[p].target
      OBVIOUS
    <3>2. CASE Abort(p)
      BY <2>2, <3>2
    <3>3. CASE ~Abort(p)
      <4>1. UNCHANGED super /\ status' = [status EXCEPT ![t] = "ACTIVE"]
            /\ status = [u \in People |-> status[u]]
        BY <2>6, <3>1, <3>3 DEF Restore, AuthInv, TablesTyped
      <4>2. ActiveSupers \subseteq ActiveSupers'
        BY <4>1 DEF ActiveSupers
      <4> QED
        BY <4>2
    <3> QED
      BY <3>2, <3>3
  <2>7. CASE ContextStep \/ FormStep \/ BatchStep \/ GroupStep
    BY <2>1, <2>7, OthersSound
  <2>8. CASE AppointStep
    BY <2>1, <2>3, <2>8 DEF AppointStep, AppointRead, people
  <2>9. CASE DemoteStep
    BY <2>1, <2>4, <2>9 DEF DemoteStep, DemoteLock, people
  <2>10. CASE LifecycleStep
    BY <2>1, <2>2, <2>5, <2>6, <2>10
       DEF LifecycleStep, DeactivateRead, DeactivateLock, DeactivateRefused, RestoreRead, people
  <2> QED
    BY <2>7, <2>8, <2>9, <2>10 DEF AuthorityNext
<1> QED
  BY <1>1, AuthInvAlways, SuperInvAlways, PTL DEF AuthoritySpec, LastSuperStays
=============================================================================
