------------------------------ MODULE Sessions ------------------------------
(***************************************************************************)
(* Server-side sessions of the platform: the session keys in Redis, the    *)
(* guard every request passes (packages/server/src/session), password      *)
(* login, logout and password change (base/auth/auth.service.ts), and the  *)
(* failure counters and locks of login protection.                         *)
(*                                                                         *)
(* A request is a process: each await of the handler that reads or writes  *)
(* Redis or the users table is a step of its own, so two requests          *)
(* interleave between them.                                                *)
(***************************************************************************)
EXTENDS Naturals, Sequences, FiniteSets

CONSTANTS Users, Ips, Requests, Sids,
          MaxAttempts,   \* login.account.max_attempts and login.ip.max_attempts
          MaxVersion,    \* bound: password changes, resets and deactivations
          MaxMarks,      \* bound: elevations of one user
          NoSid

Keys == Users \cup Ips

VARIABLES
  active,    \* users.status = ACTIVE and deleted_at is null
  sv,        \* users.session_version
  mark,      \* session:elevate:<user>, the time of the last elevation
  sess,      \* session:<sid>: the stored SessionData, or NoSession
  fail,      \* rate:acct_fail and rate:ip_fail
  ttl,       \* whether that key carries an expiry
  lock,      \* rate:acct_lock and rate:ip_lock
  lockedIps, \* rate:acct_locked_ips:<user>
  req        \* the requests in flight

sessionVars == <<active, sv, mark, sess, fail, ttl, lock, lockedIps, req>>
redisKeys == <<fail, ttl, lock, lockedIps>>
userRow == <<active, sv>>

NoSession == [user |-> NoSid]
Live(s) == sess[s] # NoSession

Idle == [pc |-> "idle"]
At(r, pc) == req[r].pc = pc
Goto(r, pc) == req' = [req EXCEPT ![r].pc = pc]
Done(r) == req' = [req EXCEPT ![r] = Idle]

\* An id no key and no request holds: ids are 128 random bits.
FreshSid(s) ==
  /\ ~Live(s)
  /\ \A r \in Requests : ~At(r, "idle") => s \notin {req[r].cookie, req[r].sid}

SessionsInit ==
  /\ active = [u \in Users |-> TRUE]
  /\ sv = [u \in Users |-> 0]
  /\ mark = [u \in Users |-> 0]
  /\ sess = [s \in Sids |-> NoSession]
  /\ fail = [k \in Keys |-> 0]
  /\ ttl = [k \in Keys |-> FALSE]
  /\ lock = [k \in Keys |-> FALSE]
  /\ lockedIps = [u \in Users |-> {}]
  /\ req = [r \in Requests |-> Idle]

\* A request without a session, with the protection keys it is about to count.
Request(pc, u, keys) ==
  [pc |-> pc, user |-> u, cookie |-> NoSid, sid |-> NoSid, sv |-> 0, iat |-> 0,
   since |-> 0, markSince |-> 0, keys |-> keys, ips |-> {}, count |-> 0]

\* A request that comes with a session; "since" is what its user's row said then.
Visit(s) ==
  LET u == sess[s].user IN
  [pc |-> "load", user |-> u, cookie |-> s, sid |-> s, sv |-> sess[s].sv, iat |-> sess[s].iat,
   since |-> sv[u], markSince |-> mark[u], keys |-> <<>>, ips |-> {}, count |-> 0]

-----------------------------------------------------------------------------
(* Login with a password. *)

\* loginPassword up to verifyPassword: an account that is not active, or a
\* wrong password, is counted against the keys named.
LoginFails(r, u, ip) ==
  /\ At(r, "idle")
  /\ ~lock[ip]
  /\ active[u] => ~lock[u]
  /\ req' = [req EXCEPT ![r] =
       Request("incr", u, IF active[u] THEN <<ip, u>> ELSE <<ip>>)]
  /\ UNCHANGED <<userRow, mark, sess, redisKeys>>

LoginVerified(r, u, ip) ==
  /\ At(r, "idle")
  /\ active[u] /\ ~lock[u] /\ ~lock[ip]
  /\ req' = [req EXCEPT ![r] = Request("verified", u, <<>>)]
  /\ UNCHANGED <<userRow, mark, sess, redisKeys>>

\* recordSuccess
RecordSuccess(r) ==
  /\ At(r, "verified")
  /\ fail' = [fail EXCEPT ![req[r].user] = 0]
  /\ ttl' = [ttl EXCEPT ![req[r].user] = FALSE]
  /\ Goto(r, "session")
  /\ UNCHANGED <<userRow, mark, sess, lock, lockedIps>>

\* createUserSession reads the account again for its session version.
CreateUserSession(r) ==
  /\ At(r, "session")
  /\ IF active[req[r].user]
       THEN req' = [req EXCEPT ![r].pc = "set", ![r].sv = sv[req[r].user]]
       ELSE Done(r)
  /\ UNCHANGED <<userRow, mark, sess, redisKeys>>

\* SessionService.create
CreateSession(r, s) ==
  /\ At(r, "set")
  /\ FreshSid(s)
  /\ sess' = [sess EXCEPT ![s] = [user |-> req[r].user, sv |-> req[r].sv,
                                  iat |-> mark[req[r].user]]]
  /\ Done(r)
  /\ UNCHANGED <<userRow, mark, redisKeys>>

-----------------------------------------------------------------------------
(* recordFailure: INCR, EXPIRE on the first failure, SET of the lock. *)

ExpireOnLast(r) == req[r].count = MaxAttempts
FirstFailure(r) == req[r].count = 1

Incr(r) ==
  /\ At(r, "incr")
  /\ LET k == Head(req[r].keys) IN
       /\ fail[k] < MaxAttempts + 1
       /\ fail' = [fail EXCEPT ![k] = @ + 1]
       /\ req' = [req EXCEPT ![r].pc = "expire", ![r].count = fail[k] + 1]
  /\ UNCHANGED <<userRow, mark, sess, ttl, lock, lockedIps>>

Expire(r) ==
  /\ At(r, "expire")
  /\ ttl' = [ttl EXCEPT ![Head(req[r].keys)] =
               IF FirstFailure(r) /\ fail[Head(req[r].keys)] > 0 THEN TRUE ELSE @]
  /\ Goto(r, "lock")
  /\ UNCHANGED <<userRow, mark, sess, fail, lock, lockedIps>>

LockKey(r) ==
  /\ At(r, "lock")
  /\ LET k == Head(req[r].keys)
         rest == Tail(req[r].keys)
         locks == req[r].count >= MaxAttempts /\ ~lock[k]
     IN  /\ lock' = [lock EXCEPT ![k] = @ \/ locks]
         /\ lockedIps' = IF locks /\ rest # <<>>
                           THEN [lockedIps EXCEPT ![req[r].user] = @ \cup {k}] ELSE lockedIps
         /\ IF rest = <<>> THEN Done(r)
              ELSE req' = [req EXCEPT ![r].pc = "incr", ![r].keys = rest]
  /\ UNCHANGED <<userRow, mark, sess, fail, ttl>>

\* unlockByAdmin: the account's keys, then the addresses locked through it.
UnlockByAdmin(r, u) ==
  /\ At(r, "idle")
  /\ req' = [req EXCEPT ![r] = Request("unlock", u, <<>>)]
  /\ fail' = [fail EXCEPT ![u] = 0]
  /\ ttl' = [ttl EXCEPT ![u] = FALSE]
  /\ lock' = [lock EXCEPT ![u] = FALSE]
  /\ UNCHANGED <<userRow, mark, sess, lockedIps>>

UnlockIps(r) ==
  /\ At(r, "unlock")
  /\ LET ips == lockedIps[req[r].user] IN
       /\ lock' = [k \in Keys |-> lock[k] /\ k \notin ips]
       /\ req' = [req EXCEPT ![r].pc = "unlockIps",
                             ![r].ips = IF \E k \in ips : lock[k] THEN ips ELSE {}]
  /\ UNCHANGED <<userRow, mark, sess, fail, ttl, lockedIps>>

ForgetIps(r) ==
  /\ At(r, "unlockIps")
  /\ lockedIps' = [lockedIps EXCEPT ![req[r].user] = {}]
  /\ fail' = [k \in Keys |-> IF k \in req[r].ips THEN 0 ELSE fail[k]]
  /\ ttl' = [k \in Keys |-> ttl[k] /\ k \notin req[r].ips]
  /\ Done(r)
  /\ UNCHANGED <<userRow, mark, sess, lock>>

\* Redis drops a key whose time has come.
KeyExpires(k) ==
  \/ /\ ttl[k] /\ fail' = [fail EXCEPT ![k] = 0] /\ ttl' = [ttl EXCEPT ![k] = FALSE]
     /\ UNCHANGED <<userRow, mark, sess, lock, lockedIps, req>>
  \/ /\ lock[k] /\ lock' = [lock EXCEPT ![k] = FALSE]
     /\ lockedIps' = [u \in Users |-> lockedIps[u] \ {k}]
     /\ UNCHANGED <<userRow, mark, sess, fail, ttl, req>>

-----------------------------------------------------------------------------
(* SessionGuard.canActivate *)

GuardRead(r, s) ==
  /\ At(r, "idle") /\ Live(s)
  /\ req' = [req EXCEPT ![r] = Visit(s)]
  /\ UNCHANGED <<userRow, mark, sess, redisKeys>>

Destroy(s) == sess' = [sess EXCEPT ![s] = NoSession]

SameAccount(r) == active[req[r].user]
SessionStands(r) == active[req[r].user] /\ sv[req[r].user] = req[r].sv

\* SESSION_USER_LOADER, then rotateIfElevated reads the mark and the key's TTL.
GuardLoad(r) ==
  /\ At(r, "load")
  /\ IF ~SessionStands(r) THEN Destroy(req[r].cookie) /\ Done(r)
     ELSE UNCHANGED sess /\ Goto(r, "rotate")
  /\ UNCHANGED <<userRow, mark, redisKeys>>

Elevated(r) == req[r].iat < mark[req[r].user]

GuardKeeps(r) ==
  /\ At(r, "rotate")
  /\ ~Elevated(r) \/ ~Live(req[r].cookie)
  /\ Goto(r, "touch")
  /\ UNCHANGED <<userRow, mark, sess, redisKeys>>

GuardRotates(r, s) ==
  /\ At(r, "rotate")
  /\ Elevated(r) /\ Live(req[r].cookie)
  /\ FreshSid(s)
  /\ sess' = [sess EXCEPT ![s] = [user |-> req[r].user, sv |-> req[r].sv,
                                  iat |-> mark[req[r].user]]]
  /\ req' = [req EXCEPT ![r].pc = "delete", ![r].sid = s, ![r].iat = mark[req[r].user]]
  /\ UNCHANGED <<userRow, mark, redisKeys>>

KeepOld(r) == UNCHANGED sess
DeleteOld(r) == Destroy(req[r].cookie)

GuardDeletes(r) ==
  /\ At(r, "delete")
  /\ DeleteOld(r)
  /\ Goto(r, "touch")
  /\ UNCHANGED <<userRow, mark, redisKeys>>

\* touch slides the expiry, or finds the absolute limit passed.
GuardTouch(r) ==
  /\ At(r, "touch")
  /\ \/ Goto(r, "handler") /\ UNCHANGED sess
     \/ Destroy(req[r].sid) /\ Done(r)
  /\ UNCHANGED <<userRow, mark, redisKeys>>

SessionExpires(s) ==
  /\ Live(s) /\ Destroy(s)
  /\ UNCHANGED <<userRow, mark, redisKeys, req>>

-----------------------------------------------------------------------------
(* Handlers behind the guard. *)

\* AuthController.logout destroys the id of the request's cookie.
Logout(r) ==
  /\ At(r, "handler")
  /\ Destroy(req[r].cookie)
  /\ Done(r)
  /\ UNCHANGED <<userRow, mark, redisKeys>>

\* changePassword compares the current password, then updates by id alone.
ChangePasswordRead(r) ==
  /\ At(r, "handler")
  /\ active[req[r].user]
  /\ Goto(r, "change")
  /\ UNCHANGED <<userRow, mark, sess, redisKeys>>

NextVersion(u) == [sv EXCEPT ![u] = @ + 1]

SetPassword(u) ==
  /\ sv[u] < MaxVersion
  /\ sv' = NextVersion(u)

ChangePassword(r) ==
  /\ At(r, "change")
  /\ SetPassword(req[r].user)
  /\ Done(r)
  /\ UNCHANGED <<active, mark, sess, redisKeys>>

OtherHandler(r) ==
  /\ At(r, "handler")
  /\ Done(r)
  /\ UNCHANGED <<userRow, mark, sess, redisKeys>>

\* ResetFlow.confirm's update of the users row.
ResetPassword(u) ==
  /\ active[u]
  /\ SetPassword(u)
  /\ UNCHANGED <<active, mark, sess, redisKeys, req>>

DeactivateUser(u) ==
  /\ active[u] /\ sv[u] < MaxVersion
  /\ active' = [active EXCEPT ![u] = FALSE]
  /\ sv' = [sv EXCEPT ![u] = @ + 1]
  /\ UNCHANGED <<mark, sess, redisKeys, req>>

RestoreUser(u) ==
  /\ ~active[u]
  /\ active' = [active EXCEPT ![u] = TRUE]
  /\ UNCHANGED <<sv, mark, sess, redisKeys, req>>

MarkElevation(u) ==
  /\ mark[u] < MaxMarks
  /\ mark' = [mark EXCEPT ![u] = @ + 1]
  /\ UNCHANGED <<userRow, sess, redisKeys, req>>

\* A request ends at one of its awaits: a call is refused and the handler
\* throws, or the process dies.  What it has written stays.
Lost(r) ==
  /\ ~At(r, "idle")
  /\ Done(r)
  /\ UNCHANGED <<userRow, mark, sess, redisKeys>>

LostStep == \E r \in Requests : Lost(r)

LoginStep ==
  \E r \in Requests :
    \/ \E u \in Users, ip \in Ips : LoginVerified(r, u, ip)
    \/ RecordSuccess(r) \/ CreateUserSession(r)
    \/ \E s \in Sids : CreateSession(r, s)

ProtectionStep ==
  \/ \E r \in Requests : \/ \E u \in Users, ip \in Ips : LoginFails(r, u, ip)
                         \/ Incr(r) \/ Expire(r) \/ LockKey(r)
                         \/ \E u \in Users : UnlockByAdmin(r, u)
                         \/ UnlockIps(r) \/ ForgetIps(r)
  \/ \E k \in Keys : KeyExpires(k)

GuardStep ==
  \/ \E r \in Requests :
       \/ \E s \in Sids : GuardRead(r, s) \/ GuardRotates(r, s)
       \/ GuardLoad(r) \/ GuardKeeps(r) \/ GuardDeletes(r) \/ GuardTouch(r)
       \/ Logout(r) \/ ChangePasswordRead(r) \/ ChangePassword(r) \/ OtherHandler(r)
  \/ \E s \in Sids : SessionExpires(s)

AccountStep ==
  \E u \in Users : ResetPassword(u) \/ DeactivateUser(u) \/ RestoreUser(u) \/ MarkElevation(u)

SessionsNext == LoginStep \/ ProtectionStep \/ GuardStep \/ AccountStep \/ LostStep

SessionsSpec == SessionsInit /\ [][SessionsNext]_sessionVars

-----------------------------------------------------------------------------
\* The guard's verdict on a request stands from here on.
Accepted(r) == req[r].pc \in {"touch", "handler", "change"}

\* A session opened before its account's version moved (password change,
\* reset, deactivation) is not accepted by any request that begins afterwards,
\* not even through the successor a rotation left behind (session.guard.ts).
RevokedStaysOut == \A r \in Requests : Accepted(r) => req[r].sv >= req[r].since

\* A request that begins after its user was elevated is served under an id
\* issued since, unless its key had gone, and the id it came with is dead by
\* then (rotateIfElevated).
RotatesAway ==
  \A r \in Requests : Accepted(r) =>
    /\ req[r].iat >= req[r].markSince \/ ~Live(req[r].cookie)
    /\ req[r].sid # req[r].cookie => ~Live(req[r].cookie)

\* The request that made a counter of zero one, before it has sent EXPIRE.
GivesExpiry(r, k) == At(r, "expire") /\ Head(req[r].keys) = k /\ FirstFailure(r)

\* Nobody will ever give this counter an expiry.
Unattended(k) == fail[k] > 0 /\ ~ttl[k] /\ \A r \in Requests : ~GivesExpiry(r, k)

\* A failure counter that would never be forgotten comes about in one way
\* only: the request that counted the first failure ends between INCR and
\* EXPIRE (recordFailure).  No interleaving of failures, successful logins,
\* unlocking and expiry leaves one behind.
CountersExpire ==
  [][\A k \in Keys : Unattended(k)' =>
       Unattended(k) \/ \E r \in Requests : GivesExpiry(r, k) /\ Lost(r)]_sessionVars
=============================================================================
