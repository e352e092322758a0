----------------------------- MODULE HrOvertime -----------------------------
(***************************************************************************)
(* Overtime of one date in apps/hr: a batch is validated, its holiday      *)
(* resolved, and then written in a transaction that first takes one        *)
(* advisory lock per employee; approvers decide about it.  A submission    *)
(* carries an idempotency key and may be sent again.                       *)
(***************************************************************************)
EXTENDS Naturals, Sequences, FiniteSets, SequencesExt

CONSTANTS Submissions, \* HTTP requests; a submission that commits names its approval request
          Operators,   \* who submits; ids of employees
          Lists,       \* sequences of employee ids, as sent
          Slots,       \* pairs <<start, end>> of minutes
          Keys,        \* idempotency keys
          Closures,    \* department closures of approvers
          DeptsOf      \* the departments of an employee

ASSUME OvertimeAssumption == \A s \in Slots : s[1] < s[2]

VARIABLES
  sent,      \* the body of a submission
  at,        \* where a submission is
  held,      \* the employees whose advisory locks it holds
  decision,  \* status of the approval request of a submission
  eligible   \* employees that are active and within the proxy's scope

overtimeVars == <<sent, at, held, decision, eligible>>

Listed == UNION {ToSet(l) : l \in Lists}
NotSent == [operator |-> 0]

HrOvertimeInit ==
  /\ sent = [s \in Submissions |-> NotSent]
  /\ at = [s \in Submissions |-> "unsent"]
  /\ held = [s \in Submissions |-> {}]
  /\ decision = [s \in Submissions |-> "NONE"]
  /\ eligible = Listed

Moves(s, from, to) == at[s] = from /\ at' = [at EXCEPT ![s] = to]

Overlaps(a, b) == a[1] < b[2] /\ b[1] < a[2]

\* findExistingOverlaps and the query of assertNoOverlapInTransaction
Taken(u, slot) ==
  \E s \in Submissions : /\ decision[s] \in {"PENDING", "APPROVED"}
                         /\ u \in ToSet(sent[s].users)
                         /\ Overlaps(sent[s].slot, slot)

\* validateBatch: the operator's own line is checked in the transaction only.
Valid(operator, users, slot) ==
  \A u \in ToSet(users) \ {operator} : u \in eligible /\ ~Taken(u, slot)

SubmitOvertime(s, operator, users, slot, key) ==
  /\ Moves(s, "unsent", IF Valid(operator, users, slot) THEN "valid" ELSE "refused")
  /\ sent' = [sent EXCEPT ![s] = [operator |-> operator, users |-> users, slot |-> slot, key |-> key]]
  /\ UNCHANGED <<held, decision, eligible>>

\* holiday.resolve answers, or is unavailable.
ResolveHoliday(s) ==
  /\ Moves(s, "valid", "resolved") \/ Moves(s, "valid", "refused")
  /\ UNCHANGED <<sent, held, decision, eligible>>

SameKey(s, r) == sent[s].operator = sent[r].operator /\ sent[s].key = sent[r].key
Logged(s) == {r \in Submissions : decision[r] # "NONE" /\ SameKey(s, r)}

\* replayIdempotencyRecord: another body under the key is refused.
Replayed(s) == IF \A r \in Logged(s) : sent[r] = sent[s] THEN "replayed" ELSE "refused"

TryReplay(s) ==
  /\ Moves(s, "resolved", IF Logged(s) = {} THEN "locking" ELSE Replayed(s))
  /\ UNCHANGED <<sent, held, decision, eligible>>

\* assertNoOverlapInTransaction: one lock after the other, in ascending order
Unlocked(s) == ToSet(sent[s].users) \ held[s]

AsSent(s, u) ==
  \E i \in DOMAIN sent[s].users :
    sent[s].users[i] = u /\ \A j \in 1..i - 1 : sent[s].users[j] \in held[s]
LockOrder(s, u) == \A v \in Unlocked(s) : u <= v

NextLock(s) ==
  \E u \in Unlocked(s) :
    /\ LockOrder(s, u)
    /\ \A r \in Submissions : u \notin held[r]
    /\ held' = [held EXCEPT ![s] = @ \cup {u}]

Lock(s) ==
  /\ at[s] = "locking"
  /\ NextLock(s)
  /\ UNCHANGED <<sent, at, decision, eligible>>

Unlock(s) == held' = [held EXCEPT ![s] = {}]

Unguarded(s) == at[s] = "locking"
AllLocked(s) == at[s] = "locking" /\ Unlocked(s) = {}

CheckOverlap(s) ==
  /\ AllLocked(s)
  /\ LET free == \A u \in ToSet(sent[s].users) : ~Taken(u, sent[s].slot) IN
       /\ Moves(s, "locking", IF free THEN "writing" ELSE "refused")
       /\ IF free THEN UNCHANGED held ELSE Unlock(s)
  /\ UNCHANGED <<sent, decision, eligible>>

\* The log's unique index rejects a second transaction with the key.
IgnoresKey(s) == TRUE
KeyFree(s) == Logged(s) = {}

Commit(s) ==
  /\ Moves(s, "writing", IF KeyFree(s) THEN "created" ELSE Replayed(s))
  /\ decision' = IF KeyFree(s) THEN [decision EXCEPT ![s] = "PENDING"] ELSE decision
  /\ Unlock(s)
  /\ UNCHANGED <<sent, eligible>>

Snapshots(s) == UNION {DeptsOf[u] : u \in ToSet(sent[s].users)}

\* assertScopeCovers: every department of every line
Covers(closure, s) == Snapshots(s) # {} /\ Snapshots(s) \subseteq closure

\* processInner by an approver of a department, and cancel
Process(s, closure, status) ==
  /\ decision[s] = "PENDING"
  /\ status = "CANCELLED" \/ Covers(closure, s)
  /\ decision' = [decision EXCEPT ![s] = status]
  /\ UNCHANGED <<sent, at, held, eligible>>

\* An account is deactivated or moved out of the proxy's scope.
LosesEligibility(u) ==
  /\ u \in eligible
  /\ eligible' = eligible \ {u}
  /\ UNCHANGED <<sent, at, held, decision>>

SubmissionStep(s) ==
  ResolveHoliday(s) \/ TryReplay(s) \/ Lock(s) \/ CheckOverlap(s) \/ Commit(s)

HrOvertimeNext ==
  \/ \E s \in Submissions :
       \/ SubmissionStep(s)
       \/ \E o \in Operators, l \in Lists, slot \in Slots, k \in Keys : SubmitOvertime(s, o, l, slot, k)
       \/ \E c \in Closures, status \in {"APPROVED", "REJECTED", "CANCELLED"} : Process(s, c, status)
  \/ \E u \in Listed : LosesEligibility(u)

HrOvertimeSpec == HrOvertimeInit /\ [][HrOvertimeNext]_overtimeVars

-----------------------------------------------------------------------------
\* Two lines of one employee that are pending or approved never overlap, from
\* whichever batches they come (assertNoOverlapInTransaction).
NoOverlap ==
  \A s, r \in Submissions :
    /\ s # r /\ decision[s] \in {"PENDING", "APPROVED"} /\ decision[r] \in {"PENDING", "APPROVED"}
    /\ ToSet(sent[s].users) \cap ToSet(sent[r].users) # {}
    => ~Overlaps(sent[s].slot, sent[r].slot)

\* One key of one operator creates one batch, also when the lines do not
\* overlap any more because the first batch was rejected (the operation log's
\* unique index behind commitIdempotentOperation).
OncePerKey ==
  \A s, r \in Submissions :
    s # r /\ decision[s] # "NONE" /\ decision[r] # "NONE" => ~SameKey(s, r)

Ended == {"unsent", "refused", "replayed", "created"}

\* Submissions never wait on each other for ever: the advisory locks are
\* taken in one order (assertNoOverlapInTransaction).
SubmissionsEnd == \A s \in Submissions : at[s] \notin Ended ~> at[s] \in Ended
=============================================================================
