------------------------------ MODULE XlsxPool ------------------------------
(***************************************************************************)
(* apps/fin's XlsxWorkerPool: a fixed number of worker threads parses and  *)
(* builds workbooks.  A task that is aborted while it runs has its thread  *)
(* terminated; a thread that dies is replaced.                             *)
(*                                                                         *)
(* The pool's callbacks run one at a time; a thread works beside them, and *)
(* what it has posted waits until the pool reads it.                       *)
(***************************************************************************)
EXTENDS Naturals, Sequences, SequencesExt, FiniteSets

CONSTANTS Tasks, PoolSize

NoTask == "no task"

ASSUME XlsxPoolAssumption == PoolSize \in Nat \ {0} /\ NoTask \notin Tasks

VARIABLES
  queue,    \* XlsxWorkerPool.queue
  worker,   \* the worker at each place of the pool: see NewWorker
  outcome,  \* what a caller has: "none", "waiting", "rejected" or the task whose result it got
  stopped   \* XlsxWorkerPool.stopped

poolVars == <<queue, worker, outcome, stopped>>

Places == 1..PoolSize

\* busy, terminating and pendingTasks; the task its thread works on and the
\* one whose result is posted
NewWorker == [busy |-> FALSE, terminating |-> FALSE, task |-> NoTask, runs |-> NoTask, posted |-> NoTask]

PoolInit ==
  /\ queue = <<>>
  /\ worker = [w \in Places |-> NewWorker]
  /\ outcome = [t \in Tasks |-> "none"]
  /\ stopped = FALSE

NotBusy(ws) == {w \in Places : ~ws[w].busy}
Idle(ws) == {w \in Places : ~ws[w].busy /\ ~ws[w].terminating}

\* dispatch: the idle workers, in their order, take the tasks in theirs; the
\* turn of one is how many of them do not come after it.
Dispatch(ws, q) ==
  LET free == Idle(ws)
      turn(w) == Cardinality({v \in free : v <= w})
      n == IF stopped THEN 0 ELSE Min({Cardinality(free), Len(q)})
  IN /\ worker' = [w \in Places |->
          IF w \in free /\ turn(w) <= n
            THEN [ws[w] EXCEPT !.busy = TRUE, !.task = q[turn(w)], !.runs = q[turn(w)]]
            ELSE ws[w]]
     /\ queue' = SubSeq(q, n + 1, Len(q))

Run(t) ==
  /\ outcome[t] = "none" /\ ~stopped
  /\ outcome' = [outcome EXCEPT ![t] = "waiting"]
  /\ Dispatch(worker, Append(queue, t))
  /\ UNCHANGED stopped

\* The caller's signal: a queued task is dropped, a running one gives up its
\* thread, which takes no other task until it is replaced.
AbortQueued(t) ==
  /\ \E i \in DOMAIN queue : queue[i] = t /\ queue' = RemoveAt(queue, i)
  /\ outcome' = [outcome EXCEPT ![t] = "rejected"]
  /\ UNCHANGED <<worker, stopped>>

AbortRunning(t) ==
  /\ \E w \in Places : worker[w].task = t
  /\ worker' = [w \in Places |-> IF worker[w].task = t
       THEN [worker[w] EXCEPT !.task = NoTask, !.busy = FALSE, !.terminating = TRUE] ELSE worker[w]]
  /\ outcome' = [outcome EXCEPT ![t] = "rejected"]
  /\ UNCHANGED <<queue, stopped>>

\* The thread has parsed or built, or caught the error that stopped it.
Post(w) ==
  /\ worker[w].runs # NoTask
  /\ worker' = [worker EXCEPT ![w].runs = NoTask, ![w].posted = worker[w].runs]
  /\ UNCHANGED <<queue, outcome, stopped>>

\* The message handler settles the task the worker has now; the id of the
\* message is not looked at.
Receive(w) ==
  /\ worker[w].posted # NoTask
  /\ outcome' = IF worker[w].task = NoTask THEN outcome
                ELSE [outcome EXCEPT ![worker[w].task] = worker[w].posted]
  /\ Dispatch([worker EXCEPT ![w].posted = NoTask, ![w].task = NoTask, ![w].busy = FALSE], queue)
  /\ UNCHANGED stopped

\* 'error': the thread has died, its task fails, its place gets a new one.
Die(w) ==
  /\ worker[w].runs # NoTask
  /\ outcome' = IF worker[w].task = NoTask THEN outcome ELSE [outcome EXCEPT ![worker[w].task] = "rejected"]
  /\ Dispatch([worker EXCEPT ![w] = NewWorker], queue)
  /\ UNCHANGED stopped

\* A bug that would not be seen at once: the new thread is given no task.
ReplaceOnly(w) ==
  /\ worker[w].terminating /\ ~stopped
  /\ worker' = [worker EXCEPT ![w] = NewWorker]
  /\ UNCHANGED <<queue, outcome, stopped>>

\* terminate() resolves.
Replace(w) ==
  /\ worker[w].terminating /\ ~stopped
  /\ Dispatch([worker EXCEPT ![w] = NewWorker], queue)
  /\ UNCHANGED <<outcome, stopped>>

\* onModuleDestroy: the queued tasks fail, the threads end.
Stop ==
  /\ ~stopped /\ stopped' = TRUE
  /\ outcome' = [t \in Tasks |-> IF t \in ToSet(queue) THEN "rejected" ELSE outcome[t]]
  /\ queue' = <<>>
  /\ worker' = [w \in Places |-> [worker[w] EXCEPT !.runs = NoTask]]

PlaceStep(w) == Post(w) \/ Receive(w) \/ Die(w) \/ Replace(w)

PoolNext ==
  \/ \E t \in Tasks : Run(t) \/ AbortQueued(t) \/ AbortRunning(t)
  \/ \E w \in Places : PlaceStep(w)
  \/ Stop

PoolSpec ==
  /\ PoolInit /\ [][PoolNext]_poolVars
  /\ \A w \in Places : WF_poolVars(Post(w) \/ Die(w)) /\ WF_poolVars(Receive(w)) /\ WF_poolVars(Replace(w))

-----------------------------------------------------------------------------
\* A caller never gets the result of another task, though messages carry an id
\* that nobody compares and the message of an aborted task may arrive when its
\* worker is already given up (Receive, AbortRunning, dispatch).
AnswersItself == \A t \in Tasks : outcome[t] \in {"none", "waiting", "rejected", t}

\* Every task that was accepted is settled while the pool lives: aborts and
\* dying threads never leave a queued task without a worker (dispatch after
\* message, error and terminate).
TasksSettle == \A t \in Tasks : outcome[t] = "waiting" ~> (outcome[t] # "waiting" \/ stopped)
=============================================================================
