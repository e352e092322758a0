------------------------------ MODULE Holidays ------------------------------
(***************************************************************************)
(* apps/hr's HolidayAdapter: the type of a date comes from a fresh row of  *)
(* holiday_results, else from the provider, else from any saved row, else  *)
(* from the offline table.  Calls for one date share one task; a semaphore *)
(* bounds the requests to the provider.                                    *)
(*                                                                         *)
(* A continuation of a promise runs before the next I/O event, so a step   *)
(* is what happens between two awaits, the continuations of what it        *)
(* resolves included.                                                      *)
(***************************************************************************)
EXTENDS Naturals, Sequences, FiniteSets

CONSTANTS Calls, Dates, Offline, MaxConcurrent

ASSUME HolidaysAssumption == MaxConcurrent \in Nat \ {0} /\ Offline \subseteq Dates

VARIABLES
  call,     \* what a caller of resolve waits for, or its answer
  flight,   \* inflight: the stage of the task of a date, or "none"
  active,   \* Semaphore.active
  waiters,  \* Semaphore.waiters, by date
  saved     \* holiday_results: "none", "fresh" or "stale"

holidayVars == <<call, flight, active, waiters, saved>>

HolidaysInit ==
  /\ call = [c \in Calls |-> [date |-> "none", answer |-> "none"]]
  /\ flight = [d \in Dates |-> "none"]
  /\ active = 0
  /\ waiters = <<>>
  /\ saved = [d \in Dates |-> "none"]

Idle(c) == call[c].date = "none"

\* resolve joins the task of the date or starts one.
Joins(d) == IF flight[d] = "none" THEN [flight EXCEPT ![d] = "lookup"] ELSE flight

Resolve(c, d) ==
  /\ Idle(c)
  /\ call' = [call EXCEPT ![c] = [date |-> d, answer |-> "none"]]
  /\ flight' = Joins(d)
  /\ UNCHANGED <<active, waiters, saved>>

\* The task settles: every caller of the date gets its answer.
Settle(d, answer) ==
  call' = [c \in Calls |-> IF call[c] = [date |-> d, answer |-> "none"]
                             THEN [date |-> d, answer |-> answer] ELSE call[c]]

\* findFreshCached, then acquire
LookUp(d) ==
  /\ flight[d] = "lookup"
  /\ \/ /\ saved[d] = "fresh"
        /\ Settle(d, "saved") /\ flight' = [flight EXCEPT ![d] = "none"]
        /\ UNCHANGED <<active, waiters>>
     \/ /\ saved[d] # "fresh" /\ active < MaxConcurrent
        /\ active' = active + 1 /\ flight' = [flight EXCEPT ![d] = "fetch"]
        /\ UNCHANGED <<call, waiters>>
     \/ /\ saved[d] # "fresh" /\ active >= MaxConcurrent
        /\ waiters' = Append(waiters, d) /\ flight' = [flight EXCEPT ![d] = "queued"]
        /\ UNCHANGED <<call, active>>
  /\ UNCHANGED saved

\* release hands the place of a fetch to the first waiter.
ForgetsWaiter(d, next) ==
  /\ active' = active - 1 /\ waiters' = waiters
  /\ flight' = [flight EXCEPT ![d] = next]
Release(d, next) ==
  IF waiters = <<>>
    THEN active' = active - 1 /\ waiters' = waiters /\ flight' = [flight EXCEPT ![d] = next]
    ELSE /\ active' = active /\ waiters' = Tail(waiters)
         /\ flight' = [flight EXCEPT ![d] = next, ![Head(waiters)] = "fetch"]

\* fetchRaw ends, in time or by its timeout; the answer is valid or not.
Fetch(d, next) ==
  /\ flight[d] = "fetch"
  /\ Release(d, next)
  /\ UNCHANGED <<call, saved>>

\* upsertCached
Save(d) ==
  /\ flight[d] = "save"
  /\ saved' = [saved EXCEPT ![d] = "fresh"]
  /\ Settle(d, "fetched")
  /\ flight' = [flight EXCEPT ![d] = "none"]
  /\ UNCHANGED <<active, waiters>>

\* findAnySaved, lookupOffline, HOLIDAY_API_UNAVAILABLE
FallBack(d) ==
  /\ flight[d] = "fallback"
  /\ Settle(d, IF saved[d] # "none" THEN "saved" ELSE IF d \in Offline THEN "offline" ELSE "unavailable")
  /\ flight' = [flight EXCEPT ![d] = "none"]
  /\ UNCHANGED <<active, waiters, saved>>

\* HOLIDAY_CACHE_TTL_MS passes.
RowAges(d) ==
  /\ saved[d] = "fresh"
  /\ saved' = [saved EXCEPT ![d] = "stale"]
  /\ UNCHANGED <<call, flight, active, waiters>>

CallAgain(c) ==
  /\ call[c].answer # "none"
  /\ call' = [call EXCEPT ![c] = [date |-> "none", answer |-> "none"]]
  /\ UNCHANGED <<flight, active, waiters, saved>>

TaskStep(d) == LookUp(d) \/ Fetch(d, "save") \/ Fetch(d, "fallback") \/ Save(d) \/ FallBack(d)

HolidaysNext ==
  \/ \E c \in Calls : CallAgain(c) \/ \E d \in Dates : Resolve(c, d)
  \/ \E d \in Dates : TaskStep(d) \/ RowAges(d)

HolidaysSpec == HolidaysInit /\ [][HolidaysNext]_holidayVars /\ \A d \in Dates : WF_holidayVars(TaskStep(d))

-----------------------------------------------------------------------------
\* Every caller gets an answer, also the one that joined a task when the
\* provider fails (resolve, release).
CallersAnswered == \A c \in Calls : ~Idle(c) ~> call[c].answer # "none"
=============================================================================
