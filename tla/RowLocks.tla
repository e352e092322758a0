------------------------------ MODULE RowLocks ------------------------------
(***************************************************************************)
(* Transactions that lock rows one after another, as PostgreSQL runs them: *)
(* each has a program, the locks its statements take in order, keeps what  *)
(* it has locked until it commits, and waits while another transaction     *)
(* holds a conflicting lock.  PostgreSQL ends a cycle of waiting           *)
(* transactions by failing one of them (40P01), which the services answer  *)
(* with an error; here such a cycle is a state.                            *)
(***************************************************************************)
EXTENDS Naturals, Sequences

CONSTANTS
  Tx,        \* transactions that run at the same time
  Rows,      \* rows that are locked
  Programs   \* the sequences of locks a transaction may take

(* FOR UPDATE (UPDATE and DELETE take the same) and the lock of a foreign  *)
(* key's check, FOR KEY SHARE.                                             *)
Modes == {"update", "keyShare"}
Lock == [row : Rows, mode : Modes]

ASSUME ProgramsAssumption == Programs \subseteq Seq(Lock)

VARIABLES program, pos
vars == <<program, pos>>

Init ==
  /\ program = [t \in Tx |-> <<>>]
  /\ pos = [t \in Tx |-> 0]

Conflict(a, b) == a.row = b.row /\ ~(a.mode = "keyShare" /\ b.mode = "keyShare")

Held(t) == {program[t][k] : k \in 1 .. pos[t]}
Waiting(t) == pos[t] < Len(program[t])
Wanted(t) == program[t][pos[t] + 1]

(* t cannot go on before u ends.                                           *)
WaitsFor(t, u) == t # u /\ Waiting(t) /\ \E h \in Held(u) : Conflict(h, Wanted(t))

Begin(t) ==
  /\ program[t] = <<>>
  /\ \E p \in Programs : program' = [program EXCEPT ![t] = p]
  /\ UNCHANGED pos

Acquire(t) ==
  /\ Waiting(t)
  /\ \A u \in Tx : ~WaitsFor(t, u)
  /\ pos' = [pos EXCEPT ![t] = @ + 1]
  /\ UNCHANGED program

Commit(t) ==
  /\ program[t] # <<>> /\ ~Waiting(t)
  /\ program' = [program EXCEPT ![t] = <<>>]
  /\ pos' = [pos EXCEPT ![t] = 0]

Next == \E t \in Tx : Begin(t) \/ Acquire(t) \/ Commit(t)

Spec == Init /\ [][Next]_vars

-----------------------------------------------------------------------------
(* No transactions wait for one another in a cycle: "row locks of items    *)
(* are taken in ascending order of id, so that concurrent transactions     *)
(* never deadlock" (inventory-core.ts:9).                                  *)
NoLockCycle ==
  ~ \E S \in (SUBSET Tx) \ {{}} : \A t \in S : \E u \in S : WaitsFor(t, u)

(* What an order of locking amounts to: rank numbers the rows, and every   *)
(* program takes them in increasing order.                                 *)
Ascending(rank) ==
  \A p \in Programs : \A j, k \in 1 .. Len(p) : j < k => rank[p[j].row] < rank[p[k].row]
=============================================================================
