----------------------------- MODULE MCPlatform -----------------------------
(***************************************************************************)
(* Small instances of the parts of platform-core.  The parts share no      *)
(* variable of these modules, so an instance looks at one question at a    *)
(* time: focus is chosen in the initial state and never changes.           *)
(***************************************************************************)
EXTENDS Sessions, Authority, TLC

VARIABLE focus

Init ==
  /\ focus \in {"sessions", "protection", "roles", "accounts", "forms", "context"}
  /\ SessionsInit
  /\ AuthorityInit
  /\ focus \notin {"roles", "accounts"} => Cardinality(ActiveSupers) = 1

Next ==
  \/ /\ focus = "sessions" /\ (LoginStep \/ GuardStep \/ AccountStep \/ LostStep)
     /\ UNCHANGED <<authorityVars, focus>>
  \/ /\ focus = "protection" /\ (LoginStep \/ ProtectionStep \/ LostStep)
     /\ UNCHANGED <<authorityVars, focus>>
  \/ /\ focus = "roles" /\ (AppointStep \/ DemoteStep \/ LifecycleStep)
     /\ UNCHANGED <<sessionVars, focus>>
  \/ /\ focus = "accounts" /\ (DemoteStep \/ LifecycleStep \/ ContextStep)
     /\ UNCHANGED <<sessionVars, focus>>
  \/ /\ focus = "forms" /\ (FormStep \/ BatchStep \/ GroupStep \/ AppointStep)
     /\ UNCHANGED <<sessionVars, focus>>
  \/ /\ focus = "context" /\ (ContextStep \/ BatchStep \/ AppointStep) /\ dv' < MaxDv
     /\ UNCHANGED <<sessionVars, focus>>

Spec == Init /\ [][Next]_<<sessionVars, authorityVars, focus>>
Symmetry == Permutations(Requests) \cup Permutations(Sids) \cup Permutations(People)
            \cup Permutations(Procs)
=============================================================================
