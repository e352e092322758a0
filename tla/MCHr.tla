-------------------------------- MODULE MCHr --------------------------------
(***************************************************************************)
(* Small instances of the parts of apps/hr.  They share no variable, so an *)
(* instance looks at one question at a time: focus is chosen in the        *)
(* initial state and never changes.                                        *)
(***************************************************************************)
EXTENDS HrOrg, HrOvertime, Holidays

VARIABLE focus

First == CHOOSE d \in Departments : TRUE

\* Employee 1 files for 1, 2 or both; 1 belongs to x, 2 to x and y.
SentLists == {<<1>>, <<1, 2>>, <<2, 1>>}
Minutes == {<<0, 2>>, <<1, 3>>}
SomeClosures == {{"x"}, {"x", "y"}}
SomeDepts == <<{"x"}, {"x", "y"}>>

OfHrOrg == {"tree", "assets", "staff", "applications", "approval"}

\* The position is only enabled and disabled.
StatusOnly ==
  \A t \in Txs : tx'[t].op = "updatePosition" => tx'[t].self = selfApply[tx'[t].pos]

\* One request is approved while its applicant and its position are edited.
OneApproval ==
  /\ Cardinality({a \in Applications : app'[a] # NoApp}) <= 1
  /\ \A t \in Txs : tx'[t].op \notin {"close", "deletePositions"}

Init ==
  /\ focus \in {"tree", "assets", "staff", "applications", "approval", "overtime", "holidays"}
  /\ HrOrgInit /\ HrOvertimeInit /\ HolidaysInit
  /\ {d \in Departments : Exists(d)} =
       CASE focus = "tree" -> Departments
         [] focus = "applications" -> {First}
         [] OTHER -> Departments \ {First}
  /\ pos = [p \in Positions |-> IF focus = "staff" THEN "ABSENT" ELSE "ACTIVE"]
  /\ fits = [p \in Positions |-> {d \in Departments : Exists(d) /\ focus # "tree" /\ focus # "staff"}]

Next ==
  /\ UNCHANGED focus
  /\ \/ /\ \/ focus = "tree" /\ TreeStep
           \/ focus = "assets" /\ (AssetStep \/ ClosingStep)
           \/ /\ focus = "staff"
              /\ PositionStep \/ PositionStatusStep \/ StaffStep \/ ClosingStep
              /\ StatusOnly
           \/ focus = "applications" /\ (ApplicationStep \/ AccountLifecycle \/ DisablingStep)
           \/ focus = "approval" /\ (ApplicationStep \/ PositionStep \/ StaffStep) /\ OneApproval
           \/ focus \in OfHrOrg /\ RollBackStep
        /\ UNCHANGED <<overtimeVars, holidayVars>>
     \/ focus = "overtime" /\ HrOvertimeNext /\ UNCHANGED <<hrOrgVars, holidayVars>>
     \/ focus = "holidays" /\ HolidaysNext /\ UNCHANGED <<hrOrgVars, overtimeVars>>

Spec ==
  /\ Init /\ [][Next]_<<hrOrgVars, overtimeVars, holidayVars, focus>>
  /\ \A s \in Submissions : WF_overtimeVars(SubmissionStep(s))
  /\ \A d \in Dates : WF_holidayVars(TaskStep(d))
=============================================================================
