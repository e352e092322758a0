SPECIFICATION Spec
CONSTANTS
  Departments = {d1, d2, d3}
  Positions = {p1}
  Employees = {e1}
  Applications = {a1, a2}
  Txs = {t1, t2}
  MaxLv = 2
  NoDept = NoDept
  NoPos = NoPos
  Submissions = {s1, s2}
  Operators = {1}
  Lists <- SentLists
  Slots <- Minutes
  Keys = {k1, k2}
  Closures <- SomeClosures
  DeptsOf <- SomeDepts
  Calls = {c1, c2, c3}
  Dates = {"d1", "d2"}
  Offline = {"d1"}
  MaxConcurrent = 1
INVARIANTS
  ApprovedApplied
  RestoredClean
  NoOverlap
  OncePerKey
PROPERTIES
  OrganisationSound
  SubmissionsEnd
  CallersAnswered
CHECK_DEADLOCK FALSE
