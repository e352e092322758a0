SPECIFICATION Spec
CONSTANTS
  Users = {u1}
  Ips = {ip1}
  Requests = {r1, r2}
  Sids = {s1, s2, s3}
  MaxAttempts = 2
  MaxVersion = 1
  MaxMarks = 1
  NoSid = NoSid
  People = {a, b}
  Functions = {pm}
  PermissionManage = pm
  Procs = {p1, p2}
  MaxPv = 2
  MaxDv = 2
  None = None
SYMMETRY Symmetry
CHECK_DEADLOCK FALSE
INVARIANTS RevokedStaysOut RotatesAway CacheCurrent FormCurrent
PROPERTIES CountersExpire LastSuperStays
