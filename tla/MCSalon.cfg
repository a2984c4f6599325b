SPECIFICATION MCSpec
CONSTANTS
  Staff <- MCPair
  Shops <- MCPair
  Slugs = {x, y, z}
  Caps = {2}
  Options <- MCPair
  Spans <- MCSpans
  Clerks = {c1, c2}
  MaxSaves = 3
  Chores <- MCChores
  Nil = Nil
  Emails = {a}
  Links <- MCPair
  MaxFailed = 2
  OtpAttempts = 1
  PerHour = 2
  MaxSessions = 2
  MaxMishaps = 1
  MaxEpoch = 2
  Flows <- MCFlows
  Workers = {w1, w2}
  Nobody = Nobody
  Salons <- MCPair
  Mails = {m}
  Users = {u}
  Codes = {k1, k2}
  Posts = {p1, p2}
  MaxEvents = 3
  Editors = {e1, e2}
  MaxPictures = 2
  MaxGallery = 2
  MaxWrites = 2
  Fields <- MCFields
  Blank = Blank
  Branches <- MCPair
  Persons <- MCPersons
  Guest = Guest
  Absent = Absent
  MaxTurns = 3
  Tabs = {t1, t2}
  Visited = {"settings", "staffDetail", "bookingDetail", "export"}
INVARIANTS
  ConsoleHolds
  SlugNeverReused
  OneFormPerTable
  SignupWhole
  EndedStayEnded
  LockedAfterEnough
  BackOnlyByFreshCode
  ImagesKept
PROPERTY
  WithinPlan
CHECK_DEADLOCK FALSE
