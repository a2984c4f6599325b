CONSTANTS
  c1 = c1
  c2 = c2
  c3 = c3
  s1 = s1
  s2 = s2
  k1 = k1
  ann = ann
  bob = bob
  None = None
  NoStaff = NoStaff
  KeepStaff = KeepStaff
  Call = {c1, c2}
  Seed = {b0}
  Staff = {}
  DayLen = 4
  Instant <- MCInstant
  SeedRequest <- CapacitySeeds
  Request <- CardRequests
  Menu <- MCMenu
  Parts <- MCParts
  NeedsStaff <- MCNeedsStaff
  Qualified <- MCQualified
  Open <- MCOpen
  Duty <- MCDuty
  Rules <- MCRules
  Deadline = 0
  ReminderLead = 0
  MaxPerMonth = 0
  Reached = {}
  MaxNow = 0
SPECIFICATION Spec
INVARIANTS OneCardPerContact
