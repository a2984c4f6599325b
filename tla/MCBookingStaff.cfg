CONSTANTS
  c1 = c1
  c2 = c2
  c3 = c3
  s1 = s1
  s2 = s2
  k1 = k1
  ann = ann
  bob = bob
  None = None
  NoStaff = NoStaff
  KeepStaff = KeepStaff
  Call = {c1, c2, c3}
  Seed = {b0}
  Staff = {s1, s2}
  DayLen = 4
  Instant <- MCInstant
  SeedRequest <- StaffSeeds
  Request <- StaffRequests
  Menu <- MCMenu
  Parts <- MCParts
  NeedsStaff <- MCNeedsStaff
  Qualified <- MCQualified
  Open <- MCOpen
  Duty <- MCDuty
  Rules <- StaffRules
  Deadline = 0
  ReminderLead = 0
  MaxPerMonth = 2
  Reached = {}
  MaxNow = 0
SPECIFICATION Spec
INVARIANTS StaffNeverDoubleBooked KeyNamesOneBooking ItemsMatchRow
PROPERTY LedgerSpec
