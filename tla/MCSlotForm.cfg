CONSTANTS
  s1 = s1
  s2 = s2
  NoStaff = NoStaff
  NoCustomer = NoCustomer
  guest = guest
  DayLen = 14
  MaxRows = 2
  NoStart = NoStart
  Queries <- MCQueries
  Rows <- MCRows
  Rules <- MCSlotRules
  Duty <- MCDuty
  Open <- MCOpen
  Menus = {"cut", "perm"}
  Extras = {"care"}
  Chairs = {s1}
  Does <- MCDoes
  Forms <- MCForms
  Times = {"ten"}
  PerMonth = 2
  LastDay = 2
  MarkSets <- MCMarks
  MonthsAhead = 1
  MaxServices = 2
  MaxEdits = 4
  MaxFetches = 2
  MaxReads = 2
  MaxPosts = 2
  FormDays = {1, 2}
  FormStaff = {s1}
  FormMenus <- MCFormMenus
  FormTimes = {"ten"}
  MaxAsked = 1
SPECIFICATION Spec
INVARIANTS
  TimesOfTheFields
CHECK_DEADLOCK FALSE
