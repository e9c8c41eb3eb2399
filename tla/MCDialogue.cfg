SPECIFICATION MCSpec
CONSTANTS
  Ids <- MCIds
  Heavy = {generate, render}
  Light = light
  Rate = 2
  Burst = 2
  Cooldown = 3
  Start = 1
  MaxNow = 8
  MaxEdits = 3
  Sessions <- MCHandlers
  Plans <- MCContentPlans
  Previous <- MCPrevious
  Week <- MCWeek
  SlotsPerDay = 2
  Requests <- MCEdits
  Contents <- MCContents
  old = old
  new = new
  NoPlan = NoPlan
  Blank = Blank
  a = a
  b = b
  sat = sat
  sun = sun
  h1 = h1
  h2 = h2
  Handlers <- MCHandlers
  Students <- MCStudents
  PlanIds <- MCPlanIds
  LastDate = 2
  WeekLength = 2
  Weeks <- MCWeeks
  Days <- MCDays
  Slots = 2
  Sites <- MCSites
  Advisor = Advisor
  Admin = Admin
  Other = Other
  s1 = s1
  s2 = s2
  p1 = p1
  p2 = p2
  p3 = p3
  None = None
  Unborn = Unborn
  Gone = Gone
SYMMETRY HandlerSymmetry
INVARIANTS StateHasItsData WrittenByEntitled DoneAsShown BudgetKept
PROPERTIES HeavyApart EditLands
