SPECIFICATION Spec

CONSTANTS
  s1 = s1  s2 = s2  boss = boss  a1 = a1  a2 = a2  x1 = x1  x2 = x2
  p1 = p1  p2 = p2  p3 = p3
  Nobody = Nobody  NoPlan = NoPlan
  Admins <- Boss
  Advisors <- TwoAdvisors
  Students <- OneStudent
  PlanIds <- TwoPlans
  Weeks <- TwoWeeks
  Sessions <- OneSession
  Ops <- Everything

PROPERTY HarmlessWithoutStudents

\* The ids of the model run out.
CHECK_DEADLOCK FALSE
