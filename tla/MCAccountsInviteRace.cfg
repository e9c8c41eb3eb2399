SPECIFICATION Spec

CONSTANTS
  s1 = s1  s2 = s2  boss = boss  p1 = p1  p2 = p2
  u1 = u1  u2 = u2  u3 = u3  u4 = u4  t1 = t1  t2 = t2
  NoOne = NoOne  NoId = NoId  NoRow = NoRow  NoToken = NoToken
  People <- TwoVisitors
  EnvAdmins <- Boss
  TypedIds <- TwoVisitors
  Ids <- ThreeIds
  Tokens <- OneToken
  Sessions <- TwoSessions
  Made <- MadeAs
  Seeds <- ListedAdvisor
  Ops <- InviteOps

SYMMETRY Symmetry
PROPERTY InviteBindsUnclaimed

\* The ids and tokens of the model run out.
CHECK_DEADLOCK FALSE
