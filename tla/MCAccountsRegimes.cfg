SPECIFICATION RSpec

CONSTANTS
  s1 = s1  s2 = s2  boss = boss  p1 = p1  p2 = p2
  u1 = u1  u2 = u2  u3 = u3  u4 = u4  t1 = t1  t2 = t2
  NoOne = NoOne  NoId = NoId  NoRow = NoRow  NoToken = NoToken
  People <- OneVisitor
  EnvAdmins <- Boss
  TypedIds <- OneVisitor
  Ids <- FourIds
  Tokens <- TwoTokens
  Sessions <- TwoSessions
  Made <- MadeAs
  Seeds <- ListedLater
  Ops <- AllOps
  OverlapSeeds <- ListedAdvisor
  OverlapIds <- ThreeIds

SYMMETRY Symmetry
INVARIANTS TypeOK SerialConnectedHasNoInvite
PROPERTIES ImplementsIdentities StaffKeepAccount ApprovalGrantsAccount

\* The ids and tokens of the model run out.
CHECK_DEADLOCK FALSE
