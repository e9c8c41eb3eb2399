SPECIFICATION FairSpec

CONSTANTS
  s1 = s1  s2 = s2
  c1 = c1  c2 = c2  empty = empty
  NoSession = NoSession
  NoArt = NoArt
  Sessions <- TwoSessions
  Contents <- OneContent
  Printable <- OneContent
  MaxVersion = 2
  Ops <- LockingOps
  Faults <- CrashOnly

ACTION_CONSTRAINT Paired
PROPERTIES HandlersFinish

\* A deleted plan takes no more steps.
CHECK_DEADLOCK FALSE
