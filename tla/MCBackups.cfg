SPECIFICATION FairSpec

CONSTANTS
  r1 = r1  r2 = r2  admin = admin
  NoRunner = NoRunner
  Replicas <- TwoReplicas
  Panels <- OneAdmin
  Deployments <- Checked
  MaxFaults = 1

INVARIANTS AutoExclusive ReportedIsKept
PROPERTIES OnePerSlot DueIsServed

\* The clock of the model stops.
CHECK_DEADLOCK FALSE
