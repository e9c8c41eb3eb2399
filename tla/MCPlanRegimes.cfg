SPECIFICATION RSpec

CONSTANTS
  s1 = s1  s2 = s2
  c1 = c1  c2 = c2  empty = empty
  NoSession = NoSession
  NoArt = NoArt
  Sessions <- TwoSessions
  Contents <- WithEmpty
  Printable <- TwoContents
  MaxVersion = 2
  Ops <- AllOps
  Faults <- AllFaults
  OverlapOps <- DeliveryOps
  OverlapContents <- OneContent

SYMMETRY SessionSymmetry
INVARIANTS
  TypeOK RowArtefactRecorded CachedIdsRecorded OverlapRecordedOnDisk
  SerialGeneratedShowsContent SerialOneContentPerVersion
PROPERTIES
  HistoryKept SerialEditOpensNewVersion SerialCleanupSparesRecorded
  SerialImplementsVersions

\* A deleted plan takes no more steps.
CHECK_DEADLOCK FALSE
