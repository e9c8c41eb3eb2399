SPECIFICATION Spec

CONSTANTS
  s1 = s1  s2 = s2
  c1 = c1  c2 = c2  empty = empty
  NoSession = NoSession
  NoArt = NoArt
  Sessions <- OneSession
  Contents <- TwoContents
  Printable <- TwoContents
  MaxVersion = 2
  Ops <- AllOps
  Faults <- NoFaults

INVARIANTS SentShowsContent

\* A deleted plan takes no more steps.
CHECK_DEADLOCK FALSE
