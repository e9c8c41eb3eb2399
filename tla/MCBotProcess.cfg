CONSTANTS
  k1 = k1
  a1 = a1
  a2 = a2
  h1 = h1
  h2 = h2
  t1 = t1
  t2 = t2
  u1 = u1
  u2 = u2
  Keys <- MCKeys
  Admins <- MCAdmins
  Handlers <- MCHandlers
  Taps <- MCTaps
  Uploads <- MCUploads
  Chain <- MCChain
  TableOf <- MCTableOf
  NoFile = NoFile
  Damaged = Damaged
  Sites <- MCSites
SPECIFICATION FairSpec
INVARIANTS TypeOK FlagHasOwner RestoresAlone SafetyHoldsAll RestoredIsConfirmed OffersStagedFile ServesTables
PROPERTIES FlagFalls ShutdownEnds
CHECK_DEADLOCK FALSE
