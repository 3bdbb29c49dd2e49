\* Pairing: one restart of the device and one of the host.
SPECIFICATION FairSpec
CONSTANTS
  k1 = k1
  k2 = k2
  a1 = a1
  a2 = a2
  t1 = t1
  t1cut = t1cut
  Keys = {k1, k2}
  Addrs = {a1, a2}
  Tokens = {t1, t1cut}
  NoKey = NoKey
  BadKey = BadKey
  NoAddr = NoAddr
  NoToken = NoToken
  CutAddr <- MCCutAddr
  CutToken <- MCCutToken
  Junk = Junk
  Torn = Torn
  None = None
  Codes <- MCCodes
  Fallbacks <- MCFallbacks
  FirstAddr = a1
  Wait = 1
  MaxCrashes = 1
  MaxMoves = 1
  KeyDigits = 1
  Room = 3
  MaxRegions = 252
INVARIANTS
  TypeOK
  ScanIsFresh
  LinkIsPaired
PROPERTIES
  Reconnects
CHECK_DEADLOCK FALSE
