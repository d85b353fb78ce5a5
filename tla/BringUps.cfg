SPECIFICATION Spec
CONSTANTS
  Limit = 8
  Grace = 3
  MaxFaults = 2
  MaxKills = 1
  MaxAgain = 1
  MaxEvents = 2
  MaxKeys = 3
  LostPreflights = FALSE
INVARIANTS
  NoClaimLeftBehind
  ExpiryAloneNeverFails
  OneJellyfinKey
  SeerrOpensWithRules
PROPERTIES
  TunnelDoneWasUp
  MediaServerIsOurs
  BringUpEnds
CHECK_DEADLOCK FALSE
