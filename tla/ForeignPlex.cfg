SPECIFICATION Spec
CONSTANTS
  Limit = 8
  Grace = 3
  MaxFaults = 2
  MaxKills = 1
  MaxAgain = 1
  MaxEvents = 1
  MaxKeys = 3
  LostPreflights = TRUE
PROPERTY
  MediaServerIsOurs
CHECK_DEADLOCK FALSE
