SPECIFICATION Spec
CONSTANTS
  Limit = 8
  Grace = 3
  MaxFaults = 2
  MaxKills = 0
  MaxAgain = 1
  MaxEvents = 1
  MaxKeys = 3
  LostPreflights = FALSE
PROPERTY
  RefusalIsOfTheSavedLogin
CHECK_DEADLOCK FALSE
