SPECIFICATION ConnectSpec
CONSTANTS
  Tab = {t1, t2}
  Server = {s1, s2}
  LinkedServer = s1
  NoRecord = NoRecord
  NoServer = NoServer
  OneConnect = TRUE
PROPERTIES
  EditedLinkStays
