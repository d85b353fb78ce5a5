SPECIFICATION Spec
CONSTANTS
  LoginApp = {sonarr, radarr, qbittorrent, jellyfin}
  ArrApp = {sonarr, radarr}
  Jellyfin = {jellyfin}
  MaxLogins = 2
  MaxSaves = 3
  Tab = {t1, t2}
  Server = {s1, s2}
  LinkedServer = s1
  NoRecord = NoRecord
  NoServer = NoServer
  OneConnect = TRUE
  Page = {p1}
  LastSnap = 4
  MaxInstalls = 2
  MaxLost = 1
  MaxDeaths = 1
INVARIANTS
  PagesTypeOK
  RequestsAreServed
  SyncedTheLatest
  MarkedIsCarried
  OnlyAcceptedAreRestarted
  NoRecordWithoutPlex
  AnswerHasToken
  HubPlexHasItsRecord
  LitterNeverMisleads
PROPERTIES
  EveryRequestGetsItsRun
  LinkGoesForPlex
  PagesCatchUpInTurn
  PagesNeverGoBack
  ResultCatchesUpInTurn
