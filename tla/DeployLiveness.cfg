SPECIFICATION FairSpec
CONSTANTS
  sonarr = sonarr
  gluetun = gluetun
  qbittorrent = qbittorrent
  plex = plex
  existing_plex = existing_plex
  seerr = seerr
  App = {gluetun, qbittorrent, existing_plex, seerr}
  Order <- MCOrder
  Managed = {gluetun, qbittorrent, seerr}
  Rider = {qbittorrent}
  Vpn = gluetun
  Arr = {}
  NeedsAny <- MCNeedsAny
  Excludes <- MCExcludes
  NoApp = NoApp
  RunId = {r1, r2}
  NoRun = NoRun
  MaybeForeign = {}
  CancelOverlap = FALSE
  SecondTab = FALSE
  MissedLooks = FALSE
INVARIANTS
  HubKeepsTheRules
PROPERTIES
  BusyEnds
  WorkSettles
