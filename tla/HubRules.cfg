SPECIFICATION Spec
CONSTANTS
  sonarr = sonarr
  gluetun = gluetun
  qbittorrent = qbittorrent
  plex = plex
  existing_plex = existing_plex
  seerr = seerr
  App = {sonarr, gluetun, plex, existing_plex, seerr}
  Order <- MCOrder
  Managed = {sonarr, gluetun, plex, seerr}
  Rider = {}
  Vpn = gluetun
  Arr = {sonarr}
  NeedsAny <- MCNeedsAny
  Excludes <- MCExcludes
  NoApp = NoApp
  RunId = {r1, r2}
  NoRun = NoRun
  MaybeForeign = {}
  CancelOverlap = FALSE
  SecondTab = FALSE
  MissedLooks = FALSE
INVARIANTS
  HubKeepsTheRules
