SPECIFICATION Spec
CONSTANTS
  sonarr = sonarr
  gluetun = gluetun
  qbittorrent = qbittorrent
  plex = plex
  existing_plex = existing_plex
  seerr = seerr
  App = {sonarr, gluetun, qbittorrent, existing_plex}
  Order <- MCOrder
  Managed = {sonarr, gluetun, qbittorrent}
  Rider = {qbittorrent}
  Vpn = gluetun
  Arr = {sonarr}
  NeedsAny <- MCNeedsAny
  Excludes <- MCExcludes
  NoApp = NoApp
  RunId = {r1, r2}
  NoRun = NoRun
  MaybeForeign = {gluetun}
  CancelOverlap = TRUE
  SecondTab = FALSE
  MissedLooks = FALSE
INVARIANT OneRunAtATime
