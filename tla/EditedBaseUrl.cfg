SPECIFICATION Spec
CONSTANTS
  App <- MCApp
  Order <- MCOrder
  Managed = {"prowlarr", "sonarr", "radarr", "gluetun", "qbittorrent", "recyclarr", "plex", "jellyfin", "seerr"}
  Rider = {"qbittorrent"}
  Vpn = "gluetun"
  Arr = {"prowlarr", "sonarr", "radarr"}
  NeedsAny <- MCNeedsAny
  Excludes <- MCExcludes
  NoApp = "none"
  Installs <- MCSynced
  Newcomers = {}
  MayBeDown = {}
  Attempts = 2
  MaxFaults = 0
  MaxRequests = 1
  MaxEdits = 1
  HookBeside = FALSE
PROPERTY DoneIsRepaired
CHECK_DEADLOCK FALSE
