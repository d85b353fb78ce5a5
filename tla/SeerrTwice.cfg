SPECIFICATION Spec
CONSTANTS
  App <- MCApp
  Order <- MCOrder
  Managed = {"prowlarr", "sonarr", "radarr", "gluetun", "qbittorrent", "recyclarr", "plex", "jellyfin", "seerr"}
  Rider = {"qbittorrent"}
  Vpn = "gluetun"
  Arr = {"prowlarr", "sonarr", "radarr"}
  NeedsAny <- MCNeedsAny
  Excludes <- MCExcludes
  NoApp = "none"
  Installs <- MCBeforeSeerr
  Newcomers = {"seerr"}
  MayBeDown = {}
  Attempts = 2
  MaxFaults = 0
  MaxRequests = 2
  MaxEdits = 0
  HookBeside = TRUE
INVARIANT OneEntryPerLink
CHECK_DEADLOCK FALSE
