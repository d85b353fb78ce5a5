SPECIFICATION Spec
CONSTANTS
  App <- MCApp
  Order <- MCOrder
  Managed = {"prowlarr", "sonarr", "radarr", "gluetun", "qbittorrent", "recyclarr", "plex", "jellyfin", "seerr"}
  Rider = {"qbittorrent"}
  Vpn = "gluetun"
  Arr = {"prowlarr", "sonarr", "radarr"}
  NeedsAny <- MCNeedsAny
  Excludes <- MCExcludes
  NoApp = "none"
  Installs <- MCInstalls
  Newcomers <- MCNewcomers
  MayBeDown = {"sonarr", "plex"}
  Attempts = 2
  MaxFaults = 2
  MaxRequests = 1
  MaxEdits = 1
  HookBeside = TRUE
INVARIANTS
  NothingIsSilentlyMissing
  SecondOnlyBesideRenamed
PROPERTIES
  DoneIsThere
  ReportIsKept
  RunEnds
CHECK_DEADLOCK FALSE
