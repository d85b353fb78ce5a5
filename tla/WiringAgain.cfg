SPECIFICATION Spec
CONSTANTS
  App <- MCApp
  Order <- MCOrder
  Managed = {"prowlarr", "sonarr", "radarr", "gluetun", "qbittorrent", "recyclarr", "plex", "jellyfin", "seerr"}
  Rider = {"qbittorrent"}
  Vpn = "gluetun"
  Arr = {"prowlarr", "sonarr", "radarr"}
  NeedsAny <- MCNeedsAny
  Excludes <- MCExcludes
  NoApp = "none"
  Installs <- MCInstalls
  Newcomers <- MCLater
  MayBeDown = {"sonarr", "plex"}
  Attempts = 2
  MaxFaults = 0
  MaxRequests = 2
  MaxEdits = 2
  HookBeside = FALSE
INVARIANTS
  NothingIsSilentlyMissing
  SecondOnlyBesideRenamed
CHECK_DEADLOCK FALSE
