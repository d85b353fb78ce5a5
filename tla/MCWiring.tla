------------------------------- MODULE MCWiring -------------------------------
(* The catalog for TLC, and small installs: one arr app is enough for every   *)
(* kind of task, a second one for what tells them apart.                      *)
EXTENDS WiringEngine

MCApp == {"prowlarr", "sonarr", "radarr", "gluetun", "qbittorrent", "recyclarr",
          "plex", "jellyfin", "existing-plex", "seerr"}

MCOrder ==
  [a \in MCApp |->
     CASE a = "prowlarr" -> 1 [] a = "sonarr" -> 2 [] a = "radarr" -> 3
       [] a = "gluetun" -> 4 [] a = "qbittorrent" -> 5 [] a = "recyclarr" -> 6
       [] a = "plex" -> 7 [] a = "jellyfin" -> 8 [] a = "existing-plex" -> 9
       [] a = "seerr" -> 10]

MCServers == {"plex", "jellyfin", "existing-plex"}

MCNeedsAny ==
  [a \in MCApp |-> CASE a = "seerr" -> {MCServers, {"sonarr", "radarr"}}
                     [] a = "recyclarr" -> {{"sonarr", "radarr"}}
                     [] OTHER -> {}]

MCExcludes == [a \in MCApp |-> IF a \in MCServers THEN MCServers \ {a} ELSE {}]

MCInstalls ==
  {{"sonarr", "qbittorrent"},
   {"prowlarr", "sonarr"},
   {"plex", "sonarr", "seerr"},
   {"jellyfin", "recyclarr", "radarr", "seerr"},
   {"existing-plex", "sonarr"}}

MCNewcomers == {"prowlarr", "gluetun", "qbittorrent", "seerr"}
MCLater     == MCNewcomers \cup {"sonarr"}

(* Seerr comes while a sync that was asked for before is ending.             *)
MCBeforeSeerr == {{"plex", "recyclarr", "sonarr"}}

(* An application with its entry in Prowlarr; a download client, before its  *)
(* VPN comes.                                                                *)
MCSynced    == {{"prowlarr", "sonarr"}}
MCUnshielded == {{"sonarr", "qbittorrent"}}
==============================================================================
