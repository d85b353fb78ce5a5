--------------------------- MODULE MCDeployManager ---------------------------
(* A small catalog for TLC: an arr app, qBittorrent behind Gluetun, Plex, the *)
(* owner's own Plex, which is not ours to start and not to be had beside the *)
(* other, and Seerr, which needs one of the two and an arr app.  Each run     *)
(* takes the apps its question is about.                                     *)
EXTENDS DeployManager

CONSTANTS sonarr, gluetun, qbittorrent, plex, existing_plex, seerr

MCOrder ==
  [a \in App |-> CASE a = sonarr -> 1 [] a = gluetun -> 2 [] a = qbittorrent -> 3
                   [] a = plex -> 4 [] a = existing_plex -> 5 [] a = seerr -> 6]

(* A need that no app of the run could meet is left out. *)
MCNeedsAny ==
  [a \in App |-> IF a = seerr THEN {{plex, existing_plex} \cap App, {sonarr} \cap App} \ {{}}
                              ELSE {}]

MCExcludes ==
  [a \in App |-> CASE a = plex -> {existing_plex} \cap App
                   [] a = existing_plex -> {plex} \cap App
                   [] OTHER -> {}]
==============================================================================
