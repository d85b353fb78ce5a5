------------------------------ MODULE WiringPlan ------------------------------
(***************************************************************************)
(* plan_wiring (wiring/engine.py): which connections an install calls for,   *)
(* in which order.  A task knows the apps it involves, which are proved      *)
(* ready first, and the apps it is about, by which an add or a reconnect     *)
(* picks its own tasks.                                                      *)
(*                                                                           *)
(* What a task has to bring about is a set of parts, looked up by what they  *)
(* are (a folder, a category, a library, a setting), or an entry in a list,  *)
(* looked up by where it points and then by its name.                        *)
(***************************************************************************)
EXTENDS Catalog, Sequences

(* The apps the wiring knows by name are in the catalog, none is the VPN and *)
(* all but the owner's own Plex are managed; qBittorrent rides the VPN.      *)
WiredApps == {"prowlarr", "sonarr", "radarr", "qbittorrent", "plex", "jellyfin",
              "existing-plex", "seerr"}

ASSUME WiringAssumption ==
  /\ WiredApps \subseteq App /\ WiredApps \ Managed = {"existing-plex"}
  /\ Vpn \notin WiredApps /\ Rider = {"qbittorrent"}

Task(kind, of, involved) ==
  [kind |-> kind, of |-> of, involved |-> involved,
   about |-> {involved[i] : i \in DOMAIN involved}]

(* ExplainTask: nothing to prove ready and nothing to write. *)
Explain(app) == [Task("explain", app, <<>>) EXCEPT !.about = {app}]

SeerrServer(m) == Task("media-server", m, <<"seerr", m>>)

(* The arr apps that keep a media library, and what is done for each.        *)
Partner        == {"sonarr", "radarr"}
Explanation    == [p \in Partner |-> Explain(p)]
AppSync        == [p \in Partner |-> Task("app-sync", p, <<"prowlarr", p>>)]
DownloadClient == [p \in Partner |-> Task("download-client", p, <<p, "qbittorrent">>)]
RootFolder     == [p \in Partner |-> Task("root-folder", p, <<p>>)]
SeerrArr       == [p \in Partner |-> Task("seerr", p, <<"seerr", p>>)]

OnlyIf(test, value) == IF test THEN <<value>> ELSE <<>>

Partners(ids) == OnlyIf("sonarr" \in ids, "sonarr") \o OnlyIf("radarr" \in ids, "radarr")

MediaServers(ids) ==
  OnlyIf("plex" \in ids, "plex") \o OnlyIf("jellyfin" \in ids, "jellyfin")
    \o OnlyIf("existing-plex" \in ids, "existing-plex")

------------------------------------------------------------------------------
(* The steps of the plan, in its order.  Of each, onlyApp keeps what is      *)
(* about that app; without one (NoApp) they all stay.                        *)

Keep(onlyApp, test, t) == OnlyIf(test /\ (onlyApp = NoApp \/ onlyApp \in t.about), t)

ForEachPartner(onlyApp, ids, task) ==
  Keep(onlyApp, "sonarr" \in ids, task["sonarr"]) \o Keep(onlyApp, "radarr" \in ids, task["radarr"])

AppSyncs(onlyApp, ids) ==
  IF "prowlarr" \notin ids     THEN ForEachPartner(onlyApp, ids, Explanation)
  ELSE IF Partners(ids) = <<>> THEN Keep(onlyApp, TRUE, Explain("prowlarr"))
  ELSE ForEachPartner(onlyApp, ids, AppSync)

Downloads(onlyApp, ids) ==
  IF "qbittorrent" \notin ids THEN <<>>
  ELSE Keep(onlyApp, TRUE, Task("downloader-settings", "qbittorrent", <<"qbittorrent">>))
         \o ForEachPartner(onlyApp, ids, DownloadClient)

RootFolders(onlyApp, ids) == ForEachPartner(onlyApp, ids, RootFolder)

Libraries(onlyApp, ids, graphics) ==
  LET For(kind, m, test) == Keep(onlyApp, m \in ids /\ test, Task(kind, m, <<m>>))
  IN  For("libraries", "plex", TRUE) \o For("direct-play", "plex", TRUE)
        \o For("libraries", "jellyfin", TRUE) \o For("graphics", "jellyfin", graphics)
        \o For("libraries", "existing-plex", TRUE)

(* Seerr is never there without a media server and an arr app; a media       *)
(* server that is missing all the same leaves its task out.                  *)
SeerrTasks(onlyApp, ids) ==
  IF "seerr" \notin ids THEN <<>>
  ELSE (IF MediaServers(ids) = <<>> THEN <<>>
        ELSE Keep(onlyApp, TRUE, SeerrServer(MediaServers(ids)[1])))
         \o ForEachPartner(onlyApp, ids, SeerrArr)

PlanFor(onlyApp, ids, graphics) ==
  AppSyncs(onlyApp, ids) \o Downloads(onlyApp, ids) \o RootFolders(onlyApp, ids)
    \o Libraries(onlyApp, ids, graphics) \o SeerrTasks(onlyApp, ids)

PlanWiring(ids, graphics) == PlanFor(NoApp, ids, graphics)

(* Mutant: a task counts as about its subject only. *)
PlanAboutSubject(ids, graphics, app) ==
  SelectSeq(PlanWiring(ids, graphics),
            LAMBDA t : IF t.involved = <<>> THEN app \in t.about ELSE app = t.involved[1])

(* only_app *)
PlanAbout(ids, graphics, app) == PlanFor(app, ids, graphics)

Tasks(plan) == {plan[i] : i \in DOMAIN plan}

Link(t) == <<t.kind, t.of>>

------------------------------------------------------------------------------
(* What a task brings about *)

(* The parts a task looks up by what they are, in the order it writes them.  *)
PartsOf(t) ==
  CASE t.kind = "libraries"                     -> <<<<"movies", t.of>>, <<"tv", t.of>>>>
    [] t.kind = "download-client"               -> <<<<"category", t.of>>>>
    [] t.kind \in {"downloader-settings", "root-folder", "direct-play", "graphics"}
                                                -> <<<<t.kind, t.of>>>>
    [] t.kind = "media-server"                  -> <<<<"connection", t.of>>, <<"enabled", t.of>>>>
    [] OTHER                                    -> <<>>

(* The tasks that keep an entry in a list of the app they talk to. *)
KeepsEntry == {"app-sync", "download-client", "seerr"}

(* app_host: where the entry of a task has to point.  A download client      *)
(* finds qBittorrent under the VPN's name while the VPN is there.            *)
Target(t, ids) ==
  IF t.kind = "download-client" THEN (IF Vpn \in ids THEN Vpn ELSE "qbittorrent") ELSE t.of

(* The app a request of a task goes to. *)
Server(t, op) ==
  CASE t.kind = "app-sync"                 -> "prowlarr"
    [] t.kind \in {"media-server", "seerr"} -> "seerr"
    [] t.kind = "download-client" /\ op \in {"look", "write"} -> "qbittorrent"
    [] OTHER                               -> t.of
==============================================================================
