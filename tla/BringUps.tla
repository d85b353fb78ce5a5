------------------------------- MODULE BringUps -------------------------------
(***************************************************************************)
(* The bring-up of one app of any kind: _bring_up_app picks the branch by    *)
(* the app's kind, and everything else is the branch's own.                  *)
(***************************************************************************)
EXTENDS Tunnel, PlexClaim, JellyfinSetup, SeerrSetup

vars == <<shared, tunnelVars, plexVars, jellyfinVars, seerrVars>>

(* Codes, clocks and what each kind of app keeps, within the bounds. *)
TypeOK == SharedTypeOK /\ TunnelTypeOK /\ PlexTypeOK /\ JellyfinTypeOK /\ SeerrTypeOK

(* What another kind of app would keep has some fixed value. *)
NoTunnel ==
  /\ answers = 1 /\ good = {} /\ secrets = 0 /\ used = 0 /\ refused = {}
  /\ tunnel = FALSE /\ lately = Never
NoPlex ==
  /\ file = "none" /\ claimed = FALSE /\ trying = "no" /\ logged = FALSE
  /\ retried = FALSE /\ spoilt = FALSE
NoJellyfin ==
  /\ login = 1 /\ held = 1 /\ admin = Nobody /\ wizard = FALSE /\ seen = FALSE
  /\ keys = {} /\ newest = 0 /\ saved = 0
NoSeerr ==
  /\ account = FALSE /\ type = "unset" /\ rules = FALSE /\ open = FALSE
  /\ seenOpen = FALSE

Init ==
  /\ SharedInit
  /\ \/ app = "vpn" /\ TunnelInit /\ NoPlex /\ NoJellyfin /\ NoSeerr
     \/ app = "plex" /\ PlexInit /\ NoTunnel /\ NoJellyfin /\ NoSeerr
     \/ app = "jellyfin" /\ JellyfinInit /\ NoTunnel /\ NoPlex /\ NoSeerr
     \/ app = "seerr" /\ SeerrInit /\ NoTunnel /\ NoPlex /\ NoJellyfin
     \/ app \in {"arr", "sync", "own-plex"} /\ NoTunnel /\ NoPlex /\ NoJellyfin /\ NoSeerr

(* What Marrquee does, whatever the world around it does. *)
Step ==
  \/ (PlainStep \/ AskOwnPlex) /\ UNCHANGED <<tunnelVars, plexVars, jellyfinVars, seerrVars>>
  \/ TunnelStep /\ UNCHANGED <<plexVars, jellyfinVars, seerrVars>>
  \/ PlexStep /\ UNCHANGED <<tunnelVars, jellyfinVars, seerrVars>>
  \/ JellyfinStep /\ UNCHANGED <<tunnelVars, plexVars, seerrVars>>
  \/ SeerrStep /\ UNCHANGED <<tunnelVars, plexVars, jellyfinVars>>

World ==
  \/ /\ app \in {"arr", "sync", "own-plex"}
     /\ (Boot \/ Crash \/ ComeBack \/ Kill \/ Again)
     /\ UNCHANGED <<tunnelVars, plexVars, jellyfinVars, seerrVars>>
  \/ TunnelWorld /\ UNCHANGED <<plexVars, jellyfinVars, seerrVars>>
  \/ PlexWorld /\ UNCHANGED <<tunnelVars, jellyfinVars, seerrVars>>
  \/ JellyfinWorld /\ UNCHANGED <<tunnelVars, plexVars, seerrVars>>
  \/ SeerrWorld /\ UNCHANGED <<tunnelVars, plexVars, jellyfinVars>>

Next == Step \/ World

(* The bring-up is a coroutine that its caller awaits; an attempt to claim    *)
(* Plex comes to its end by itself.                                          *)
AttemptEnds == CodeTakes /\ UNCHANGED <<tunnelVars, jellyfinVars, seerrVars>>

Spec == Init /\ [][Next]_vars /\ WF_vars(Step) /\ WF_vars(AttemptEnds)

(* A media server is reported as up only if it is the owner's: Plex claimed,  *)
(* and not another server on its port, unless that one missed the pre-flight; *)
(* Jellyfin with a key on disk that it takes, whatever became of an older one *)
(* (_run_plex_bring_up, ensure_jellyfin_admin).                               *)
MediaServerIsOurs ==
  [][Busy /\ result' = "done" =>
       /\ (app = "plex" => claimed /\ box = "running")
       /\ (app = "jellyfin" => saved \in keys)]_vars

(* Every bring-up ends, whatever the app and the network do: the manager     *)
(* runs one piece of work at a time, and a bring-up that hung would refuse   *)
(* every other request for good (the clocks of the five loops).              *)
BringUpEnds == Busy ~> ~Busy
==============================================================================
