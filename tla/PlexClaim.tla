------------------------------ MODULE PlexClaim -------------------------------
(***************************************************************************)
(* Plex's bring-up (deploy.py, _bring_up_plex): a claim code, good for a few *)
(* minutes, is fetched from plex.tv and written where the container finds it *)
(* when it starts; Plex is up once it says that it is claimed.  A code that  *)
(* did not take is replaced once, behind a container made anew.              *)
(*                                                                           *)
(* The container tries the code it found when it was started; an attempt is  *)
(* over after a sleep or two, well within Grace.                             *)
(***************************************************************************)
EXTENDS BringUp

ASSUME PlexAssumption == Grace > 2

VARIABLES
  file,    \* the claim file: "none", "fresh" or, with an expired code, "stale"
  claimed, \* this machine's Plex belongs to the owner's account
  trying,  \* what the container is doing with its code: "no", "soon" or "now"
  logged,  \* "Unable to claim Plex server" is in the container's log
  retried, \* the one fresh code was used (retried, _await_plex_claimed)
  spoilt   \* observation: in this bring-up a good code was turned down, or
           \* the container broke off while it was using one

plexServer == <<claimed, trying, logged, spoilt>>
plexVars   == <<file, retried, plexServer>>

PlexTypeOK ==
  /\ file \in {"none", "fresh", "stale"}
  /\ trying \in {"no", "soon", "now"}
  /\ {claimed, logged, retried, spoilt} \subseteq BOOLEAN

(* Left by an earlier bring-up: a claimed or unclaimed server, a stale code. *)
PlexInit ==
  /\ file \in (IF box = "none" THEN {"none"} ELSE {"none", "stale"})
  /\ claimed \in (IF box = "none" THEN {FALSE} ELSE BOOLEAN)
  /\ trying = "no" /\ logged = FALSE /\ retried = FALSE /\ spoilt = FALSE

------------------------------------------------------------------------------
(* Every end of a bring-up clears the claim file (the "finally"). *)

(* Mutant: only a bring-up that succeeds clears it. *)
PlexEndsKeeping(code) ==
  /\ End(code) /\ file' = IF code = "done" THEN "none" ELSE file
  /\ UNCHANGED retried

PlexEnds(code) == End(code) /\ file' = "none" /\ UNCHANGED retried

PlexGoTo(call) == GoTo(call) /\ UNCHANGED <<file, retried>>

(* A bring-up begins; without a Plex sign-in it is over. *)
PlexBegin ==
  /\ pc = "begin"
  /\ \/ Begin("inspect") /\ retried' = FALSE /\ UNCHANGED file
     \/ Fault /\ PlexEnds("plex_sign_in_needed") /\ UNCHANGED server
  /\ spoilt' = FALSE /\ UNCHANGED <<claimed, trying, logged>>

(* Without a container the port has to be free and a code is fetched; a look *)
(* that goes unanswered takes the same way.                                  *)
Inspect ==
  /\ pc = "inspect"
  /\ \/ box # "none" /\ PlexGoTo("compose") /\ Free
     \/ /\ IF box = "none" THEN Free ELSE Fault
        /\ \/ PortAnswers /\ PlexEnds("plex_port_taken")
           \/ PortSilent /\ PlexGoTo("claim")
  /\ UNCHANGED <<server, plexServer>>

(* A code is fetched and written, the first time and the second. *)
FetchClaim ==
  /\ pc \in {"claim", "claim2"}
  /\ \/ /\ Free /\ GoTo(IF pc = "claim" THEN "compose" ELSE "remove")
        /\ file' = "fresh" /\ UNCHANGED retried
     \/ Fault /\ PlexEnds("plex_sign_in_needed")
     \/ Fault /\ PlexEnds("compose_failed")
  /\ UNCHANGED <<server, plexServer>>

(* The container starts with the code it finds: a stale one is turned down,  *)
(* and without any nothing is tried.                                         *)
StartsPlex ==
  IF box # "running" /\ box' = "running" /\ ~claimed
    THEN /\ trying' = IF file = "fresh" THEN "soon" ELSE "no"
         /\ logged' = (logged \/ file = "stale")
    ELSE UNCHANGED <<trying, logged>>

PlexCompose ==
  /\ ComposeUp("poll")
  /\ file' = IF pc' = "over" THEN "none" ELSE file
  /\ StartsPlex
  /\ UNCHANGED <<retried, claimed, spoilt>>

(* A sleep; an attempt of a server that has booted is over two sleeps later. *)
PlexSleep ==
  /\ Sleep /\ ~(trying = "now" /\ Reached)
  /\ trying' = IF trying = "soon" /\ Reached THEN "now" ELSE trying
  /\ UNCHANGED <<claimed, logged, spoilt>>

PlexTimeIsUp ==
  /\ pc = "poll" /\ clock = Limit
  /\ PlexEnds("never_became_ready") /\ UNCHANGED <<server, plexServer, budget>>

PlexLook ==
  /\ pc = "poll" /\ clock < Limit
  /\ \/ box = "running" /\ PlexGoTo("identity") /\ UNCHANGED plexServer /\ Free
     \/ /\ IF box = "running" THEN Fault ELSE Free
        /\ PlexSleep /\ since' = Never /\ UNCHANGED <<file, retried>>
  /\ UNCHANGED server

(* Whoever holds the port answers. *)
AskIdentity ==
  /\ pc = "identity"
  /\ \/ other /\ PlexEnds("done") /\ UNCHANGED plexServer /\ Free
     \/ ~other /\ Heard /\ claimed /\ PlexEnds("done") /\ UNCHANGED plexServer
     \/ ~other /\ Heard /\ ~claimed /\ PlexGoTo("claimlog") /\ UNCHANGED plexServer
     \/ ~other /\ Lost /\ PlexSleep /\ since' = Never /\ UNCHANGED <<file, retried>>
  /\ UNCHANGED server

(* Unclaimed: a verdict only once the log says so, if it can be read, or     *)
(* Grace has gone by; the first verdict is followed by a fresh code, the     *)
(* second is the end.                                                        *)
ReadClaimLog ==
  \E told \in {logged, FALSE} :
  LET first == IF since = Never THEN clock ELSE since IN
  /\ pc = "claimlog"
  /\ IF told = logged THEN Free ELSE Fault
  /\ IF told \/ clock - first >= Grace
       THEN /\ UNCHANGED plexServer
            /\ IF retried THEN PlexEnds("plex_not_claimed")
               ELSE pc' = "claim2" /\ since' = first /\ UNCHANGED <<result, clock, file, retried>>
       ELSE PlexSleep /\ since' = first /\ UNCHANGED <<file, retried>>
  /\ UNCHANGED server

RemovePlex ==
  /\ pc = "remove"
  /\ \/ /\ Free /\ PlexGoTo("recompose") /\ box' = "none" /\ up' = FALSE
        /\ trying' = "no" /\ logged' = FALSE
     \/ /\ Fault /\ PlexEnds("docker_unreachable")
        /\ UNCHANGED <<box, up, trying, logged>>
  /\ UNCHANGED <<other, claimed, spoilt>>

(* Mutant: the container is made anew with the code it had. *)
RecomposeWithOldCode ==
  /\ pc = "recompose" /\ Free /\ box' = "running" /\ UNCHANGED <<up, other>>
  /\ pc' = "poll" /\ clock' = clock + 1 /\ since' = Never /\ UNCHANGED result
  /\ retried' = TRUE /\ file' = "stale" /\ trying' = "no" /\ logged' = ~claimed
  /\ UNCHANGED <<claimed, spoilt>>

Recompose ==
  /\ pc = "recompose"
  /\ \/ /\ Free /\ box' = "running" /\ StartsPlex
        /\ pc' = "poll" /\ clock' = clock + 1 /\ since' = Never /\ UNCHANGED result
        /\ retried' = TRUE /\ UNCHANGED file
     \/ /\ Fault /\ PlexEnds("compose_failed")
        /\ UNCHANGED <<box, trying, logged>>
  /\ UNCHANGED <<up, other, claimed, spoilt>>

PlexStep ==
  /\ app = "plex" /\ UNCHANGED app
  /\ \/ PlexBegin \/ Inspect \/ FetchClaim \/ PlexCompose \/ PlexTimeIsUp \/ PlexLook
     \/ AskIdentity \/ ReadClaimLog \/ RemovePlex \/ Recompose

------------------------------------------------------------------------------
(* plex.tv and the container. *)

(* The code runs out while the image is fetched, which may take minutes. *)
CodeExpires ==
  /\ pc = "compose" /\ file = "fresh" /\ file' = "stale"
  /\ UNCHANGED <<shared, retried, plexServer>>

(* The attempt comes to its end; PMS is up by then. *)
CodeTakes ==
  /\ Busy /\ Reached /\ trying # "no"
  /\ trying' = "no" /\ claimed' = TRUE
  /\ UNCHANGED <<shared, file, retried, logged, spoilt>>

CodeIsTurnedDown ==
  /\ Busy /\ box = "running" /\ trying # "no" /\ Spend("events")
  /\ trying' = "no" /\ logged' = TRUE /\ spoilt' = TRUE
  /\ UNCHANGED <<app, loop, server, file, retried, claimed>>

(* linuxserver's start script runs again in a container that starts again. *)
PlexCrashes ==
  /\ Crash /\ spoilt' = (spoilt \/ trying # "no") /\ trying' = "no"
  /\ UNCHANGED <<file, retried, claimed, logged>>

PlexComesBack == ComeBack /\ StartsPlex /\ UNCHANGED <<file, retried, claimed, spoilt>>

PlexWorld ==
  /\ app = "plex"
  /\ \/ Boot /\ UNCHANGED plexVars
     \/ Kill /\ UNCHANGED plexVars
     \/ Again /\ UNCHANGED plexVars
     \/ CodeExpires \/ CodeTakes \/ CodeIsTurnedDown \/ PlexCrashes \/ PlexComesBack

------------------------------------------------------------------------------
(* No claim code is left on the drive once a bring-up is over, won or lost,   *)
(* with kills in between or not (clear_plex_claim, the "finally").            *)
NoClaimLeftBehind == app = "plex" /\ pc = "over" => file = "none"

(* A code that ran out while the image was fetched is never what a bring-up   *)
(* fails of: plex_not_claimed takes a good code that was turned down or       *)
(* broken off in this very bring-up (_retry_plex_claim).                      *)
ExpiryAloneNeverFails == app = "plex" /\ result = "plex_not_claimed" => spoilt
==============================================================================
