------------------------------- MODULE BringUp --------------------------------
(***************************************************************************)
(* What every bring-up of one app shares (deploy.py, _bring_up_app): have   *)
(* Docker Compose start the app's container, then look again and again       *)
(* until the app has proven itself, has shown that it never will, or time is *)
(* up.  The kinds of app differ in what counts as proof: an arr app or       *)
(* qBittorrent answers a keyed call, Recyclarr has only to run, the owner's  *)
(* own Plex has no container at all.  Those three are in this module; the    *)
(* VPN, Plex, Jellyfin and Seerr each have one of their own.                 *)
(*                                                                           *)
(* pc names the call that is about to be made.  Time passes only in sleeps,  *)
(* so clock counts them.  A call may go unanswered, and Marrquee may be      *)
(* killed at any point; it then begins again from what is on disk.           *)
(***************************************************************************)
EXTENDS Naturals

CONSTANTS
  Limit,     \* sleeps until a bring-up gives up
  Grace,     \* sleeps for which half a proof is borne with
  LostPreflights, \* a server that holds the port may miss the pre-flight
  MaxFaults, \* bound: calls that go unanswered or are turned down
  MaxKills,  \* bound: times Marrquee is killed
  MaxAgain,  \* bound: times the app is brought up again
  MaxEvents  \* bound: things that happen to the container meanwhile

ASSUME BringUpAssumption ==
  /\ Limit \in Nat /\ Grace \in Nat /\ Grace <= Limit
  /\ LostPreflights \in BOOLEAN
  /\ {MaxFaults, MaxKills, MaxAgain, MaxEvents} \subseteq Nat

VARIABLES
  app,    \* the kind of app that is brought up
  pc,     \* the call to be made next, "over" once the bring-up has ended
  result, \* "none", "done" or the code of the failure
  clock,  \* sleeps so far
  since,  \* the sleep since which half a proof has held without a break
  box,    \* the app's container: "none", "running" or "down"
  up,     \* the process in it has booted and answers
  other,  \* another server of this machine answers on the app's port
  budget  \* what is left of the bounds

loop   == <<pc, result, clock, since>>
server == <<box, up, other>>
shared == <<app, loop, server, budget>>

Never == Limit + 1

(* Why a bring-up ends without the app. *)
Failures ==
  {"compose_failed", "docker_unreachable", "never_became_ready", "storage_refused",
   "existing_plex_unreachable", "vpn_no_tun", "vpn_refused", "vpn_settings_refused",
   "vpn_not_connected", "plex_sign_in_needed", "plex_port_taken", "plex_not_claimed",
   "jellyfin_port_taken", "jellyfin_setup_refused", "jellyfin_not_ours",
   "seerr_setup_refused", "seerr_not_ours"}

Apps == {"arr", "sync", "own-plex", "vpn", "plex", "jellyfin", "seerr"}

Budget == [faults : 0 .. MaxFaults, kills : 0 .. MaxKills,
           again : 0 .. MaxAgain, events : 0 .. MaxEvents]

SharedTypeOK ==
  /\ app \in Apps
  /\ result \in Failures \union {"none", "done"}
  /\ (result = "none") = (pc # "over")
  /\ clock \in 0 .. Limit /\ since \in 0 .. Never
  /\ box \in {"none", "running", "down"} /\ up \in BOOLEAN /\ other \in BOOLEAN
  /\ (up => box = "running")
  /\ budget \in Budget

(* A bring-up begins with a container an earlier one left, or with none.  On *)
(* the host's own ports a server of someone else's may answer in the second  *)
(* case; the owner's Plex is such a server, if the address is right.         *)
SharedInit ==
  /\ app \in Apps
  /\ pc = "begin" /\ result = "none" /\ clock = 0 /\ since = Never
  /\ \/ box = "none" /\ up = FALSE
     \/ box = "down" /\ up = FALSE
     \/ box = "running" /\ up = TRUE
  /\ app = "own-plex" => box = "none"
  /\ other \in BOOLEAN
  /\ other => box = "none" /\ app \in {"plex", "jellyfin", "own-plex"}
  /\ budget = [faults |-> MaxFaults, kills |-> MaxKills,
               again |-> MaxAgain, events |-> MaxEvents]

------------------------------------------------------------------------------
(* How a step goes on. *)
Spend(what) == budget[what] > 0 /\ budget' = [budget EXCEPT ![what] = @ - 1]
Free        == UNCHANGED budget
Fault       == Spend("faults")

GoTo(call) == pc' = call /\ UNCHANGED <<result, clock, since>>
End(code)  == pc' = "over" /\ result' = code /\ UNCHANGED <<clock, since>>
Sleep      == pc' = "poll" /\ clock' = clock + 1 /\ UNCHANGED result

(* The app hears a request; a lost request or answer costs a fault. *)
Reached == box = "running" /\ up
Heard   == Reached /\ Free
Lost    == IF Reached THEN Fault ELSE Free

(* What the pre-flight of a port hears. *)
PortAnswers == other \/ Reached
PortSilent  == ~PortAnswers \/ LostPreflights

------------------------------------------------------------------------------
(* The steps all bring-ups are made of. *)

(* Every wait of a bring-up starts its own clock. *)
Begin(call) ==
  /\ pc = "begin"
  /\ pc' = call /\ clock' = 0 /\ since' = Never
  /\ UNCHANGED <<result, server, budget>>

(* Compose creates a missing container and starts a stopped one; one that    *)
(* runs is left alone.  When it fails, the container may be there or not.    *)
ComposeUp(call) ==
  /\ pc = "compose"
  /\ \/ box' = "running" /\ up' = up /\ GoTo(call) /\ Free
     \/ Fault /\ End("compose_failed") /\ up' = up
        /\ box' \in (IF box = "none" THEN {"none", "down"} ELSE {box})
  /\ UNCHANGED other

(* Marrquee joins the network of the stack, which it may be on already. *)
Connect ==
  /\ pc = "connect"
  /\ \/ GoTo("poll") /\ Free
     \/ End("docker_unreachable") /\ Fault
  /\ UNCHANGED server

(* Mutant: the time is only looked at when the container runs. *)
TimeIsUpIfRunning(code) ==
  /\ pc = "poll" /\ clock = Limit /\ box = "running"
  /\ End(code) /\ UNCHANGED <<server, budget>>

TimeIsUp(code) ==
  /\ pc = "poll" /\ clock = Limit
  /\ End(code) /\ UNCHANGED <<server, budget>>

(* A look at the container: only a running one is asked anything.  A look    *)
(* that Docker does not answer in time reports no container.                 *)
Look(call) ==
  /\ pc = "poll" /\ clock < Limit
  /\ \/ box = "running" /\ GoTo(call) /\ Free
     \/ box # "running" /\ Sleep /\ since' = Never /\ Free
     \/ Sleep /\ since' = Never /\ Fault
  /\ UNCHANGED server

------------------------------------------------------------------------------
(* An arr app, qBittorrent ("arr") and Recyclarr ("sync").  The files the    *)
(* last two start from are written first.                                    *)
WriteConf ==
  /\ pc = "conf"
  /\ \/ GoTo("compose") /\ Free
     \/ End("compose_failed") /\ Fault
  /\ UNCHANGED server

Probe ==
  /\ pc = "probe"
  /\ IF app = "sync" THEN End("done") /\ Free
     ELSE \/ Heard /\ End("done")
          \/ Lost /\ Sleep /\ UNCHANGED since
  /\ UNCHANGED server

PlainStep ==
  /\ app \in {"arr", "sync"}
  /\ \/ Begin("conf") \/ WriteConf \/ ComposeUp("connect") \/ Connect
     \/ TimeIsUp("never_became_ready") \/ Look("probe") \/ Probe
  /\ UNCHANGED app

(* The owner's Plex is asked once who it is.  "other" says that the saved    *)
(* address is another machine's by now.                                      *)
AskOwnPlex ==
  /\ app = "own-plex" /\ pc = "begin"
  /\ \/ End(IF other THEN "existing_plex_unreachable" ELSE "done") /\ Free
     \/ End("existing_plex_unreachable") /\ Fault
  /\ UNCHANGED <<app, server>>

------------------------------------------------------------------------------
(* What happens around a bring-up.  Nothing is said of the app between two   *)
(* bring-ups.                                                                *)
Busy == pc # "over"

Boot ==
  /\ Busy /\ box = "running" /\ ~up
  /\ up' = TRUE
  /\ UNCHANGED <<app, loop, box, other, budget>>

Crash ==
  /\ Busy /\ box = "running" /\ Spend("events")
  /\ box' \in {"running", "down"} /\ up' = FALSE
  /\ UNCHANGED <<app, loop, other>>

(* The restart policy of the container. *)
ComeBack ==
  /\ Busy /\ box = "down" /\ up' = FALSE /\ box' = "running"
  /\ UNCHANGED <<app, loop, other, budget>>

(* Marrquee is killed and goes on with the run it was in: with the app it    *)
(* was at, from the top.  No "finally" has run.                              *)
Kill ==
  /\ Busy /\ Spend("kills")
  /\ pc' = "begin"
  /\ UNCHANGED <<app, result, clock, since, server>>

(* A later deploy, "Try again" or login run brings the same app up again. *)
Again ==
  /\ pc = "over" /\ Spend("again")
  /\ pc' = "begin" /\ result' = "none"
  /\ UNCHANGED <<app, clock, since, server>>
==============================================================================
