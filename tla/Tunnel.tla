-------------------------------- MODULE Tunnel --------------------------------
(***************************************************************************)
(* The VPN's bring-up (deploy.py, _await_tunnel): the tunnel is proven by    *)
(* Docker's health check, Gluetun's own status and an address, or by the     *)
(* first two alone once Grace sleeps have gone by without the third.         *)
(*                                                                           *)
(* Gluetun itself is modelled as far as the code relies on it: it reads its  *)
(* login when it is started, it writes AUTH_FAILED to its log when the VPN   *)
(* company turns that login down, and its health check follows the tunnel    *)
(* with a delay.                                                             *)
(***************************************************************************)
EXTENDS BringUp

VARIABLES
  answers, \* the VPN login the owner has saved: 1, or 2 after a change
  good,    \* the logins the VPN company accepts
  secrets, \* the login in Gluetun's secrets folder, 0 for none
  used,    \* the login Gluetun was last started with
  refused, \* logins the newest lines of its log show as refused
  tunnel,  \* the tunnel carries traffic
  lately   \* sleeps since it last did

gluetun    == <<used, refused, tunnel, lately>>
tunnelVars == <<answers, good, secrets, gluetun>>

Logins == {1, 2}

TunnelTypeOK ==
  /\ answers \in Logins /\ good \subseteq Logins
  /\ secrets \in Logins \union {0} /\ used \in Logins \union {0}
  /\ refused \subseteq Logins
  /\ tunnel \in BOOLEAN /\ lately \in 0 .. Never
  /\ (tunnel => lately = 0 /\ box = "running")

TunnelInit ==
  /\ answers = 1 /\ good \in SUBSET Logins
  /\ IF box = "none" THEN secrets = 0 /\ used = 0 ELSE secrets = 1 /\ used = 1
  /\ refused = {} /\ tunnel = FALSE /\ lately = Never

------------------------------------------------------------------------------
(* The secrets folder is rewritten from the saved answers on every bring-up, *)
(* whether Gluetun runs or not.                                              *)
WriteSecrets ==
  /\ pc = "secrets"
  /\ \/ secrets' = answers /\ GoTo("compose") /\ Free
     \/ UNCHANGED secrets /\ End("compose_failed") /\ Fault
  /\ UNCHANGED <<server, answers, good, gluetun>>

(* Gluetun reads the folder when it is started, and not again. *)
StartGluetun ==
  /\ ComposeUp("connect")
  /\ used' = IF box # "running" /\ box' = "running" THEN secrets ELSE used
  /\ UNCHANGED <<answers, good, secrets, refused, tunnel, lately>>

NoTun ==
  /\ pc = "compose" /\ Fault /\ End("vpn_no_tun")
  /\ UNCHANGED <<server, tunnelVars>>

Aged == IF lately = Never THEN Never ELSE lately + 1
TunnelSleep ==
  /\ Sleep
  /\ lately' = IF tunnel THEN 0 ELSE Aged
  /\ UNCHANGED <<used, refused, tunnel, answers, good, secrets>>

(* One look at the container and its log, and what classify_tunnel makes of  *)
(* it: the log before the state, the state before the health, which may lag  *)
(* one sleep behind the tunnel.  A look Docker does not answer says that     *)
(* Gluetun is gone.                                                          *)
Healthy == box = "running" /\ (tunnel \/ lately <= 1)

(* Mutant: a running container is good enough. *)
ClassifyByState ==
  /\ pc = "poll" /\ clock < Limit
  /\ \/ Fault /\ End("compose_failed") /\ UNCHANGED tunnelVars
     \/ Free /\ refused # {} /\ End("vpn_refused") /\ UNCHANGED tunnelVars
     \/ Free /\ refused = {} /\ box = "down" /\ End("vpn_settings_refused") /\ UNCHANGED tunnelVars
     \/ Free /\ refused = {} /\ box = "running" /\ GoTo("status") /\ UNCHANGED tunnelVars
  /\ UNCHANGED server

Classify ==
  /\ pc = "poll" /\ clock < Limit
  /\ \/ Fault /\ End("compose_failed") /\ UNCHANGED tunnelVars
     \/ Free /\ refused # {} /\ End("vpn_refused") /\ UNCHANGED tunnelVars
     \/ Free /\ refused = {} /\ box = "down" /\ End("vpn_settings_refused") /\ UNCHANGED tunnelVars
     \/ Free /\ refused = {} /\ Healthy /\ GoTo("status") /\ UNCHANGED tunnelVars
     \/ Free /\ refused = {} /\ box = "running" /\ ~tunnel /\ TunnelSleep /\ since' = Never
  /\ UNCHANGED server

(* Gluetun's own status: "running" says that it is at work on a tunnel, not   *)
(* that there is one.                                                        *)
AskStatus ==
  /\ pc = "status"
  /\ \/ Heard /\ tunnel /\ GoTo("place") /\ UNCHANGED tunnelVars
     \/ Heard /\ ~tunnel /\ GoTo("place") /\ UNCHANGED tunnelVars
     \/ Heard /\ ~tunnel /\ TunnelSleep /\ since' = Never
     \/ Lost /\ TunnelSleep /\ since' = Never
  /\ UNCHANGED server

(* The address it goes out by, which it may take its time to learn.  Without *)
(* one the tunnel is believed after Grace sleeps of being healthy and        *)
(* running all the same.                                                     *)
AskPlace ==
  /\ pc = "place" /\ Free
  /\ \/ Reached /\ End("done") /\ UNCHANGED tunnelVars
     \/ LET first == IF since = Never THEN clock ELSE since IN
        IF clock - first >= Grace THEN End("done") /\ UNCHANGED tunnelVars
                                  ELSE TunnelSleep /\ since' = first
  /\ UNCHANGED server

TunnelStep ==
  /\ app = "vpn" /\ UNCHANGED app
  /\ \/ Begin("secrets") /\ UNCHANGED tunnelVars
     \/ WriteSecrets \/ StartGluetun \/ NoTun
     \/ Connect /\ UNCHANGED tunnelVars
     \/ TimeIsUp("vpn_not_connected") /\ UNCHANGED tunnelVars
     \/ Classify \/ AskStatus \/ AskPlace

------------------------------------------------------------------------------
(* Gluetun and the VPN company.  A refused login is tried over and over; a   *)
(* tunnel drops when it likes.                                               *)
TunnelUp ==
  /\ Busy /\ Reached /\ ~tunnel /\ used \in good
  /\ tunnel' = TRUE /\ lately' = 0
  /\ UNCHANGED <<shared, answers, good, secrets, used, refused>>

LoginRefused ==
  /\ Busy /\ box = "running" /\ used \notin good \union refused
  /\ refused' = refused \union {used}
  /\ UNCHANGED <<shared, answers, good, secrets, used, tunnel, lately>>

(* Its log moves on; only the newest lines are ever read. *)
LogMovesOn ==
  /\ Busy /\ box = "running" /\ refused' = refused \ {l \in Logins : l # used}
  /\ UNCHANGED <<shared, answers, good, secrets, used, tunnel, lately>>

TunnelDrops ==
  /\ Busy /\ tunnel /\ Spend("events")
  /\ tunnel' = FALSE
  /\ UNCHANGED <<app, loop, server, answers, good, secrets, used, refused, lately>>

(* The container stops and starts; Gluetun reads its secrets anew. *)
GluetunCrashes ==
  /\ Crash /\ tunnel' = FALSE
  /\ used' = IF box' = "running" THEN secrets ELSE used
  /\ UNCHANGED <<answers, good, secrets, refused, lately>>

GluetunComesBack ==
  /\ ComeBack /\ used' = secrets
  /\ UNCHANGED <<answers, good, secrets, refused, tunnel, lately>>

(* Between two bring-ups the owner saves another login. *)
NewAnswers ==
  /\ pc = "over" /\ result = "vpn_refused" /\ answers = 1
  /\ answers' = 2
  /\ UNCHANGED <<shared, good, secrets, gluetun>>

TunnelWorld ==
  /\ app = "vpn"
  /\ \/ Boot /\ UNCHANGED tunnelVars
     \/ Kill /\ UNCHANGED tunnelVars
     \/ Again /\ UNCHANGED tunnelVars
     \/ TunnelUp \/ LoginRefused \/ LogMovesOn \/ TunnelDrops \/ GluetunCrashes \/ GluetunComesBack
     \/ NewAnswers

------------------------------------------------------------------------------
(* A VPN reported as protecting the downloads carried traffic a sleep ago at  *)
(* most: neither a slow address nor a health check that lags behind lets a    *)
(* tunnel through that has long been down (_await_tunnel, classify_tunnel).   *)
TunnelDoneWasUp ==
  [][app = "vpn" /\ Busy /\ result' = "done" => tunnel \/ lately <= 1]_<<shared, tunnelVars>>

(* "Check the username and password you saved, then press Try again" is said  *)
(* of a login the VPN company has turned down, not of one it never saw.       *)
(* Violated: a Gluetun that runs is left running, so the new login is not     *)
(* used, and the log still tells of the old one (_bring_up_app).              *)
RefusalIsOfTheSavedLogin ==
  [][app = "vpn" /\ Busy /\ result' = "vpn_refused" => answers \in refused]_<<shared, tunnelVars>>
==============================================================================
