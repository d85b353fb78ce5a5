-------------------------------- MODULE Docker -------------------------------
(***************************************************************************)
(* The Docker daemon as docker_client.py uses it: which container holds      *)
(* each app's name, whose network it is on, and what `docker-compose up -d`, *)
(* `DELETE /containers/x?force=true` and `POST /containers/x/stop` do to it. *)
(*                                                                           *)
(* A container is "own" (ours, on its own network), "via" (ours, in the      *)
(* network namespace of the VPN container that exists now), "orphan" (ours,  *)
(* in the namespace of a VPN container that was removed under it), "foreign" *)
(* (someone else's container under an app's name) or "none".                 *)
(***************************************************************************)
EXTENDS Catalog

VARIABLES
  container,  \* what holds each app's container name
  running,    \* our containers that are started
  tunnel      \* the VPN container: proven, stale and published, see below

docker == <<container, running, tunnel>>

Container == {"none", "foreign", "own", "via", "orphan"}

(* proven:    a run saw this container's tunnel up;                          *)
(* stale:     the owner saved other VPN answers since it was created, and    *)
(*            Gluetun reads its secrets only when it starts;                 *)
(* published: it was created from a compose file that had it publish its     *)
(*            riders' port.                                                  *)
Tunnel == [proven : BOOLEAN, stale : BOOLEAN, published : BOOLEAN]

NoTunnel == [proven |-> FALSE, stale |-> FALSE, published |-> FALSE]

DockerTypeOK ==
  /\ container \in [App -> Container]
  /\ running \subseteq App
  /\ tunnel \in Tunnel

NetworkOf(a, file) == IF a \in Rider /\ Vpn \in file THEN "via" ELSE "own"

(* `up` of a rider on the VPN's network starts the VPN's service first. *)
Services(a, file) == IF NetworkOf(a, file) = "via" THEN {a, Vpn} ELSE {a}

(* A rider's port is one host port: the VPN's container publishes it for a   *)
(* rider behind it, a rider on its own network publishes it itself.          *)
PortTaken(a, file) ==
  \/ /\ a = Vpn
     /\ RidersOf(file) # {}
     /\ \E r \in Rider : container[r] = "own" /\ r \in running
  \/ /\ a \in Rider
     /\ NetworkOf(a, file) = "own"
     /\ Vpn \in running /\ tunnel.published

Missing(a, file) == {b \in Services(a, file) : container[b] = "none"}

(* `up -d --no-recreate` first creates what is missing from the file; one    *)
(* that exists is kept as it is, whatever the file says now.                 *)
ComposeCreate(a, file) ==
  LET missing == Missing(a, file)
  IN  /\ \A b \in Services(a, file) : container[b] # "foreign"
      /\ container' = [b \in App |-> IF b \in missing THEN NetworkOf(b, file)
                                                      ELSE container[b]]
      /\ tunnel' = IF Vpn \in missing
                     THEN [NoTunnel EXCEPT !.published = RidersOf(file) # {}]
                     ELSE tunnel
      /\ UNCHANGED running

(* Without that flag it takes the old container down to put a new one in its *)
(* place.                                                                    *)
ComposeRecreate(a) ==
  /\ container[a] # "foreign"
  /\ container' = [container EXCEPT ![a] = "own"]
  /\ running' = running \ {a}
  /\ UNCHANGED tunnel

(* Then it starts what is not running.                                       *)
ComposeStart(a, file) ==
  /\ a \in running \/ (container[a] # "orphan" /\ ~PortTaken(a, file))
  /\ running' = running \cup Services(a, file)
  /\ UNCHANGED <<container, tunnel>>

(* A forced removal takes whatever has the name, ours or not, and leaves a   *)
(* rider of the removed VPN in a namespace nothing can reach any more.       *)
RemoveContainer(a) ==
  /\ container' = [b \in App |->
                     CASE b = a -> "none"
                       [] b # a /\ a = Vpn /\ container[b] = "via" -> "orphan"
                       [] OTHER -> container[b]]
  /\ running' = running \ {a}
  /\ tunnel' = IF a = Vpn THEN NoTunnel ELSE tunnel

StopContainer(a) ==
  /\ running' = running \ {a}
  /\ UNCHANGED <<container, tunnel>>

(* The readiness probe asks a rider at the VPN's host name when the VPN is   *)
(* part of the install and at its own otherwise (app_host).                  *)
Answers(a, ids) ==
  /\ a \in running
  /\ container[a] = IF a \in Rider /\ Vpn \in ids THEN "via" ELSE "own"
==============================================================================
