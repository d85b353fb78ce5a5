------------------------------- MODULE Catalog -------------------------------
(***************************************************************************)
(* The catalog of apps Marrquee can deploy: which apps there are, the order *)
(* they are brought up in, which of them ride the VPN's network, and the    *)
(* rules that say when one may be added.  Constant operators only; every    *)
(* other module extends this one.                                           *)
(***************************************************************************)
EXTENDS Naturals, FiniteSets

CONSTANTS
  App,       \* every app id of the catalog
  Order,     \* the place of each app in the catalog, which is its deploy order
  Managed,   \* apps that have a container of ours; the owner's own Plex has none
  Rider,     \* apps with network_via: they share the VPN container's network
  Vpn,       \* the one app of kind "vpn" (Gluetun)
  Arr,       \* apps whose login_kind is "arr": a new login recreates them
  NeedsAny,  \* for each app, the id sets of its needs_any rules
  Excludes,  \* for each app, the ids of its excludes_any rules
  NoApp      \* not an app: "no app id"

ASSUME CatalogAssumption ==
  /\ IsFiniteSet(App)
  /\ NoApp \notin App
  /\ Order \in [App -> Nat]
  /\ \A a, b \in App : Order[a] = Order[b] => a = b
  /\ Managed \subseteq App
  /\ Vpn \in Managed
  /\ Rider \subseteq Managed \ {Vpn}
  /\ \A a, b \in Rider : a = b
  /\ \A a \in Rider : Order[Vpn] < Order[a]
  /\ Arr \subseteq Managed \ (Rider \cup {Vpn})
  /\ NeedsAny \in [App -> SUBSET SUBSET App]
  /\ Excludes \in [App -> SUBSET App]

(* An exclusion is written on both sides (one media server to an install),   *)
(* no app needs itself, and Gluetun neither needs nor excludes an app.       *)
ASSUME RulesAssumption ==
  /\ \A a \in App : \A rule \in NeedsAny[a] : a \notin rule
  /\ NeedsAny[Vpn] = {} /\ Excludes[Vpn] = {}
  /\ \A a, b \in App : b \in Excludes[a] => a \in Excludes[b]

(* Mutant: the catalog is gone through backwards. *)
FirstIsLast(S) == CHOOSE a \in S : \A b \in S : Order[b] <= Order[a]

(* apps_in_order, read from its front: the next app of S to bring up. *)
First(S) == CHOOSE a \in S : \A b \in S : Order[a] <= Order[b]

(* reversed(apps_in_order(S)): the next app of S to take down. *)
Last(S) == CHOOSE a \in S : \A b \in S : Order[b] <= Order[a]

Unavailable(a, present) ==
  \/ \E rule \in NeedsAny[a] : rule \cap present = {}
  \/ Excludes[a] \cap present # {}

RidersOf(present) == Rider \cap present

(* Mutant: a companion that is there already comes along again. *)
CompanionsAlways(a, present, withoutVpn) ==
  IF a \in Rider /\ ~withoutVpn THEN {Vpn} ELSE {}

CompanionsFor(a, present, withoutVpn) ==
  IF a \in Rider /\ Vpn \notin present /\ ~withoutVpn THEN {Vpn} ELSE {}

(* build_stack_plan raises for a rider whose VPN is not in the install,     *)
(* unless the owner confirmed running without one.                          *)
PlanBuilds(ids, withoutVpn) == RidersOf(ids) = {} \/ Vpn \in ids \/ withoutVpn

(* What the wizard's grid can lead to: apps it offers, no rule broken, and   *)
(* the VPN only as the companion of an app that rides it.                    *)
WizardChoices ==
  { S \in SUBSET Managed :
      /\ S # {}
      /\ \A a \in S : ~Unavailable(a, S \ {a})
      /\ Vpn \in S => RidersOf(S) # {} }
==============================================================================
