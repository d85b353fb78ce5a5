----------------------------- MODULE JellyfinSetup ----------------------------
(***************************************************************************)
(* Jellyfin's bring-up (deploy.py, _bring_up_jellyfin; jellyfin.py,         *)
(* ensure_jellyfin_admin): once the container runs, every look goes through  *)
(* Jellyfin's first-time setup from the top, one request at a time, until    *)
(* the one login is its admin and a key of Marrquee's is on disk.            *)
(*                                                                           *)
(* What a request changed in Jellyfin stays changed although its answer was  *)
(* lost or Marrquee was killed, so each look has to find its own work.       *)
(***************************************************************************)
EXTENDS BringUp, FiniteSets

CONSTANT MaxKeys  \* bound: keys Jellyfin ever makes

ASSUME JellyfinAssumption == MaxKeys \in Nat \ {0}

VARIABLES
  login,  \* the one login: 1, or 2 after a change
  held,   \* the login this bring-up read when it began
  admin,  \* who signs in to Jellyfin: a login, Nobody or a Stranger
  wizard, \* Jellyfin's first-time setup is completed
  seen,   \* whether it was when this look asked
  keys,   \* keys Jellyfin has for Marrquee, numbered as they are made
  newest, \* the newest key the listing showed, 0 for none
  saved   \* the key in jellyfin.json, 0 for none

jellyfin     == <<admin, wizard, keys>>
jellyfinVars == <<login, held, jellyfin, seen, newest, saved>>

Key      == 1 .. MaxKeys
Nobody   == 0
Stranger == 3

JellyfinTypeOK ==
  /\ login \in {1, 2} /\ held \in {1, 2} /\ admin \in {1, 2, Nobody, Stranger}
  /\ wizard \in BOOLEAN /\ seen \in BOOLEAN
  /\ keys \subseteq Key /\ newest \in Key \union {0} /\ saved \in Key \union {0}

(* A new Jellyfin, one a stranger set up, or one of Marrquee's: with its key, *)
(* with a key the owner has revoked, or with jellyfin.json lost.             *)
JellyfinInit ==
  /\ login = 1 /\ held = 1 /\ seen = FALSE /\ newest = 0
  /\ \/ admin = Nobody /\ wizard = FALSE /\ keys = {} /\ saved = 0
     \/ admin = Stranger /\ wizard = TRUE /\ keys = {} /\ saved = 0
     \/ admin = 1 /\ wizard = TRUE /\ keys \in {{}, {1}} /\ saved \in {0, 1}

------------------------------------------------------------------------------
JellyfinBegin ==
  /\ Begin("inspect")
  /\ held' = login
  /\ UNCHANGED <<login, jellyfin, seen, newest, saved>>

(* Without a container the port has to be free; a look that goes unanswered  *)
(* takes the same way.                                                       *)
JellyfinInspect ==
  /\ pc = "inspect"
  /\ \/ box # "none" /\ GoTo("compose") /\ Free
     \/ /\ IF box = "none" THEN Free ELSE Fault
        /\ \/ PortAnswers /\ End("jellyfin_port_taken")
           \/ PortSilent /\ GoTo("compose")
  /\ UNCHANGED <<server, jellyfinVars>>

------------------------------------------------------------------------------
(* A request that is turned down for good, or not answered: the next look    *)
(* tries again (_fallback).                                                  *)
Refused   == Reached /\ Fault /\ End("jellyfin_setup_refused")
NoAnswer  == Lost /\ Sleep /\ UNCHANGED since
Fallback  == Refused \/ NoAnswer

AskPublic ==
  /\ pc = "public"
  /\ \/ Heard /\ seen' = wizard /\ GoTo("record")
     \/ NoAnswer /\ UNCHANGED seen
  /\ UNCHANGED <<server, login, held, jellyfin, newest, saved>>

(* Mutant: any answer at all to the saved key will do. *)
CheckAnyAnswer ==
  /\ pc = "record"
  /\ \/ saved # 0 /\ Heard /\ End("done")
     \/ saved = 0 /\ Free /\ GoTo(IF seen THEN "signin" ELSE "user")
  /\ UNCHANGED <<server, jellyfinVars>>

(* The key on disk settles it if it works; if not, whatever the reason, the  *)
(* login is tried.                                                           *)
CheckRecord ==
  /\ pc = "record"
  /\ \/ saved \in keys /\ Heard /\ End("done")
     \/ /\ IF saved \in keys THEN Lost ELSE Free
        /\ GoTo(IF seen THEN "signin" ELSE "user")
  /\ UNCHANGED <<server, jellyfinVars>>

(* The admin takes the name and password of the login read at the beginning. *)
(* A setup somebody completed meanwhile refuses, and the sign-in decides.    *)
CreateUser ==
  /\ pc = "user"
  /\ \/ Reached /\ ~wizard /\ admin' = held
        /\ \/ Free /\ GoTo("complete")
           \/ Fault /\ Sleep /\ UNCHANGED since
     \/ Heard /\ wizard /\ GoTo("signin") /\ UNCHANGED admin
     \/ Fallback /\ UNCHANGED admin
  /\ UNCHANGED <<server, login, held, wizard, keys, seen, newest, saved>>

Complete ==
  /\ pc = "complete"
  /\ \/ Reached /\ wizard' = TRUE
        /\ \/ Free /\ GoTo("signin")
           \/ Fault /\ Sleep /\ UNCHANGED since
     \/ Fallback /\ UNCHANGED wizard
  /\ UNCHANGED <<server, login, held, admin, keys, seen, newest, saved>>

SignIn ==
  /\ pc = "signin"
  /\ \/ Heard /\ admin = held /\ GoTo("keys")
     \/ Heard /\ admin # held /\ End("jellyfin_not_ours")
     \/ Fallback
  /\ UNCHANGED <<server, jellyfinVars>>

(* Mutant: a key is made without a look at those there are. *)
ListNoKeys ==
  /\ pc = "keys" /\ Free /\ newest' = 0 /\ GoTo("newkey")
  /\ UNCHANGED <<server, login, held, jellyfin, seen, saved>>

(* Marrquee's newest key, and one is made only where there is none. *)
Last(ks) == CHOOSE k \in ks : \A o \in ks : o <= k
Newest   == Last(keys \union {0})

ListKeys ==
  /\ pc \in {"keys", "rekeys"}
  /\ \/ /\ Heard /\ newest' = Newest
        /\ \/ keys # {} /\ GoTo("save")
           \/ keys = {} /\ pc = "keys" /\ GoTo("newkey")
           \/ keys = {} /\ pc = "rekeys" /\ End("jellyfin_setup_refused")
     \/ Fallback /\ UNCHANGED newest
  /\ UNCHANGED <<server, login, held, jellyfin, seen, saved>>

CreateKey ==
  /\ pc = "newkey"
  /\ \/ /\ Reached /\ Last(keys \union {saved}) < MaxKeys
        /\ keys' = keys \union {Last(keys \union {saved}) + 1}
        /\ \/ Free /\ GoTo("rekeys")
           \/ Fault /\ Sleep /\ UNCHANGED since
     \/ Fallback /\ UNCHANGED keys
  /\ UNCHANGED <<server, login, held, admin, wizard, seen, newest, saved>>

SaveKey ==
  /\ pc = "save"
  /\ \/ saved' = newest /\ GoTo("finish") /\ Free
     \/ UNCHANGED saved /\ End("jellyfin_setup_refused") /\ Fault
  /\ UNCHANGED <<server, login, held, jellyfin, seen, newest>>

(* The server's name and the sign-out: whatever they answer. *)
Finish == pc = "finish" /\ Free /\ End("done") /\ UNCHANGED <<server, jellyfinVars>>

JellyfinStep ==
  /\ app = "jellyfin" /\ UNCHANGED app
  /\ \/ JellyfinBegin \/ JellyfinInspect
     \/ ComposeUp("poll") /\ UNCHANGED jellyfinVars
     \/ TimeIsUp("never_became_ready") /\ UNCHANGED jellyfinVars
     \/ Look("public") /\ UNCHANGED jellyfinVars
     \/ AskPublic \/ CheckRecord \/ CreateUser \/ Complete \/ SignIn
     \/ ListKeys \/ CreateKey \/ SaveKey \/ Finish

------------------------------------------------------------------------------
(* Somebody goes through Jellyfin's own setup page meanwhile. *)
StrangerFinishes ==
  /\ Busy /\ Reached /\ ~wizard /\ Spend("events")
  /\ admin' = Stranger /\ wizard' = TRUE
  /\ UNCHANGED <<app, loop, server, login, held, keys, seen, newest, saved>>

(* Between two bring-ups the owner may save another login, and in Jellyfin   *)
(* may revoke the key.                                                       *)
NewLogin ==
  /\ pc = "over" /\ login = 1 /\ login' = 2
  /\ UNCHANGED <<shared, held, jellyfin, seen, newest, saved>>

KeyIsRevoked ==
  /\ pc = "over" /\ keys # {} /\ Spend("events") /\ keys' = {}
  /\ UNCHANGED <<app, loop, server, login, held, admin, wizard, seen, newest, saved>>

JellyfinWorld ==
  /\ app = "jellyfin"
  /\ \/ (Boot \/ Crash \/ ComeBack \/ Kill \/ Again) /\ UNCHANGED jellyfinVars
     \/ StrangerFinishes \/ NewLogin \/ KeyIsRevoked

------------------------------------------------------------------------------
(* However often the setup is gone through, lost answers and kills included,  *)
(* Marrquee keeps to one key in Jellyfin (_newest_marrquee_key).              *)
OneJellyfinKey == app = "jellyfin" => Cardinality(keys) <= 1

(* "Left over from an earlier Jellyfin" is said only of one that Marrquee did *)
(* not set up.  Violated: a bring-up that failed after the setup was          *)
(* completed, and a login changed before the next, leave no key to get in by. *)
LeftOverIsAStrangers ==
  app = "jellyfin" /\ result = "jellyfin_not_ours" => admin = Stranger

(* The port is said to be taken only where another server has it.  A single   *)
(* look that Docker does not answer in time takes Marrquee's own Jellyfin for *)
(* one (_bring_up_jellyfin).                                                  *)
PortTakenIsByAnother ==
  app = "jellyfin" /\ result = "jellyfin_port_taken" => other
==============================================================================
