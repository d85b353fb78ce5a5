------------------------------ MODULE SeerrSetup ------------------------------
(***************************************************************************)
(* Seerr's bring-up (deploy.py, _bring_up_seerr; seerr.py,                  *)
(* ensure_seerr_setup): a sign-in has to be on disk beforehand; once the     *)
(* container runs, every look goes through Seerr's first-time setup from the *)
(* top, one request at a time.                                               *)
(***************************************************************************)
EXTENDS BringUp

VARIABLES
  account, \* a sign-in for Seerr is saved, and Jellyfin already has it
  type,    \* Seerr's media server: "unset", "ours" or "other"
  rules,   \* the sign-in rules are written: no local logins
  open,    \* Seerr calls itself initialized and lets people in
  seenOpen \* whether it did when this look asked

seerrVars == <<account, type, rules, open, seenOpen>>

SeerrTypeOK ==
  /\ type \in {"unset", "ours", "other"}
  /\ {account, rules, open, seenOpen} \subseteq BOOLEAN

(* A new Seerr, one of Marrquee's at any stage, or one set up for another    *)
(* media server.                                                             *)
SeerrInit ==
  /\ account \in BOOLEAN /\ seenOpen = FALSE
  /\ \/ type = "unset" /\ rules = FALSE /\ open = FALSE
     \/ type = "ours" /\ rules \in BOOLEAN /\ open \in BOOLEAN /\ (open => rules)
     \/ type = "other" /\ rules = TRUE /\ open = TRUE

------------------------------------------------------------------------------
SeerrBegin ==
  /\ \/ account /\ Begin("compose")
     \/ ~account /\ pc = "begin" /\ Free /\ End("seerr_setup_refused") /\ UNCHANGED server
  /\ UNCHANGED seerrVars

TurnedDown == Reached /\ Fault /\ End("seerr_setup_refused")
Unanswered == Lost /\ Sleep /\ UNCHANGED since
NotNow     == TurnedDown \/ Unanswered

(* The sign-in is put together anew at every look: the container's gateway,  *)
(* or the account, may be missing.                                           *)
BuildSignIn ==
  /\ pc = "gateway"
  /\ \/ account /\ GoTo("public") /\ Free
     \/ account /\ Fault /\ Sleep /\ UNCHANGED since
     \/ ~account /\ Free /\ Sleep /\ UNCHANGED since
  /\ UNCHANGED <<server, seerrVars>>

AskSettings ==
  /\ pc = "public"
  /\ \/ /\ Heard /\ seenOpen' = open
        /\ \/ type = "unset" /\ GoTo("auth")
           \/ type = "ours" /\ GoTo("main")
           \/ type = "other" /\ End("seerr_not_ours")
     \/ Unanswered /\ UNCHANGED seenOpen
  /\ UNCHANGED <<server, account, type, rules, open>>

Auth ==
  /\ pc = "auth"
  /\ \/ /\ Reached /\ type' = "ours"
        /\ \/ Free /\ GoTo("main")
           \/ Fault /\ Sleep /\ UNCHANGED since
     \/ NotNow /\ UNCHANGED type
  /\ UNCHANGED <<server, account, rules, open, seenOpen>>

CheckKey ==
  /\ pc = "main"
  /\ \/ Heard /\ seenOpen /\ End("done")
     \/ Heard /\ ~seenOpen /\ GoTo("rules")
     \/ NotNow
  /\ UNCHANGED <<server, seerrVars>>

(* Mutant: Seerr is opened first and given its rules afterwards. *)
InitializeFirst ==
  /\ pc = "rules"
  /\ \/ /\ Reached /\ open' = TRUE
        /\ \/ Free /\ GoTo("initialize")
           \/ Fault /\ Sleep /\ UNCHANGED since
     \/ NotNow /\ UNCHANGED open
  /\ UNCHANGED <<server, account, type, rules, seenOpen>>

WriteRules ==
  /\ pc = "rules"
  /\ \/ /\ Reached /\ rules' = TRUE
        /\ \/ Free /\ GoTo("initialize")
           \/ Fault /\ Sleep /\ UNCHANGED since
     \/ NotNow /\ UNCHANGED rules
  /\ UNCHANGED <<server, account, type, open, seenOpen>>

Initialize ==
  /\ pc = "initialize"
  /\ \/ /\ Reached /\ open' = TRUE
        /\ \/ Free /\ End("done")
           \/ Fault /\ Sleep /\ UNCHANGED since
     \/ NotNow /\ UNCHANGED open
  /\ UNCHANGED <<server, account, type, rules, seenOpen>>

SeerrStep ==
  /\ app = "seerr" /\ UNCHANGED app
  /\ \/ SeerrBegin
     \/ ComposeUp("connect") /\ UNCHANGED seerrVars
     \/ Connect /\ UNCHANGED seerrVars
     \/ TimeIsUp("never_became_ready") /\ UNCHANGED seerrVars
     \/ Look("gateway") /\ UNCHANGED seerrVars
     \/ BuildSignIn \/ AskSettings \/ Auth \/ CheckKey \/ WriteRules \/ Initialize

------------------------------------------------------------------------------
(* The owner signs in to the media server, or out of it. *)
AccountChanges ==
  /\ Spend("events") /\ account' = ~account
  /\ UNCHANGED <<app, loop, server, type, rules, open, seenOpen>>

SeerrWorld ==
  /\ app = "seerr"
  /\ \/ (Boot \/ Crash \/ ComeBack \/ Kill \/ Again) /\ UNCHANGED seerrVars
     \/ AccountChanges

(* Seerr is never open to people before its sign-in rules hold, whichever     *)
(* answer was lost and wherever Marrquee was killed, so that "done", which    *)
(* goes by its being open, means that they hold (_ensure_seerr_setup).        *)
SeerrOpensWithRules == app = "seerr" /\ open => rules /\ type # "unset"
==============================================================================
