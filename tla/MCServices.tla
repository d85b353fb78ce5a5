------------------------------ MODULE MCServices ------------------------------
(* The four parts that work beside the deploy manager, for TLC: the login, the *)
(* Recyclarr sync, the connecting of the owner's own Plex, and the pages with  *)
(* the drive check.  They keep files and tasks of their own and share no       *)
(* variable, so whatever one of them does beside the others it does alone as   *)
(* well: `part' is the one that moves, and every behaviour has one.            *)
EXTENDS Login, RecyclarrMonitor, PlexConnect, HubPages

VARIABLE part

vars == <<part, loginVars, recyclarrVars, connectVars, pagesVars>>

(* The drive may do without hard links only where that matters. *)
Init ==
  /\ part \in {"login", "recyclarr", "connect", "pages"}
  /\ LoginInit /\ RecyclarrInit /\ ConnectInit /\ PagesInit
  /\ part = "pages" \/ links

LoginMoves ==
  /\ part = "login" /\ LoginNext
  /\ UNCHANGED <<part, recyclarrVars, connectVars, pagesVars>>

RecyclarrMoves ==
  /\ part = "recyclarr" /\ RecyclarrNext
  /\ UNCHANGED <<part, loginVars, connectVars, pagesVars>>

ConnectMoves ==
  /\ part = "connect" /\ ConnectNext
  /\ UNCHANGED <<part, loginVars, recyclarrVars, pagesVars>>

PagesMove ==
  /\ part = "pages" /\ PagesNext
  /\ UNCHANGED <<part, loginVars, recyclarrVars, connectVars>>

Next == LoginMoves \/ RecyclarrMoves \/ ConnectMoves \/ PagesMove

(* The fairness of RecyclarrFairSpec and of PagesSpec, each in its turn. *)
Spec ==
  /\ Init /\ [][Next]_vars
  /\ WF_recyclarrVars(part = "recyclarr" /\ RunStep)
  /\ WF_pagesVars(part = "pages" /\ Check)
  /\ WF_pagesVars(part = "pages" /\ LookAtHub)
  /\ WF_pagesVars(part = "pages" /\ NewDay)
  /\ \A p \in Page :
       /\ SF_pagesVars(part = "pages" /\ Deliver(p) /\ UNCHANGED checkVars)
       /\ WF_pagesVars(/\ part = "pages" /\ UNCHANGED checkVars
                       /\ Heartbeat(p) \/ StreamEnds(p) \/ OpenStream(p))

------------------------------------------------------------------------------
(* What the stream and the drive check come to in the end, in their turn: the *)
(* page shows the snapshot there is, or a newer one (deploy.py:1061-1098).    *)
PagesCatchUpInTurn == part = "pages" => PagesCatchUp

(* The saved result of the drive check is in the end about the install there *)
(* is, although a request may join a check of the one before                  *)
(* (hardlinks.py:547-600).                                                    *)
ResultCatchesUpInTurn == part = "pages" => ResultCatchesUp
==============================================================================
