------------------------------- MODULE HubPages -------------------------------
(***************************************************************************)
(* What the owner's pages live on: the event stream of a run, and the drive   *)
(* check that runs ask for when they end well and that every look at the Hub *)
(* keeps fresh.  One process holds both; a restart strikes both.             *)
(***************************************************************************)
EXTENDS EventStream, HardlinkMonitor

pagesVars == <<streamVars, checkVars>>

(* Streams, queues, results and what the check is doing. *)
PagesTypeOK == StreamTypeOK /\ CheckTypeOK

PagesInit == StreamInit /\ CheckInit

Progress == Emit /\ UNCHANGED checkVars

(* The finale is out, and the run has given way once, before it asks for the  *)
(* check: a page may have read it by then, and the process may have ended.    *)
EndWell == snap = LastSnap /\ RequestCheck /\ UNCHANGED streamVars

Follow ==
  /\ UNCHANGED checkVars
  /\ \E p \in Page : Deliver(p) \/ Heartbeat(p) \/ StreamEnds(p) \/ OpenStream(p)

Break == (\E p \in Page : Drop(p)) /\ UNCHANGED checkVars

Check == CheckStep /\ UNCHANGED streamVars

(* A look at the Hub; a visit of Diagnostics or an add that ends well; what   *)
(* the wizard, an add or a Cancel saves.                                      *)
LookAtHub   == RefreshIfDue /\ UNCHANGED streamVars
Diagnose    == RequestCheck /\ UNCHANGED streamVars
SaveInstall == InstallChanges /\ UNCHANGED streamVars
NewDay      == DayPasses /\ UNCHANGED streamVars

PagesRestart == CheckDies /\ StreamRestart

PagesNext ==
  \/ Progress \/ EndWell \/ Follow \/ Break
  \/ Check \/ LookAtHub \/ Diagnose \/ SaveInstall \/ NewDay \/ PagesRestart

(* The server serves every page and runs its task; somebody looks at the Hub  *)
(* now and then, and days pass.  Connections may break at any time, but not   *)
(* every time before a first event gets through.                              *)
PagesSpec ==
  /\ PagesInit /\ [][PagesNext]_pagesVars
  /\ WF_pagesVars(Check) /\ WF_pagesVars(LookAtHub) /\ WF_pagesVars(NewDay)
  /\ \A p \in Page :
       /\ SF_pagesVars(Deliver(p) /\ UNCHANGED checkVars)
       /\ WF_pagesVars(/\ Heartbeat(p) \/ StreamEnds(p) \/ OpenStream(p)
                       /\ UNCHANGED checkVars)
==============================================================================
