------------------------ MODULE RecyclarrMonitor_proofs ------------------------
(***************************************************************************)
(* Proofs about RecyclarrMonitor: however often what is saved changes and    *)
(* however the runs end, joining the sync under way loses no request.        *)
(***************************************************************************)
EXTENDS RecyclarrMonitor, TLAPS

(* Nothing is read or asked for before it is saved. *)
NoneAhead == asked <= saved /\ read <= saved

(* A request no run has read yet has one coming: the task has not begun, or  *)
(* _again is set, unless the task died.                                      *)
RequestHasARun ==
  read < asked => \/ again
                  \/ pc = "begin"
                  \/ pc = "none" /\ ending = "raised"

(* From the write on, and after a task that ended well, recyclarr.yml is of  *)
(* the version the run read.                                                 *)
FileIsOfTheRun ==
  pc \in {"start", "poll", "log", "hook"} \/ (pc = "none" /\ ending = "clean")
    => file = read

(* Only a task that died leaves _again set behind. *)
AgainNeedsATask == pc = "none" /\ again => ending = "raised"

Inv == RecyclarrTypeOK /\ NoneAhead /\ RequestHasARun /\ FileIsOfTheRun /\ AgainNeedsATask

(* A new monitor has nothing to do. *)
LEMMA InitInv == RecyclarrInit => Inv
<1> SUFFICES ASSUME RecyclarrInit PROVE Inv
  OBVIOUS
<1>1. 0 \in Version
  BY MonitorAssumption DEF MonitorAssumption, Version
<1>2. RecyclarrTypeOK
  BY <1>1 DEF RecyclarrInit, RecyclarrTypeOK, Log
<1>3. NoneAhead /\ RequestHasARun /\ FileIsOfTheRun /\ AgainNeedsATask
  BY DEF RecyclarrInit, NoneAhead, RequestHasARun, FileIsOfTheRun, AgainNeedsATask
<1> QED BY <1>2, <1>3 DEF Inv

(* What every way a run ends has in common: either there was no other        *)
(* request, or the next run reads what is saved now.                         *)
LEMMA RunEndsInv ==
  ASSUME Inv, NEW outcome \in {"clean", "failed"}, RunEnds(outcome),
         pc \in {"write", "start", "poll", "log", "hook"},
         outcome = "clean" => pc = "hook",
         UNCHANGED settings,
         exec' \in {"none", "running", "zero", "other"},
         ownLog' \in Log, newest' \in Log,
         startFailed' \in BOOLEAN, runFailed' \in BOOLEAN
  PROVE  Inv'
<1>1. CASE again
  <2>1. read' = saved /\ again' = FALSE /\ asked' = asked
    BY <1>1 DEF RunEnds, BeginRun
  <2>2. \/ installed /\ pc' = "write" /\ ending' = ending
        \/ ~installed /\ pc' = "none" /\ ending' = "failed"
    BY <1>1 DEF RunEnds, BeginRun
  <2>3. RecyclarrTypeOK'
    BY <2>1, <2>2 DEF Inv, RecyclarrTypeOK, settings
  <2>4. NoneAhead' /\ RequestHasARun'
    BY <2>1 DEF Inv, RecyclarrTypeOK, NoneAhead, RequestHasARun, settings, Version
  <2>5. FileIsOfTheRun' /\ AgainNeedsATask'
    BY <2>1, <2>2 DEF FileIsOfTheRun, AgainNeedsATask
  <2> QED BY <2>3, <2>4, <2>5 DEF Inv
<1>2. CASE ~again
  <2>1. /\ read' = read /\ again' = FALSE /\ asked' = asked
        /\ pc' = "none" /\ ending' = outcome
    BY <1>2 DEF RunEnds
  <2>2. RecyclarrTypeOK'
    BY <2>1 DEF Inv, RecyclarrTypeOK, settings
  <2>3. NoneAhead' /\ RequestHasARun'
    BY <1>2, <2>1 DEF Inv, RecyclarrTypeOK, NoneAhead, RequestHasARun, settings, Version
  <2>4. FileIsOfTheRun' /\ AgainNeedsATask'
    BY <2>1 DEF Inv, FileIsOfTheRun, AgainNeedsATask, settings
  <2> QED BY <2>2, <2>3, <2>4 DEF Inv
<1> QED BY <1>1, <1>2

(* Requests, the world outside and the end of a process. *)
LEMMA OutsideInv ==
  ASSUME Inv, RequestSync \/ ExecExits \/ OtherSyncLogs \/ Save \/ RecyclarrRestart
  PROVE  Inv'
<1> USE DEF Inv, NoneAhead, RequestHasARun, FileIsOfTheRun, AgainNeedsATask,
            settings, demands, daemon, verdict
<1>1. CASE RequestSync
  <2>1. asked' = saved /\ saved' = saved /\ read' = read
    BY <1>1 DEF RequestSync
  <2>2. \/ pc = "none" /\ pc' = "begin" /\ again' = again
        \/ pc # "none" /\ pc' = pc /\ again' = TRUE
    BY <1>1, Zenon DEF RequestSync
  <2>3. RecyclarrTypeOK'
    BY <1>1, <2>1, <2>2 DEF RequestSync, RecyclarrTypeOK
  <2>4. NoneAhead' /\ RequestHasARun'
    BY <2>1, <2>2 DEF RecyclarrTypeOK, Version
  <2>6. AgainNeedsATask'
    BY <2>2
  <2>5. FileIsOfTheRun'
    BY <1>1, <2>1, <2>2 DEF RequestSync
  <2> QED BY <2>3, <2>4, <2>5, <2>6
<1>2. CASE ExecExits
  BY <1>2 DEF ExecExits, RecyclarrTypeOK, Log
<1>3. CASE OtherSyncLogs
  BY <1>3 DEF OtherSyncLogs, RecyclarrTypeOK, Log
<1>4. CASE Save
  <2>1. saved \in Nat /\ saved < MaxSaves /\ saved' = saved + 1
    BY <1>4 DEF Save, RecyclarrTypeOK, Version
  <2>2. saved' \in Version
    BY <2>1, MonitorAssumption DEF MonitorAssumption, Version
  <2>3. RecyclarrTypeOK'
    BY <1>4, <2>2 DEF Save, RecyclarrTypeOK
  <2>4. NoneAhead'
    BY <1>4, <2>1 DEF Save, RecyclarrTypeOK, Version
  <2>5. RequestHasARun' /\ FileIsOfTheRun' /\ AgainNeedsATask'
    BY <1>4 DEF Save
  <2> QED BY <2>2, <2>3, <2>4, <2>5
<1>5. CASE RecyclarrRestart
  <2>1. 0 \in Version
    BY MonitorAssumption DEF MonitorAssumption, Version
  <2>2. RecyclarrTypeOK'
    BY <1>5, <2>1 DEF RecyclarrRestart, RecyclarrTypeOK
  <2>3. NoneAhead' /\ RequestHasARun'
    BY <1>5 DEF RecyclarrRestart, RecyclarrTypeOK, Version
  <2>4. FileIsOfTheRun' /\ AgainNeedsATask'
    BY <1>5 DEF RecyclarrRestart
  <2> QED BY <2>2, <2>3, <2>4
<1> QED BY <1>1, <1>2, <1>3, <1>4, <1>5

(* The task's own steps. *)
LEMMA RunStepInv ==
  ASSUME Inv, RunStep
  PROVE  Inv'
<1>1. CASE Begin
  <2>1. read' = saved /\ asked' = asked /\ UNCHANGED settings
    BY <1>1 DEF Begin, BeginRun
  <2>2. \/ installed /\ pc' = "write" /\ ending' = ending /\ again' = again
        \/ ~installed /\ pc' = "none" /\ ending' = "failed" /\ again' = FALSE
    BY <1>1 DEF Begin, BeginRun, Inv, RecyclarrTypeOK
  <2>3. RecyclarrTypeOK'
    BY <1>1, <2>1, <2>2 DEF Begin, Inv, RecyclarrTypeOK, settings, daemon
  <2>4. NoneAhead' /\ RequestHasARun'
    BY <2>1 DEF Inv, RecyclarrTypeOK, NoneAhead, RequestHasARun, settings, Version
  <2>5. FileIsOfTheRun' /\ AgainNeedsATask'
    BY <2>2 DEF FileIsOfTheRun, AgainNeedsATask
  <2> QED BY <2>3, <2>4, <2>5 DEF Inv
<1>2. CASE WriteConfig
  BY <1>2 DEF WriteConfig, Inv, RecyclarrTypeOK, NoneAhead, RequestHasARun, FileIsOfTheRun,
              AgainNeedsATask, demands, daemon, verdict
<1>3. CASE CannotStart
  BY <1>3, RunEndsInv DEF CannotStart, daemon, Inv, RecyclarrTypeOK
<1>4. CASE StartExec
  BY <1>4 DEF StartExec, Inv, RecyclarrTypeOK, NoneAhead, RequestHasARun, FileIsOfTheRun,
              AgainNeedsATask, settings, demands, verdict, Log
<1>5. CASE ExitedCleanly
  BY <1>5 DEF ExitedCleanly, Inv, RecyclarrTypeOK, NoneAhead, RequestHasARun, FileIsOfTheRun,
              AgainNeedsATask, settings, demands, verdict
<1>6. CASE ExitedOtherwise
  BY <1>6, RunEndsInv DEF ExitedOtherwise, Inv, RecyclarrTypeOK
<1>7. CASE ReadLog
  <2>1. CASE newest = "bad"
    BY <1>7, <2>1, RunEndsInv DEF ReadLog, daemon, Inv, RecyclarrTypeOK
  <2>2. CASE newest # "bad"
    BY <1>7, <2>2 DEF ReadLog, Inv, RecyclarrTypeOK, NoneAhead, RequestHasARun, FileIsOfTheRun,
                      AgainNeedsATask, settings, demands, daemon
  <2> QED BY <2>1, <2>2
<1>8. CASE RunHook
  BY <1>8, RunEndsInv DEF RunHook, daemon, Inv, RecyclarrTypeOK
<1>9. CASE TaskDies
  BY <1>9 DEF TaskDies, Inv, RecyclarrTypeOK, NoneAhead, RequestHasARun, FileIsOfTheRun,
              AgainNeedsATask, settings, demands, Log
<1> QED BY <1>1, <1>2, <1>3, <1>4, <1>5, <1>6, <1>7, <1>8, <1>9, RunStep DEF RunStep

(* The invariant, for any number of saves, requests, failures and restarts.  *)
LEMMA Invariance == RecyclarrSpec => []Inv
<1>1. Inv /\ [RecyclarrNext]_recyclarrVars => Inv'
  <2> SUFFICES ASSUME Inv, [RecyclarrNext]_recyclarrVars PROVE Inv'
    OBVIOUS
  <2>1. CASE RecyclarrNext
    BY <2>1, OutsideInv, RunStepInv DEF RecyclarrNext
  <2>2. CASE UNCHANGED recyclarrVars
    BY <2>2 DEF recyclarrVars, settings, demands, daemon, verdict, Inv, RecyclarrTypeOK, NoneAhead,
                RequestHasARun, FileIsOfTheRun, AgainNeedsATask
  <2> QED BY <2>1, <2>2
<1> QED BY <1>1, InitInv, PTL DEF RecyclarrSpec

(* No request is lost by joining the sync under way (recyclarr.py:484-529):  *)
(* whenever no task is in flight and none died, the last request has been    *)
(* read by a run.                                                            *)
THEOREM NoRequestIsLost == RecyclarrSpec => []RequestsAreServed
<1>1. Inv => RequestsAreServed
  BY DEF Inv, RecyclarrTypeOK, Version, RequestHasARun, AgainNeedsATask, RequestsAreServed
<1> QED BY <1>1, Invariance, PTL

(* The sync that ended well is of the latest request, for any number of      *)
(* requests made while it ran (recyclarr.py:429-441).                        *)
THEOREM LatestIsSynced == RecyclarrSpec => []SyncedTheLatest
<1>1. Inv => SyncedTheLatest
  BY DEF Inv, RecyclarrTypeOK, Version, RequestHasARun, FileIsOfTheRun, AgainNeedsATask,
         SyncedTheLatest
<1> QED BY <1>1, Invariance, PTL
==============================================================================
