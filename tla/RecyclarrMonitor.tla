--------------------------- MODULE RecyclarrMonitor ---------------------------
(***************************************************************************)
(* RecyclarrMonitor (recyclarr.py): writes recyclarr.yml from what is saved, *)
(* has Recyclarr sync inside its container, and remembers the verdict.  One  *)
(* background task; a request that finds it busy sets _again.                *)
(*                                                                           *)
(* What is saved is a version number, so that "the latest" can be said.  pc  *)
(* names the await the task is parked on.                                    *)
(***************************************************************************)
EXTENDS Naturals

CONSTANT MaxSaves  \* bound: how many times what is saved changes

ASSUME MonitorAssumption == MaxSaves \in Nat

VARIABLES
  saved,       \* version of install.json and answers.json
  installed,   \* whether install.json has Recyclarr
  file,        \* version recyclarr.yml was written from
  pc,          \* where the task is, "none" without one (_in_flight_task)
  read,        \* version the run under way, or the last one, read
  again,       \* _again
  asked,       \* version saved at the last request this process had
  exec,        \* the exec of the run under way, as Docker knows it
  ownLog,      \* the log that exec wrote
  newest,      \* the newest log of all, which is what read_last_sync reads
  startFailed, \* _start_failed_at is set and no log is newer
  runFailed,   \* _run_failed_at is set and no log is newer
  ending       \* what the last task ended with: a verdict or an exception

settings == <<saved, installed, file>>
demands  == <<read, again, asked>>
daemon   == <<exec, ownLog, newest>>
verdict  == <<startFailed, runFailed, ending>>
recyclarrVars == <<settings, pc, demands, daemon, verdict>>

Version == 0 .. MaxSaves
Log     == {"none", "ok", "bad"}

(* Versions within the bound, awaits, exec states, logs and verdicts. *)
RecyclarrTypeOK ==
  /\ saved \in Version /\ file \in Version /\ read \in Version /\ asked \in Version
  /\ installed \in BOOLEAN /\ again \in BOOLEAN
  /\ pc \in {"none", "begin", "write", "start", "poll", "log", "hook"}
  /\ exec \in {"none", "running", "zero", "other"}
  /\ ownLog \in Log /\ newest \in Log
  /\ startFailed \in BOOLEAN /\ runFailed \in BOOLEAN
  /\ ending \in {"none", "clean", "failed", "raised"}

RecyclarrInit ==
  /\ saved = 0 /\ file = 0 /\ read = 0 /\ asked = 0
  /\ installed = FALSE /\ again = FALSE
  /\ pc = "none" /\ exec = "none" /\ ownLog = "none" /\ newest = "none"
  /\ startFailed = FALSE /\ runFailed = FALSE /\ ending = "none"

------------------------------------------------------------------------------
(* A run begins: what is saved is read and rendered.  With Recyclarr gone by *)
(* now the run fails at once, and so would one more.                         *)
BeginRun ==
  /\ read' = saved
  /\ IF installed
       THEN pc' = "write" /\ UNCHANGED ending
       ELSE pc' = "none" /\ ending' = "failed"

(* Mutant: the loop of _run_until_settled is left out. *)
RunEndsForGood(outcome) ==
  /\ pc' = "none" /\ ending' = outcome
  /\ UNCHANGED demands

(* A run is over; _run_until_settled begins the next in the same step. *)
RunEnds(outcome) ==
  /\ again' = FALSE
  /\ UNCHANGED asked
  /\ IF again THEN BeginRun
              ELSE pc' = "none" /\ ending' = outcome /\ UNCHANGED read

(* Mutant: a request joins the sync under way, as a drive check would. *)
RequestJoins ==
  /\ asked' = saved
  /\ pc' = IF pc = "none" THEN "begin" ELSE pc
  /\ UNCHANGED <<settings, read, again, daemon, verdict>>

(* request_sync: by a deploy or an add that ended well, or by Sync now.      *)
RequestSync ==
  /\ asked' = saved
  /\ IF pc = "none" THEN pc' = "begin" /\ UNCHANGED again
                    ELSE again' = TRUE /\ UNCHANGED pc
  /\ UNCHANGED <<settings, read, daemon, verdict>>

Begin ==
  /\ pc = "begin"
  /\ BeginRun
  /\ again' = (again /\ installed)
  /\ UNCHANGED <<settings, asked, daemon, startFailed, runFailed>>

(* Mutant: recyclarr.yml is written only if there is none. *)
WriteConfigOnce ==
  /\ pc = "write"
  /\ file' = IF file = 0 THEN read ELSE file
  /\ pc' = "start"
  /\ UNCHANGED <<saved, installed, demands, daemon, verdict>>

WriteConfig ==
  /\ pc = "write"
  /\ file' = read
  /\ pc' = "start"
  /\ UNCHANGED <<saved, installed, demands, daemon, verdict>>

(* _mark_start_failed. *)
CannotStart ==
  /\ pc \in {"write", "start"}
  /\ startFailed' = TRUE /\ runFailed' = TRUE
  /\ RunEnds("failed")
  /\ UNCHANGED <<settings, daemon>>

StartExec ==
  /\ pc = "start"
  /\ exec' = "running" /\ ownLog' = "none"
  /\ pc' = "poll"
  /\ UNCHANGED <<settings, demands, newest, verdict>>

(* Recyclarr reads the file, syncs, perhaps leaves a log, and exits.  A log  *)
(* newer than a failure makes the failure old news.                          *)
ExecExits ==
  /\ exec = "running"
  /\ exec' \in {"zero", "other"}
  /\ ownLog' \in Log
  /\ IF ownLog' = "none"
       THEN UNCHANGED <<newest, startFailed, runFailed>>
       ELSE newest' = ownLog' /\ startFailed' = FALSE /\ runFailed' = FALSE
  /\ UNCHANGED <<settings, pc, demands, ending>>

(* A sync that is not this run's: the container's own daily one, or one that *)
(* an earlier run gave up waiting for, or a process that is gone.            *)
OtherSyncLogs ==
  /\ newest' \in {"ok", "bad"}
  /\ startFailed' = FALSE /\ runFailed' = FALSE
  /\ UNCHANGED <<settings, pc, demands, exec, ownLog, ending>>

(* _await_exec saw the exec end with code 0. *)
ExitedCleanly ==
  /\ pc = "poll" /\ exec = "zero"
  /\ pc' = "log"
  /\ exec' = "none"
  /\ UNCHANGED <<settings, demands, ownLog, newest, verdict>>

(* Another exit code, an exec Docker does not know, or SYNC_TIMEOUT_SECONDS, *)
(* which leaves the exec running.                                            *)
ExitedOtherwise ==
  /\ pc = "poll"
  /\ exec' = "none"
  /\ runFailed' = TRUE
  /\ RunEnds("failed")
  /\ UNCHANGED <<settings, ownLog, newest, startFailed>>

ReadLog ==
  /\ pc = "log"
  /\ IF newest = "bad"
       THEN runFailed' = TRUE /\ RunEnds("failed")
       ELSE runFailed' = FALSE /\ pc' = "hook" /\ UNCHANGED <<demands, ending>>
  /\ UNCHANGED <<settings, daemon, startFailed>>

(* after_sync, whatever becomes of it. *)
RunHook ==
  /\ pc = "hook"
  /\ RunEnds("clean")
  /\ UNCHANGED <<settings, daemon, startFailed, runFailed>>

(* exec_start and exec_inspect catch a time-out and a refused connection; a  *)
(* reply that breaks off ends the task with an exception.                    *)
TaskDies ==
  /\ pc \in {"start", "poll"}
  /\ pc' = "none" /\ exec' = "none" /\ ending' = "raised"
  /\ UNCHANGED <<settings, demands, ownLog, newest, startFailed, runFailed>>

Save ==
  /\ saved < MaxSaves
  /\ saved' = saved + 1
  /\ installed' \in BOOLEAN
  /\ UNCHANGED <<file, pc, demands, daemon, verdict>>

(* All but the files is forgotten; nothing asks for the sync again. *)
RecyclarrRestart ==
  /\ pc' = "none" /\ again' = FALSE /\ exec' = "none"
  /\ asked' = 0
  /\ startFailed' = FALSE /\ runFailed' = FALSE /\ ending' = "none"
  /\ UNCHANGED <<settings, read, ownLog, newest>>

RunStep ==
  \/ Begin \/ WriteConfig \/ CannotStart \/ StartExec \/ ExitedCleanly
  \/ ExitedOtherwise \/ ReadLog \/ RunHook \/ TaskDies

RecyclarrNext ==
  \/ RequestSync \/ RunStep \/ ExecExits \/ OtherSyncLogs \/ Save
  \/ RecyclarrRestart

RecyclarrSpec == RecyclarrInit /\ [][RecyclarrNext]_recyclarrVars

(* The loop runs a task that is ready, and every wait of it has a limit. *)
RecyclarrFairSpec == RecyclarrSpec /\ WF_recyclarrVars(RunStep)

------------------------------------------------------------------------------
(* With no task in flight, a run has read what was saved when the last       *)
(* request came, or something newer: joining the task that runs loses no     *)
(* request, but for a task that dies.                                        *)
RequestsAreServed == pc = "none" /\ ending # "raised" => read >= asked

(* "the config it rewrites and the sync it runs are always for the LATEST    *)
(* request": once the task has ended well, recyclarr.yml is no older than    *)
(* the last request.                                                         *)
SyncedTheLatest == pc = "none" /\ ending = "clean" => file >= asked

(* Requests that never stop coming keep the task going, but each of them     *)
(* gets its run: none waits behind the others for ever, unless the process   *)
(* or its task dies.                                                         *)
EveryRequestGetsItsRun ==
  \A v \in Version : asked = v ~> (read >= v \/ asked = 0 \/ ending = "raised")

(* "A request that arrives while a sync is already running is never          *)
(* dropped."                                                                 *)
NoRequestIsDropped == pc = "none" => read >= asked

(* "a clean exit whose own newest log still shows an ERR/FTL line" is a run  *)
(* that failed: the verdict is cleared only by a run whose log is not bad.   *)
CleanVerdictIsEarned == [][pc = "log" /\ pc' = "hook" => ownLog # "bad"]_recyclarrVars
==============================================================================
