--------------------------- MODULE HardlinkMonitor ----------------------------
(***************************************************************************)
(* HardlinkMonitor (hardlinks.py): finds out, with a file of its own in the  *)
(* owner's folders, whether finished downloads become library files without  *)
(* a copy.  One background task at most; who asks meanwhile joins it.  Asked  *)
(* by deploys and adds that ended well, by the Diagnostics page, and once a   *)
(* day by whoever looks at the Hub.                                          *)
(*                                                                           *)
(* The install is a version number.  The check itself runs in a thread.      *)
(***************************************************************************)
EXTENDS Naturals

CONSTANTS
  MaxInstalls,  \* bound: times the install changes
  MaxLost,      \* bound: results that cannot be saved
  MaxDeaths     \* bound: restarts

ASSUME HardlinkAssumption == {MaxInstalls, MaxLost, MaxDeaths} \subseteq Nat

VARIABLES
  install, \* version of install.json
  links,   \* the drive really makes hard links
  task,    \* where the check is, "none" without one
  reads,   \* the version it has read
  found,   \* what it has found: "works" or another outcome
  litter,  \* the test file lies in the owner's folders
  result,  \* hardlink-check.json: the outcome, the version, a day old or not
  misses   \* results lost and restarts so far

checkVars == <<install, links, task, reads, found, litter, result, misses>>

Installs  == 0 .. MaxInstalls
Outcomes == {"works", "copies", "couldnt_check"}
NoResult == [outcome |-> "none", of |-> 0, old |-> TRUE]

CheckTypeOK ==
  /\ install \in Installs /\ reads \in Installs
  /\ links \in BOOLEAN /\ litter \in BOOLEAN
  /\ task \in {"none", "begin", "clear", "create", "link", "tidy", "save"}
  /\ found \in Outcomes \union {"none"}
  /\ result \in [outcome : Outcomes, of : Installs, old : BOOLEAN] \union {NoResult}
  /\ misses \in [lost : 0 .. MaxLost, deaths : 0 .. MaxDeaths]

CheckInit ==
  /\ install = 0 /\ reads = 0 /\ links \in BOOLEAN
  /\ task = "none" /\ found = "none" /\ litter = FALSE /\ result = NoResult
  /\ misses = [lost |-> 0, deaths |-> 0]

------------------------------------------------------------------------------
Joined == IF task = "none" THEN "begin" ELSE task

(* request_check, also behind check_now, whose caller may stop waiting while  *)
(* the check goes on.                                                         *)
RequestCheck ==
  /\ task' = Joined
  /\ UNCHANGED <<install, links, reads, found, litter, result, misses>>

(* install.json is saved: by the wizard, by an add as it begins, by a Cancel.  *)
(* A check is asked for, if at all, only when the run has ended well.         *)
InstallChanges ==
  /\ install < MaxInstalls /\ install' = install + 1
  /\ UNCHANGED <<links, task, reads, found, litter, result, misses>>

(* Mutant: only a missing result is due. *)
RefreshIfMissing ==
  /\ task = "none" /\ result = NoResult
  /\ RequestCheck

(* The Hub is looked at: due are a missing result and one a day old. *)
RefreshIfDue ==
  /\ task = "none" /\ result.old
  /\ RequestCheck

BeginCheck ==
  /\ task = "begin"
  /\ reads' = install /\ task' = "clear"
  /\ UNCHANGED <<install, links, found, litter, result, misses>>

(* Mutant: a test file that is there is left for the end. *)
LeaveOldTestFile ==
  /\ task = "clear"
  /\ task' = "create"
  /\ UNCHANGED <<install, links, reads, found, litter, result, misses>>

(* What an earlier check left is removed first, in both folders. *)
ClearOldTestFile ==
  /\ task = "clear"
  /\ litter' = FALSE /\ task' = "create"
  /\ UNCHANGED <<install, links, reads, found, result, misses>>

(* The test file must be a new one (O_EXCL). *)
CreateTestFile ==
  /\ task = "create"
  /\ IF litter THEN found' = "couldnt_check" /\ task' = "tidy"
               ELSE task' = "link" /\ UNCHANGED found
  /\ litter' = TRUE
  /\ UNCHANGED <<install, links, reads, result, misses>>

(* One file under two names, or two files. *)
LinkTestFile ==
  /\ task = "link"
  /\ found' = (IF links THEN "works" ELSE "copies")
  /\ task' = "tidy"
  /\ UNCHANGED <<install, links, reads, litter, result, misses>>

(* Both names are removed on every way out. *)
TidyUp ==
  /\ task = "tidy"
  /\ litter' = FALSE /\ task' = "save"
  /\ UNCHANGED <<install, links, reads, found, result, misses>>

(* A result that cannot be saved is only logged. *)
SaveResult ==
  /\ task = "save" /\ task' = "none"
  /\ \/ /\ result' = [outcome |-> found, of |-> reads, old |-> FALSE]
        /\ UNCHANGED misses
     \/ /\ misses.lost < MaxLost /\ misses' = [misses EXCEPT !.lost = @ + 1]
        /\ UNCHANGED result
  /\ UNCHANGED <<install, links, reads, found, litter>>

CheckStep ==
  BeginCheck \/ ClearOldTestFile \/ CreateTestFile \/ LinkTestFile \/ TidyUp \/ SaveResult

DayPasses ==
  /\ ~result.old /\ result' = [result EXCEPT !.old = TRUE]
  /\ UNCHANGED <<install, links, task, reads, found, litter, misses>>

(* The thread dies with its process, wherever it is. *)
CheckDies ==
  /\ misses.deaths < MaxDeaths /\ misses' = [misses EXCEPT !.deaths = @ + 1]
  /\ task' = "none"
  /\ UNCHANGED <<install, links, reads, found, litter, result>>

------------------------------------------------------------------------------
(* A test file that a killed check left behind never makes the drive look     *)
(* worse than it is (_check_pair, _remove_own_test_file).                     *)
LitterNeverMisleads ==
  result # NoResult => result.outcome = IF links THEN "works" ELSE "copies"

(* A request that joined a check of the install before it is made up for: in  *)
(* the end the saved result is about the install there is, lost results and   *)
(* restarts notwithstanding (refresh_if_due).                                 *)
ResultCatchesUp == \A v \in Installs : install = v ~> result.of >= v /\ result # NoResult
==============================================================================
