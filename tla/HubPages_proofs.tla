---------------------------- MODULE HubPages_proofs ----------------------------
(***************************************************************************)
(* Proofs about HubPages, for any number of pages, snapshots, installs, lost  *)
(* results and restarts: no page goes back, and what a killed check left in   *)
(* the owner's folders never spoils a later verdict.                         *)
(***************************************************************************)
EXTENDS HubPages, TLAPS

(* What waits for a page is no older than what it shows, and neither is newer *)
(* than the newest snapshot, which is the one on disk: so a page that         *)
(* connects again, also to a new process, is not shown anything older.       *)
StreamInOrder ==
  /\ disk = snap
  /\ \A p \in Page : /\ queue[p] <= snap /\ shown[p] <= snap
                     /\ queue[p] # 0 => shown[p] <= queue[p]

(* What a check of this drive finds. *)
Truth == IF links THEN "works" ELSE "copies"

(* No test file lies there when the check makes its own; from the verdict on  *)
(* it knows the truth, and so does whoever reads the saved result.           *)
CheckInOrder ==
  /\ task = "create" => ~litter
  /\ task \in {"tidy", "save"} => found = Truth
  /\ result # NoResult => result.outcome = Truth

Inv == PagesTypeOK /\ StreamInOrder /\ CheckInOrder

StreamInv == StreamTypeOK /\ StreamInOrder
CheckInv  == CheckTypeOK /\ CheckInOrder

(* A new process has a snapshot, no pages and no check. *)
LEMMA InitInv == PagesInit => Inv
<1> SUFFICES ASSUME PagesInit PROVE Inv
  OBVIOUS
<1>1. 0 \in Snap /\ 1 \in Snap /\ 0 \in Installs
  BY StreamAssumption, HardlinkAssumption DEF StreamAssumption, HardlinkAssumption, Snap, Installs
<1>2. StreamTypeOK
  BY <1>1 DEF PagesInit, StreamInit, StreamTypeOK
<1>3. CheckTypeOK
  <2>1. 0 \in 0 .. MaxLost /\ 0 \in 0 .. MaxDeaths
    BY HardlinkAssumption DEF HardlinkAssumption
  <2>2. misses \in [lost : 0 .. MaxLost, deaths : 0 .. MaxDeaths]
    BY <2>1 DEF PagesInit, CheckInit
  <2> QED BY <1>1, <2>2 DEF PagesInit, CheckInit, CheckTypeOK
<1>4. StreamInOrder
  BY DEF PagesInit, StreamInit, StreamInOrder
<1>5. CheckInOrder
  BY DEF PagesInit, CheckInit, CheckInOrder
<1> QED BY <1>2, <1>3, <1>4, <1>5 DEF Inv, PagesTypeOK

(* An emit: the slots it fills hold what is newest. *)
LEMMA EmitInv == ASSUME StreamInv, Emit PROVE StreamInv'
<1>1. snap' \in Snap /\ snap' = snap + 1 /\ disk' = snap' /\ snap \in Nat
  BY StreamAssumption DEF StreamInv, StreamTypeOK, Emit, Snap, StreamAssumption
<1>2. \A p \in Page : queue'[p] \in {queue[p], snap'}
  BY DEF Emit
<1>3. StreamTypeOK'
  <2>1. queue' \in [Page -> Snap]
    BY <1>1, <1>2 DEF StreamInv, StreamTypeOK, Emit
  <2>2. subscribed' \subseteq {p \in Page : stream'[p] = "open"}
    BY DEF StreamInv, StreamTypeOK, Emit
  <2> QED BY <1>1, <2>1, <2>2 DEF StreamInv, StreamTypeOK, Emit
<1>4. \A p \in Page : queue[p] \in Nat /\ shown[p] \in Nat /\ shown'[p] = shown[p]
  BY DEF StreamInv, StreamTypeOK, Snap, Emit
<1>5. StreamInOrder'
  BY <1>1, <1>2, <1>4 DEF StreamInv, StreamInOrder
<1> QED BY <1>3, <1>5 DEF StreamInv

(* What one page does or suffers. *)
LEMMA PageInv ==
  ASSUME StreamInv, NEW p \in Page,
         Deliver(p) \/ Heartbeat(p) \/ StreamEnds(p) \/ OpenStream(p) \/ Drop(p)
  PROVE  StreamInv'
<1>1. 0 \in Snap /\ snap \in Nat /\ \A q \in Page : queue[q] \in Nat /\ shown[q] \in Nat
  BY StreamAssumption DEF StreamInv, StreamTypeOK, Snap, StreamAssumption
<1>2. CASE Deliver(p)
  <2>1. StreamTypeOK'
    BY <1>1, <1>2 DEF StreamInv, StreamTypeOK, Deliver, Watching
  <2>2. StreamInOrder'
    BY <1>1, <1>2 DEF StreamInv, StreamTypeOK, StreamInOrder, Deliver
  <2> QED BY <2>1, <2>2 DEF StreamInv
<1>3. CASE Heartbeat(p)
  BY <1>3 DEF StreamInv, StreamTypeOK, StreamInOrder, Heartbeat, Watching
<1>4. CASE StreamEnds(p)
  BY <1>4 DEF StreamInv, StreamTypeOK, StreamInOrder, StreamEnds
<1>5. CASE OpenStream(p)
  <2>1. StreamTypeOK'
    BY <1>5 DEF StreamInv, StreamTypeOK, OpenStream
  <2>2. StreamInOrder'
    BY <1>1, <1>5 DEF StreamInv, StreamTypeOK, StreamInOrder, OpenStream
  <2> QED BY <2>1, <2>2 DEF StreamInv
<1>6. CASE Drop(p)
  <2>1. StreamTypeOK'
    BY <1>1, <1>6 DEF StreamInv, StreamTypeOK, Drop, Watching
  <2>2. StreamInOrder'
    BY <1>1, <1>6 DEF StreamInv, StreamTypeOK, StreamInOrder, Drop
  <2> QED BY <2>1, <2>2 DEF StreamInv
<1> QED BY <1>2, <1>3, <1>4, <1>5, <1>6

(* A new process goes on from the snapshot on disk, which is the newest. *)
LEMMA StreamRestartInv == ASSUME StreamInv, StreamRestart PROVE StreamInv'
<1>1. 0 \in Snap /\ snap \in Nat /\ \A q \in Page : shown[q] \in Nat
  BY StreamAssumption DEF StreamInv, StreamTypeOK, Snap, StreamAssumption
<1>2. StreamTypeOK'
  BY <1>1 DEF StreamInv, StreamTypeOK, StreamRestart
<1>3. StreamInOrder'
  BY <1>1 DEF StreamInv, StreamTypeOK, StreamInOrder, StreamRestart
<1> QED BY <1>2, <1>3 DEF StreamInv

(* The steps of the check itself. *)
LEMMA CheckStepInv == ASSUME CheckInv, CheckStep PROVE CheckInv'
<1>1. CASE BeginCheck
  BY <1>1 DEF CheckInv, CheckTypeOK, CheckInOrder, Truth, BeginCheck
<1>2. CASE ClearOldTestFile
  BY <1>2 DEF CheckInv, CheckTypeOK, CheckInOrder, Truth, ClearOldTestFile
<1>3. CASE CreateTestFile
  BY <1>3 DEF CheckInv, CheckTypeOK, CheckInOrder, Truth, CreateTestFile
<1>4. CASE LinkTestFile
  BY <1>4 DEF CheckInv, CheckTypeOK, CheckInOrder, Truth, LinkTestFile, Outcomes
<1>5. CASE TidyUp
  BY <1>5 DEF CheckInv, CheckTypeOK, CheckInOrder, Truth, TidyUp
<1>6. CASE SaveResult
  <2>1. found = Truth /\ Truth \in Outcomes
    BY <1>6 DEF CheckInv, CheckInOrder, SaveResult, Truth, Outcomes
  <2>2. misses' \in [lost : 0 .. MaxLost, deaths : 0 .. MaxDeaths]
    BY <1>6, HardlinkAssumption DEF CheckInv, CheckTypeOK, SaveResult, HardlinkAssumption
  <2>3. result' \in [outcome : Outcomes, of : Installs, old : BOOLEAN] \union {NoResult}
    <3>1. CASE result' = [outcome |-> found, of |-> reads, old |-> FALSE]
      BY <2>1, <3>1 DEF CheckInv, CheckTypeOK
    <3>2. CASE UNCHANGED result
      BY <3>2 DEF CheckInv, CheckTypeOK
    <3> QED BY <1>6, <3>1, <3>2 DEF SaveResult
  <2>4. CheckTypeOK'
    BY <1>6, <2>2, <2>3 DEF CheckInv, CheckTypeOK, SaveResult
  <2>5. CheckInOrder'
    BY <1>6, <2>1 DEF CheckInv, CheckInOrder, SaveResult, Truth
  <2> QED BY <2>4, <2>5 DEF CheckInv
<1> QED BY <1>1, <1>2, <1>3, <1>4, <1>5, <1>6 DEF CheckStep

(* Who asks for a check joins the one under way, wherever that is; who saves  *)
(* the install leaves it alone.                                              *)
LEMMA RequestInv ==
  ASSUME CheckInv, RequestCheck \/ InstallChanges \/ RefreshIfDue
  PROVE  CheckInv'
<1>1. task' \in {task, Joined} /\ UNCHANGED <<links, reads, found, litter, result, misses>>
  BY DEF RequestCheck, InstallChanges, RefreshIfDue
<1>2. install' \in Installs
  BY HardlinkAssumption DEF CheckInv, CheckTypeOK, RequestCheck, InstallChanges, RefreshIfDue,
       Installs, HardlinkAssumption
<1>3. CheckTypeOK'
  BY <1>1, <1>2 DEF CheckInv, CheckTypeOK, Joined
<1>4. CheckInOrder'
  BY <1>1 DEF CheckInv, CheckInOrder, Joined, Truth
<1> QED BY <1>3, <1>4 DEF CheckInv

(* The night, and the end of a process. *)
LEMMA CheckElseInv == ASSUME CheckInv, DayPasses \/ CheckDies PROVE CheckInv'
<1>1. CASE DayPasses
  <2>1. result \in [outcome : Outcomes, of : Installs, old : BOOLEAN] /\ result # NoResult
    BY <1>1 DEF CheckInv, CheckTypeOK, DayPasses, NoResult
  <2>2. /\ result' \in [outcome : Outcomes, of : Installs, old : BOOLEAN]
        /\ result'.outcome = result.outcome
    BY <1>1, <2>1 DEF DayPasses
  <2> QED BY <1>1, <2>1, <2>2 DEF CheckInv, CheckTypeOK, CheckInOrder, DayPasses, Truth
<1>2. CASE CheckDies
  <2>1. misses' \in [lost : 0 .. MaxLost, deaths : 0 .. MaxDeaths]
    BY <1>2, HardlinkAssumption DEF CheckInv, CheckTypeOK, CheckDies, HardlinkAssumption
  <2> QED BY <1>2, <2>1 DEF CheckInv, CheckTypeOK, CheckInOrder, CheckDies, Truth
<1> QED BY <1>1, <1>2

(* A step of one half leaves the other's invariant alone. *)
LEMMA StreamUnchanged == StreamInv /\ UNCHANGED streamVars => StreamInv'
BY DEF StreamInv, StreamTypeOK, StreamInOrder, streamVars

(* The verdict's side is not touched by the pages.                            *)
LEMMA CheckUnchanged == CheckInv /\ UNCHANGED checkVars => CheckInv'
BY DEF CheckInv, CheckTypeOK, CheckInOrder, Truth, checkVars

(* Every step keeps both sides.                                               *)
LEMMA NextInv == Inv /\ [PagesNext]_pagesVars => Inv'
<1> SUFFICES ASSUME Inv, [PagesNext]_pagesVars PROVE Inv'
  OBVIOUS
<1>0. StreamInv /\ CheckInv
  BY DEF Inv, PagesTypeOK, StreamInv, CheckInv
<1>1. CASE EndWell
  BY <1>0, <1>1, RequestInv, StreamUnchanged DEF EndWell, Inv, PagesTypeOK, StreamInv, CheckInv
<1>2. CASE Progress
  BY <1>0, <1>2, EmitInv, CheckUnchanged DEF Progress, Inv, PagesTypeOK, StreamInv, CheckInv
<1>3. CASE Follow \/ Break
  BY <1>0, <1>3, PageInv, CheckUnchanged DEF Follow, Break, Inv, PagesTypeOK, StreamInv, CheckInv
<1>4. CASE Check
  BY <1>0, <1>4, CheckStepInv, StreamUnchanged DEF Check, Inv, PagesTypeOK, StreamInv, CheckInv
<1>5. CASE LookAtHub \/ Diagnose \/ SaveInstall
  BY <1>0, <1>5, RequestInv, StreamUnchanged
     DEF LookAtHub, Diagnose, SaveInstall, Inv, PagesTypeOK, StreamInv, CheckInv
<1>6. CASE NewDay
  BY <1>0, <1>6, CheckElseInv, StreamUnchanged DEF NewDay, Inv, PagesTypeOK, StreamInv, CheckInv
<1>7. CASE PagesRestart
  BY <1>0, <1>7, CheckElseInv, StreamRestartInv DEF PagesRestart, Inv, PagesTypeOK, StreamInv, CheckInv
<1>8. CASE UNCHANGED pagesVars
  BY <1>0, <1>8, StreamUnchanged, CheckUnchanged DEF pagesVars, Inv, PagesTypeOK, StreamInv, CheckInv
<1> QED BY <1>1, <1>2, <1>3, <1>4, <1>5, <1>6, <1>7, <1>8 DEF PagesNext

(* So the invariant holds in every state.                                     *)
LEMMA InvHolds == PagesSpec => []Inv
<1>1. PagesInit => Inv
  BY InitInv
<1>2. Inv /\ [PagesNext]_pagesVars => Inv'
  BY NextInv
<1> QED BY <1>1, <1>2, PTL DEF PagesSpec

(* Streams, queues, results and the check keep to their types, whatever the   *)
(* number of pages, snapshots, installs and restarts.                         *)
THEOREM PagesTypeCorrect == PagesSpec => []PagesTypeOK
<1>1. Inv => PagesTypeOK
  BY DEF Inv
<1> QED BY <1>1, InvHolds, PTL

(* A saved result tells the truth about the drive, whatever a check that was  *)
(* killed left in the owner's folders.                                        *)
THEOREM VerdictIsTrue == PagesSpec => []LitterNeverMisleads
<1>1. Inv => LitterNeverMisleads
  BY DEF Inv, CheckInOrder, Truth, LitterNeverMisleads
<1> QED BY <1>1, InvHolds, PTL

(* No step shows a page something older than it has painted already.          *)
LEMMA NothingOlderIsShown ==
  Inv /\ [PagesNext]_pagesVars => [\A p \in Page : shown'[p] >= shown[p]]_streamVars
<1> SUFFICES ASSUME Inv, [PagesNext]_pagesVars, NEW p \in Page PROVE shown'[p] >= shown[p]
  OBVIOUS
<1>1. shown \in [Page -> Snap] /\ queue \in [Page -> Snap] /\ shown[p] \in Nat /\ queue[p] \in Nat
  BY StreamAssumption DEF Inv, PagesTypeOK, StreamTypeOK, Snap, StreamAssumption
<1>2. CASE \E q \in Page : Deliver(q)
  <2>1. PICK q \in Page : Deliver(q)
    BY <1>2
  <2>2. shown'[p] = IF p = q THEN queue[q] ELSE shown[p]
    BY <1>1, <2>1 DEF Deliver
  <2>3. shown[q] <= queue[q]
    BY <2>1 DEF Inv, StreamInOrder, Deliver
  <2> QED BY <1>1, <2>2, <2>3
<1>3. CASE UNCHANGED shown
  BY <1>1, <1>3
<1>4. UNCHANGED shown \/ \E q \in Page : Deliver(q)
  BY DEF PagesNext, pagesVars, streamVars, EndWell, Progress, Emit, Follow, Heartbeat, StreamEnds, OpenStream,
         Break, Drop, Check, LookAtHub, Diagnose, SaveInstall, NewDay, PagesRestart, StreamRestart
<1> QED BY <1>2, <1>3, <1>4

(* No page goes back, over reconnections, dropped snapshots and restarts.     *)
THEOREM PagesOnlyAdvance == PagesSpec => PagesNeverGoBack
<1>1. Inv /\ [PagesNext]_pagesVars => [\A p \in Page : shown'[p] >= shown[p]]_streamVars
  BY NothingOlderIsShown
<1> QED BY <1>1, InvHolds, PTL DEF PagesSpec, PagesNeverGoBack
==============================================================================
