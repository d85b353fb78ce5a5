------------------------ MODULE DeployManager_proofs ------------------------
(***************************************************************************)
(* What is proved of DeployManager for every catalog and every number of     *)
(* background tasks: its type invariant, and that one task at a time works   *)
(* on the stack as long as nobody acts while a Cancel awaits Docker.         *)
(***************************************************************************)
EXTENDS DeployManager, WellFoundedInduction, TLAPS

(* Every set of catalog places has a least one. *)
LEMMA LeastNatural ==
  ASSUME NEW T \in SUBSET Nat, T # {}
  PROVE  \E n \in T : \A m \in T : n <= m
<1> DEFINE Less == {ss \in Nat \X Nat : ss[1] < ss[2]}
<1>1. IsWellFoundedOn(Less, Nat)
  BY NatLessThanWellFounded, Zenon DEF OpToRel
<1>2. PICK n \in T : \A m \in T : ~(<<m, n>> \in Less)
  <2> HIDE DEF Less
  <2> QED  BY <1>1, WFMin, Zenon
<1>3. \A m \in T : n <= m
  <2> SUFFICES ASSUME NEW m \in T
               PROVE  n <= m
    OBVIOUS
  <2>1. m \in Nat /\ n \in Nat /\ ~(m < n)
    BY <1>2
  <2> QED  BY <2>1
<1> QED  BY <1>3

(* First picks a member of the apps it is given. *)
LEMMA FirstIsMember ==
  ASSUME NEW S \in SUBSET App, S # {}
  PROVE  First(S) \in S
<1> DEFINE Places == {Order[a] : a \in S}
<1>1. Places \in SUBSET Nat /\ Places # {}
  BY CatalogAssumption
<1>2. PICK n \in Places : \A m \in Places : n <= m
  <2> HIDE DEF Places
  <2> QED  BY <1>1, LeastNatural
<1>3. \E a \in S : \A b \in S : Order[a] <= Order[b]
  BY <1>2
<1> QED  BY <1>3 DEF First

------------------------------------------------------------------------------
(* The values of the variables, kept by the helpers every action is made of  *)

(* A new run has the shape of a run.                                          *)
LEMMA NewRunOK ==
  ASSUME NEW kind \in Purposes \cup {"deploy", "login"}, NEW a \in App \cup {NoApp},
         kind \in Purposes => a \in App, NEW ids \in SUBSET App
  PROVE  NewRun(kind, a, ids) \in Run
BY DEF NewRun, Idle, Run, Pcs

(* So has one that begins further on.                                         *)
LEMMA NewRunAtOK ==
  ASSUME NEW kind \in Purposes \cup {"deploy", "login"}, NEW a \in App \cup {NoApp},
         kind \in Purposes => a \in App, NEW ids \in SUBSET App,
         NEW pc \in Pcs \ {"start"}, NEW todo \in SUBSET App
  PROVE  /\ [NewRun(kind, a, ids) EXCEPT !.pc = pc] \in Run
         /\ [NewRun(kind, a, ids) EXCEPT !.pc = pc, !.todo = todo] \in Run
BY DEF NewRun, Idle, Run, Pcs

(* Starting a task keeps the tasks well-formed.                               *)
LEMMA LaunchOK ==
  ASSUME TasksOK, NEW run \in Run, Launch(run)
  PROVE  TasksOK'
<1> DEFINE free == CHOOSE s \in RunId : ~Live(s)
<1>1. free \in RunId /\ runs' = [runs EXCEPT ![free] = run] /\ task' = free
  BY DEF Launch
<1> QED  BY <1>1 DEF TasksOK

(* So does going on with one,                                                 *)
LEMMA ContinueOK ==
  ASSUME TasksOK, NEW r \in RunId, NEW run \in Run,
         Continue(r, run)
  PROVE  TasksOK'
BY DEF TasksOK, Continue

(* ending one,                                                                *)
LEMMA FinishOK ==
  ASSUME TasksOK, NEW r \in RunId, Finish(r)
  PROVE  TasksOK'
BY DEF TasksOK, Finish

(* and going to another step.                                                 *)
LEMMA GotoOK ==
  ASSUME TasksOK, NEW r \in RunId, Live(r),
         NEW pc \in Pcs, Goto(r, pc),
         pc = "start" => First(runs[r].todo) \in Managed
  PROVE  TasksOK'
<1>1. runs[r] \in Run
  BY DEF TasksOK, Live, Idle
<1>2. [runs[r] EXCEPT !.pc = pc] \in Run
  BY <1>1 DEF Run
<1> QED  BY <1>2, ContinueOK DEF Goto

(* A snapshot shows a Hub of the right shape.                                 *)
LEMMA EmitOK ==
  ASSUME NEW p \in Phases, NEW as \in SUBSET App, NEW add \in AppAdd \cup {NoAdd},
         Emit(p, as, add)
  PROVE  HubOK'
BY DEF Emit, HubOK

(* An add stays one when its state changes.                                   *)
LEMMA AddingStateOK ==
  ASSUME adding \in AppAdd \cup {NoAdd}, adding # NoAdd,
         NEW s \in {"starting", "wiring", "error"}
  PROVE  [adding EXCEPT !.state = s] \in AppAdd
BY DEF AppAdd

(* A failure shows a well-formed Hub and ends a task.                         *)
LEMMA FailOK ==
  ASSUME HubOK, TasksOK, NEW r \in RunId, Live(r), Fail(r)
  PROVE  HubOK' /\ TasksOK'
<1>1. TasksOK'
  BY GotoOK DEF Fail, Pcs
<1>2. runs[r].ids \subseteq App
  BY DEF TasksOK, Live, Run, Idle
<1>3. HubOK'
  <2>1. CASE runs[r].kind = "deploy"
    <3>1. Emit("error", runs[r].ids, NoAdd)
      BY <2>1 DEF Fail, Purposes
    <3> QED  BY <1>2, <3>1, EmitOK DEF Phases
  <2>2. CASE runs[r].kind \in Purposes /\ adding # NoAdd
    <3>1. Emit(phase, apps, [adding EXCEPT !.state = "error"])
      BY <2>2 DEF Fail, Purposes
    <3> QED  BY <2>2, <3>1, EmitOK, AddingStateOK DEF HubOK
  <2>3. CASE runs[r].kind # "deploy" /\ ~(runs[r].kind \in Purposes /\ adding # NoAdd)
    BY <2>3 DEF Fail, HubOK, hub
  <2> QED  BY <2>1, <2>2, <2>3
<1> QED  BY <1>1, <1>3

(* What is asked of Docker leaves containers of the right shape.              *)
LEMMA DockerOK ==
  ASSUME DockerTypeOK, NEW a, NEW file
  PROVE  /\ RemoveContainer(a) => DockerTypeOK'
         /\ StopContainer(a) => DockerTypeOK'
         /\ ComposeCreate(a, file) => DockerTypeOK'
         /\ ComposeRecreate(a) => DockerTypeOK'
         /\ a \in App /\ ComposeStart(a, file) => DockerTypeOK'
<1> USE DEF DockerTypeOK
<1>1. RemoveContainer(a) => DockerTypeOK'
  BY DEF RemoveContainer, Container, Tunnel, NoTunnel
<1>2. StopContainer(a) => DockerTypeOK'
  BY DEF StopContainer
<1>3. ASSUME ComposeCreate(a, file)
      PROVE  DockerTypeOK'
  <2>1. container' \in [App -> Container]
    BY <1>3 DEF ComposeCreate, NetworkOf, Container
  <2>2. tunnel' \in Tunnel
    BY <1>3, Zenon DEF ComposeCreate, Tunnel, NoTunnel
  <2> QED  BY <1>3, <2>1, <2>2 DEF ComposeCreate
<1>4. ComposeRecreate(a) => DockerTypeOK'
  BY DEF ComposeRecreate, Container
<1>5. ASSUME a \in App, ComposeStart(a, file)
      PROVE  DockerTypeOK'
  BY <1>5, CatalogAssumption DEF ComposeStart, Services
<1> QED  BY <1>1, <1>2, <1>3, <1>4, <1>5

------------------------------------------------------------------------------
(* Type correctness, one step per action *)

(* The first state is of its type.                                            *)
LEMMA InitOK == Init => TypeOK
<1> SUFFICES ASSUME Init PROVE TypeOK
  OBVIOUS
<1>1. DiskOK /\ HubOK /\ TasksOK /\ CancelOK
  BY DEF Init, DiskOK, HubOK, TasksOK, CancelOK, NoCancel, Phases
<1>2. DockerTypeOK
  BY DEF Init, DockerTypeOK, Container, NoTunnel, Tunnel
<1> QED  BY <1>1, <1>2 DEF TypeOK

(* A run that is alive is a Run, and Continue with another Run keeps types.  *)
LEMMA LiveRunOK ==
  ASSUME TasksOK, NEW r \in RunId, runs[r].kind # "none"
  PROVE  runs[r] \in Run /\ Live(r)
BY DEF TasksOK, Idle, Live

(* Going on to the next app keeps the tasks well-formed.                      *)
LEMMA NextBringUpOK ==
  ASSUME TasksOK, NEW r \in RunId, runs[r] \in Run, NextBringUp(r)
  PROVE  TasksOK'
<1> DEFINE rest == runs[r].todo \ {First(runs[r].todo)}
<1>1. CASE rest = {} /\ runs[r].kind = "login"
  BY <1>1, FinishOK DEF NextBringUp
<1>2. CASE ~(rest = {} /\ runs[r].kind = "login")
  <2> DEFINE run == [runs[r] EXCEPT !.pc = IF rest = {} THEN "logins" ELSE "up",
                                    !.todo = rest]
  <2>1. Continue(r, run)
    BY <1>2 DEF NextBringUp
  <2>2. run \in Run
    BY DEF Run, Pcs
  <2> QED  BY <2>1, <2>2, ContinueOK
<1> QED  BY <1>1, <1>2

(* A run that has gone over to its bring-up or take-down is still a run.      *)
LEMMA ToTakeDownOK ==
  ASSUME NEW run \in Run
  PROVE  ToBringUp(run) \in Run /\ ToTakeDown(run) \in Run
<1>1. BringUps(run) \in SUBSET App
  BY CatalogAssumption DEF BringUps, Run, Purposes
<1>2. ToBringUp(run) \in Run
  BY <1>1 DEF ToBringUp, Run, Pcs
<1>3. [run EXCEPT !.pc = "stop", !.todo = run.movers] \in Run
  BY DEF Run, Pcs
<1> QED  BY <1>2, <1>3 DEF ToTakeDown

(* Every step of a run keeps the types.                                       *)
LEMMA RunStepOK ==
  ASSUME TypeOK, NEW r \in RunId, RunStep(r)
  PROVE  TypeOK'
<1> USE DEF TypeOK
<1>1. ASSUME runs[r].kind \in Purposes \cup {"deploy", "login"}
      PROVE  runs[r] \in Run /\ Live(r)
  BY <1>1, LiveRunOK DEF Purposes
<1>2. CASE BeginDeploy(r)
  <2>1. runs[r] \in Run /\ Live(r)
    BY <1>1, <1>2 DEF BeginDeploy, At
  <2>2. HubOK'
    BY <2>1, <1>2, EmitOK DEF BeginDeploy, Phases, Run
  <2>3. TasksOK'
    BY <2>1, <1>2, GotoOK DEF BeginDeploy, Pcs
  <2> QED  BY <1>2, <2>2, <2>3 DEF BeginDeploy, disk, docker, DiskOK, CancelOK, DockerTypeOK
<1>3. CASE BeginAdd(r)
  <2>1. runs[r] \in Run /\ runs[r].kind = "add"
    BY <1>1, <1>3 DEF BeginAdd, At, Purposes
  <2>2. adding.comps \subseteq App /\ adding.moves \subseteq App /\ runs[r].app \in App
    BY <2>1 DEF HubOK, AppAdd, NoAdd, Run, Purposes
  <2> DEFINE grown == runs[r].ids \cup adding.comps \cup {runs[r].app}
             run   == [runs[r] EXCEPT !.pc = "probe", !.ids = grown,
                         !.comps = adding.comps, !.movers = adding.moves,
                         !.unseat = runs[r].app \in Rider /\ Vpn \in runs[r].ids]
  <2>3. grown \subseteq App
    BY <2>1, <2>2 DEF Run
  <2>4. run \in Run
    BY <2>1, <2>2, <2>3 DEF Run, Pcs
  <2>5. install' = grown /\ Continue(r, run)
    BY <1>3 DEF BeginAdd
  <2>6. TasksOK'
    BY <2>4, <2>5, ContinueOK
  <2> QED  BY <1>3, <2>3, <2>5, <2>6
           DEF BeginAdd, hub, docker, DiskOK, HubOK, CancelOK, DockerTypeOK
<1>4. CASE BeginFromDisk(r)
  <2>1. runs[r] \in Run /\ Live(r)
    BY <1>1, <1>4 DEF BeginFromDisk, At, Purposes
  <2>2. HubOK' /\ TasksOK'
    <3>1. CASE install = {} \/ (runs[r].kind = "restore" /\ adding.moves = {})
      BY <1>4, <2>1, <3>1, FailOK DEF BeginFromDisk
    <3>2. CASE ~(install = {} \/ (runs[r].kind = "restore" /\ adding.moves = {}))
      <4> DEFINE run == [runs[r] EXCEPT !.pc = "probe", !.ids = install,
                           !.movers = adding.moves, !.unseat = runs[r].kind = "change_vpn"]
      <4>1. Continue(r, run) /\ UNCHANGED hub
        BY <1>4, <3>2 DEF BeginFromDisk
      <4>2. install \subseteq App /\ adding.moves \subseteq App
        BY DEF HubOK, DiskOK, AppAdd, NoAdd
      <4>3. run \in Run
        BY <2>1, <4>2 DEF Run, Pcs
      <4> QED  BY <4>1, <4>3, ContinueOK DEF hub, HubOK
    <3> QED  BY <3>1, <3>2
  <2> QED  BY <1>4, <2>2 DEF BeginFromDisk, disk, docker, DiskOK, CancelOK, DockerTypeOK
<1>5. CASE ApplyLogins(r)
  <2>1. runs[r] \in Run
    BY <1>1, <1>5 DEF ApplyLogins, At
  <2>2. PICK accepted \in SUBSET runs[r].todo :
          IF accepted = {} THEN Finish(r)
          ELSE Continue(r, [runs[r] EXCEPT !.pc = "probe", !.todo = accepted])
    BY <1>5 DEF ApplyLogins
  <2>3. [runs[r] EXCEPT !.pc = "probe", !.todo = accepted] \in Run
    BY <2>1 DEF Run, Pcs
  <2>4. TasksOK'
    BY <2>2, <2>3, FinishOK, ContinueOK
  <2> QED  BY <1>5, <2>4
           DEF ApplyLogins, disk, hub, docker, DiskOK, HubOK, CancelOK, DockerTypeOK
<1>6. CASE Probe(r)
  <2>1. TasksOK'
    BY <1>1, <1>6, GotoOK DEF Probe, At, Purposes, Pcs
  <2> QED  BY <1>6, <2>1
           DEF Probe, disk, hub, docker, DiskOK, HubOK, CancelOK, DockerTypeOK
<1>7. CASE Rewrite(r)
  <2>1. runs[r] \in Run /\ Live(r)
    BY <1>1, <1>7 DEF Rewrite, At, Purposes
  <2>2. TasksOK'
    BY <2>1, <1>7, GotoOK DEF Rewrite, Pcs
  <2>3. DiskOK'
    BY <2>1, <1>7 DEF Rewrite, DiskOK, Run
  <2> QED  BY <1>7, <2>2, <2>3 DEF Rewrite, hub, docker, HubOK, CancelOK, DockerTypeOK
<1>8. CASE ClashFound(r)
  <2>1. Live(r)
    BY <1>1, <1>8 DEF ClashFound, At, Purposes
  <2>2. HubOK' /\ TasksOK'
    BY <1>8, <2>1, FailOK DEF ClashFound
  <2> QED  BY <1>8, <2>2 DEF ClashFound, disk, docker, DiskOK, CancelOK, DockerTypeOK
<1>9. CASE Prepare(r)
  <2>1. runs[r] \in Run /\ Live(r)
    BY <1>1, <1>9 DEF Prepare, At, Purposes
  <2>2. DiskOK'
    BY <1>9, <2>1 DEF Prepare, DiskOK, Run
  <2>3. HubOK' /\ TasksOK'
    <3>1. CASE Goto(r, "self_id") /\ UNCHANGED hub
      BY <2>1, <3>1, GotoOK DEF Pcs, hub, HubOK
    <3>2. CASE Fail(r)
      BY <2>1, <3>2, FailOK
    <3> QED  BY <1>9, <3>1, <3>2 DEF Prepare
  <2> QED  BY <1>9, <2>2, <2>3 DEF Prepare, docker, CancelOK, DockerTypeOK
<1>10. CASE SelfId(r)
  <2>1. runs[r] \in Run
    BY <1>1, <1>10 DEF SelfId, At
  <2>2. TasksOK'
    BY <1>10, <2>1, ToTakeDownOK, ContinueOK DEF SelfId
  <2>3. HubOK'
    BY <1>10 DEF SelfId, HubOK, AppAdd
  <2> QED  BY <1>10, <2>2, <2>3 DEF SelfId, disk, docker, DiskOK, CancelOK, DockerTypeOK
<1>11. CASE StopMover(r)
  <2>1. TasksOK'
    BY <1>1, <1>11, GotoOK DEF StopMover, At, Pcs
  <2>2. DockerTypeOK'
    BY <1>11, DockerOK DEF StopMover, docker, DockerTypeOK
  <2> QED  BY <1>11, <2>1, <2>2 DEF StopMover, disk, hub, DiskOK, HubOK, CancelOK
<1>12. CASE RemoveMover(r)
  <2> DEFINE rest == runs[r].todo \ {Last(runs[r].todo)}
  <2>1. runs[r] \in Run
    BY <1>1, <1>12 DEF RemoveMover, At
  <2>2. [runs[r] EXCEPT !.pc = "stop", !.todo = rest] \in Run
    BY <2>1 DEF Run, Pcs
  <2>3. TasksOK'
    BY <1>12, <2>1, <2>2, ToTakeDownOK, ContinueOK DEF RemoveMover
  <2>4. DockerTypeOK'
    BY <1>12, DockerOK DEF RemoveMover
  <2> QED  BY <1>12, <2>3, <2>4 DEF RemoveMover, disk, hub, DiskOK, HubOK, CancelOK
<1>13. CASE RemoveVpn(r)
  <2>1. TasksOK'
    BY <1>1, <1>13, GotoOK DEF RemoveVpn, At, Pcs
  <2>2. DockerTypeOK'
    BY <1>13, DockerOK DEF RemoveVpn
  <2> QED  BY <1>13, <2>1, <2>2 DEF RemoveVpn, disk, hub, DiskOK, HubOK, CancelOK
<1>14. CASE Create(r)
  <2>1. TasksOK'
    BY <1>1, <1>14, GotoOK DEF Create, At, Pcs
  <2>2. DockerTypeOK'
    <3> DEFINE a == First(runs[r].todo)
    <3>1. UNCHANGED docker \/ ComposeRecreate(a) \/ ComposeCreate(a, compose)
      BY <1>14 DEF Create
    <3> HIDE DEF a
    <3> QED  BY <3>1, DockerOK DEF docker, DockerTypeOK
  <2> QED  BY <1>14, <2>1, <2>2 DEF Create, disk, hub, DiskOK, HubOK, CancelOK
<1>22. CASE StartUp(r)
  <2>1. runs[r] \in Run /\ Live(r)
    BY <1>1, <1>22 DEF StartUp, At
  <2>2. TasksOK'
    BY <2>1, <1>22, GotoOK DEF StartUp, Pcs
  <2>3. First(runs[r].todo) \in App
    BY <2>1, <1>22, CatalogAssumption DEF StartUp, At, Run
  <2>4. DockerTypeOK'
    BY <1>22, <2>3, DockerOK DEF StartUp
  <2> QED  BY <1>22, <2>2, <2>4 DEF StartUp, disk, hub, DiskOK, HubOK, CancelOK
<1>15. CASE Ready(r)
  <2>1. TasksOK'
    BY <1>1, <1>15, NextBringUpOK DEF Ready, At
  <2>2. DockerTypeOK'
    BY <1>15 DEF Ready, DockerTypeOK, Tunnel
  <2> QED  BY <1>15, <2>1, <2>2 DEF Ready, disk, hub, DiskOK, HubOK, CancelOK
<1>16. CASE Break(r)
  <2>1. HubOK' /\ TasksOK'
    BY <1>1, <1>16, FailOK DEF Break
  <2> QED  BY <1>16, <2>1 DEF Break, disk, docker, DiskOK, CancelOK, DockerTypeOK
<1>17. CASE BreakLogin(r)
  <2>1. TasksOK'
    BY <1>1, <1>17, FinishOK, NextBringUpOK DEF BreakLogin
  <2> QED  BY <1>17, <2>1
           DEF BreakLogin, disk, hub, docker, DiskOK, HubOK, CancelOK, DockerTypeOK
<1>18. CASE PutLogins(r)
  <2>1. runs[r] \in Run /\ Live(r)
    BY <1>1, <1>18 DEF PutLogins, At
  <2>2. TasksOK'
    BY <1>18, <2>1, GotoOK DEF PutLogins, Pcs
  <2>3. HubOK'
    <3>1. CASE runs[r].kind = "deploy"
      <4>1. Emit("wiring", runs[r].ids, NoAdd)
        BY <1>18, <3>1 DEF PutLogins
      <4> QED  BY <2>1, <4>1, EmitOK DEF Phases, Run
    <3>2. CASE runs[r].kind # "deploy" /\ adding # NoAdd
      <4>1. Emit(phase, apps, [adding EXCEPT !.state = "wiring"])
        BY <1>18, <3>2 DEF PutLogins
      <4> QED  BY <3>2, <4>1, EmitOK, AddingStateOK DEF HubOK
    <3>3. CASE runs[r].kind # "deploy" /\ adding = NoAdd
      BY <1>18, <3>3 DEF PutLogins, hub, HubOK
    <3> QED  BY <3>1, <3>2, <3>3
  <2> QED  BY <1>18, <2>2, <2>3 DEF PutLogins, disk, docker, DiskOK, CancelOK, DockerTypeOK
<1>19. CASE Wire(r)
  <2>1. runs[r] \in Run /\ Live(r)
    BY <1>1, <1>19 DEF Wire, At
  <2>2. TasksOK'
    BY <1>19, <2>1, GotoOK DEF Wire, Pcs
  <2>3. HubOK'
    BY <1>19, <2>1, EmitOK DEF Wire, At, Phases, Run, HubOK
  <2> QED  BY <1>19, <2>2, <2>3 DEF Wire, disk, docker, DiskOK, CancelOK, DockerTypeOK
<1>20. CASE ClearConfirmation(r)
  <2>1. TasksOK'
    BY <1>20, FinishOK DEF ClearConfirmation
  <2> QED  BY <1>20, <2>1
           DEF ClearConfirmation, hub, docker, DiskOK, HubOK, CancelOK, DockerTypeOK
<1>21. CASE End(r)
  <2>1. TasksOK'
    BY <1>21, FinishOK DEF End
  <2> QED  BY <1>21, <2>1
           DEF End, disk, hub, docker, DiskOK, HubOK, CancelOK, DockerTypeOK
<1> QED
  BY <1>2, <1>3, <1>4, <1>5, <1>6, <1>7, <1>8, <1>9, <1>10, <1>11, <1>12, <1>13,
     <1>14, <1>15, <1>16, <1>17, <1>18, <1>19, <1>20, <1>21, <1>22 DEF RunStep

(* What a request puts on the Hub has the shape of an add.                    *)
LEMMA AppAddOK ==
  ASSUME NEW a \in App, NEW purpose \in Purposes, NEW state \in {"starting", "wiring", "error"},
         NEW ran \in BOOLEAN, NEW comps \in SUBSET App, NEW moves \in SUBSET App
  PROVE  NewAdding(a, purpose, state, ran, comps, moves) \in AppAdd
BY DEF NewAdding, AppAdd

(* Every action but those of a run and those of Cancel. *)
LEMMA RequestOK ==
  ASSUME TypeOK,
         \/ Start \/ ApplyLogin
         \/ \E a \in App : AddApp(a) \/ Reconnect(a) \/ Disconnect(a)
         \/ \E changed \in BOOLEAN : RetryAdd(changed) \/ ChangeVpn(changed)
         \/ ChooseApps \/ ConfirmInWizard \/ AnswerVpnQuestions
         \/ \E S \in WizardChoices : SaveChoices(S)
         \/ ConfirmOnHub \/ UndoConfirmation
  PROVE  TypeOK'
<1> USE DEF TypeOK
<1>1. ASSUME NEW changed, SaveVpnAnswers(changed)
      PROVE  DockerTypeOK'
  BY <1>1 DEF SaveVpnAnswers, DockerTypeOK, Tunnel
<1>2. CASE Start
  <2>1. TasksOK'
    <3>1. NewRun("deploy", NoApp, install) \in Run
      BY NewRunOK DEF DiskOK, Purposes
    <3> QED  BY <1>2, <3>1, LaunchOK DEF Start
  <2> QED  BY <1>2, <2>1
           DEF Start, disk, hub, docker, DiskOK, HubOK, CancelOK, DockerTypeOK
<1>3. CASE ApplyLogin
  <2>1. PICK targets \in SUBSET (apps \cap Arr) :
          Launch([NewRun("login", NoApp, install) EXCEPT !.pc = "apply", !.todo = targets])
    BY <1>3 DEF ApplyLogin
  <2>2. [NewRun("login", NoApp, install) EXCEPT !.pc = "apply", !.todo = targets] \in Run
    BY NewRunAtOK DEF DiskOK, HubOK, Purposes, Pcs
  <2>3. TasksOK'
    BY <2>1, <2>2, LaunchOK
  <2> QED  BY <1>3, <2>3
           DEF ApplyLogin, disk, hub, docker, DiskOK, HubOK, CancelOK, DockerTypeOK
<1>4. ASSUME NEW a \in App, AddApp(a)
      PROVE  TypeOK'
  <2> DEFINE moves == IF a = Vpn THEN RidersOf(apps) ELSE {}
             comps == CompanionsFor(a, apps, noVpn)
             add   == NewAdding(a, "add", "starting", FALSE, comps, moves)
  <2>1. comps \in SUBSET App /\ moves \in SUBSET App
    BY CatalogAssumption DEF CompanionsFor, RidersOf
  <2>2. add \in AppAdd
    <3> HIDE DEF comps, moves
    <3> QED  BY <2>1, AppAddOK DEF Purposes
  <2>3. HubOK'
    <3>1. Emit(phase, apps, add)
      BY <1>4 DEF AddApp
    <3> QED  BY <2>2, <3>1, EmitOK DEF HubOK
  <2>4. TasksOK'
    <3>1. NewRun("add", a, install) \in Run
      BY NewRunOK DEF DiskOK, Purposes
    <3> QED  BY <1>4, <3>1, LaunchOK DEF AddApp
  <2> QED  BY <1>4, <2>3, <2>4 DEF AddApp, disk, docker, DiskOK, CancelOK, DockerTypeOK
<1>5. ASSUME NEW a \in App, Reconnect(a)
      PROVE  TypeOK'
  <2>1. NewAdding(a, "reconnect", "wiring", TRUE, {}, {}) \in AppAdd
    BY AppAddOK DEF Purposes
  <2>2. HubOK'
    BY <1>5, <2>1, EmitOK DEF Reconnect, HubOK
  <2>3. [NewRun("reconnect", a, install) EXCEPT !.pc = "wire"] \in Run
    BY NewRunAtOK DEF DiskOK, Purposes, Pcs
  <2>4. TasksOK'
    BY <1>5, <2>3, LaunchOK DEF Reconnect
  <2> QED  BY <1>5, <2>2, <2>4
           DEF Reconnect, disk, docker, DiskOK, CancelOK, DockerTypeOK
<1>6. ASSUME NEW a \in App, Disconnect(a)
      PROVE  TypeOK'
  <2>1. DiskOK' /\ HubOK'
    BY <1>6 DEF Disconnect, ShownApps, DiskOK, HubOK
  <2> QED  BY <1>6, <2>1
           DEF Disconnect, tasks, docker, TasksOK, CancelOK, DockerTypeOK
<1>7. ASSUME NEW changed \in BOOLEAN, RetryAdd(changed)
      PROVE  TypeOK'
  <2>1. adding \in AppAdd /\ adding # NoAdd
    BY <1>7 DEF RetryAdd, HubOK, NoAdd
  <2>2. HubOK'
    <3>1. Emit(phase, apps, [adding EXCEPT !.state = "starting"])
      BY <1>7 DEF RetryAdd
    <3> QED  BY <2>1, <3>1, EmitOK, AddingStateOK DEF HubOK
  <2>3. TasksOK'
    <3> DEFINE ids == IF adding.purpose = "add" THEN install ELSE {}
    <3>1. adding.purpose \in Purposes /\ adding.app \in App /\ ids \in SUBSET App
      BY <2>1 DEF AppAdd, DiskOK
    <3>2. NewRun(adding.purpose, adding.app, ids) \in Run
      <4> HIDE DEF ids
      <4> QED  BY <3>1, NewRunOK
    <3> QED  BY <1>7, <3>2, LaunchOK DEF RetryAdd
  <2>4. DockerTypeOK'
    BY <1>1, <1>7 DEF RetryAdd
  <2> QED  BY <1>7, <2>2, <2>3, <2>4 DEF RetryAdd, disk, DiskOK, CancelOK
<1>8. ASSUME NEW changed \in BOOLEAN, ChangeVpn(changed)
      PROVE  TypeOK'
  <2>1. RidersOf(apps) \in SUBSET App /\ Vpn \in App
    BY CatalogAssumption DEF RidersOf
  <2>2. NewAdding(Vpn, "change_vpn", "starting", TRUE, {}, RidersOf(apps)) \in AppAdd
    BY <2>1, AppAddOK DEF Purposes
  <2>3. HubOK'
    BY <1>8, <2>2, EmitOK DEF ChangeVpn, HubOK
  <2>4. NewRun("change_vpn", Vpn, {}) \in Run
    BY <2>1, NewRunOK DEF Purposes
  <2>5. TasksOK'
    BY <1>8, <2>4, LaunchOK DEF ChangeVpn
  <2>6. DockerTypeOK'
    BY <1>1, <1>8 DEF ChangeVpn
  <2> QED  BY <1>8, <2>3, <2>5, <2>6 DEF ChangeVpn, disk, DiskOK, CancelOK
<1>9. CASE ChooseApps \/ ConfirmInWizard \/ ConfirmOnHub \/ UndoConfirmation
  BY <1>9 DEF ChooseApps, ConfirmInWizard, ConfirmOnHub, UndoConfirmation, hub, tasks,
              docker, DiskOK, HubOK, TasksOK, CancelOK, DockerTypeOK
<1>10. CASE AnswerVpnQuestions
  <2>1. DockerTypeOK'
    BY <1>1, <1>10 DEF AnswerVpnQuestions
  <2> QED  BY <1>10, <2>1
           DEF AnswerVpnQuestions, disk, hub, tasks, DiskOK, HubOK, TasksOK, CancelOK
<1>11. ASSUME NEW S \in WizardChoices, SaveChoices(S)
       PROVE  TypeOK'
  <2>1. DiskOK'
    BY <1>11, CatalogAssumption DEF SaveChoices, WizardChoices, DiskOK
  <2>2. HubOK'
    BY <1>11, EmitOK DEF SaveChoices, hub, HubOK, Phases
  <2> QED  BY <1>11, <2>1, <2>2
           DEF SaveChoices, tasks, docker, TasksOK, CancelOK, DockerTypeOK
<1> QED
  BY <1>2, <1>3, <1>4, <1>5, <1>6, <1>7, <1>8, <1>9, <1>10, <1>11

(* Every step of a cancel keeps the types.                                    *)
LEMMA CancelStepOK ==
  ASSUME TypeOK, CancelAdd \/ CancelRemove \/ CancelFails \/ CancelFinish
  PROVE  TypeOK'
<1> USE DEF TypeOK
<1>1. CASE CancelAdd
  <2>1. (IF adding.ran THEN Brought(adding) \cap Managed ELSE {}) \in SUBSET App
    BY CatalogAssumption
  <2>2. CancelOK'
    <3> DEFINE left == IF adding.ran THEN Brought(adding) \cap Managed ELSE {}
    <3>1. cancel' = [on |-> TRUE, rec |-> adding, left |-> left]
      BY <1>1 DEF CancelAdd
    <3>2. left \in SUBSET App
      BY <2>1
    <3> HIDE DEF left
    <3> QED  BY <3>1, <3>2 DEF CancelOK, HubOK
  <2> QED  BY <1>1, <2>2
           DEF CancelAdd, disk, hub, docker, DiskOK, HubOK, TasksOK, DockerTypeOK
<1>2. CASE CancelRemove
  <2>1. DockerTypeOK'
    BY <1>2, DockerOK DEF CancelRemove
  <2>2. CancelOK'
    BY <1>2 DEF CancelRemove, CancelOK
  <2> QED  BY <1>2, <2>1, <2>2 DEF CancelRemove, disk, hub, DiskOK, HubOK, TasksOK
<1>3. CASE CancelFails
  <2>1. HubOK'
    BY <1>3, EmitOK DEF CancelFails, HubOK, CancelOK
  <2>2. CancelOK'
    BY <1>3 DEF CancelFails, CancelOK, NoCancel
  <2> QED  BY <1>3, <2>1, <2>2 DEF CancelFails, disk, docker, DiskOK, TasksOK, DockerTypeOK
<1>4. CASE CancelFinish
  <2>1. DiskOK'
    BY <1>4 DEF CancelFinish, DiskOK
  <2>2. CancelOK'
    BY <1>4 DEF CancelFinish, CancelOK, NoCancel
  <2>3. HubOK' /\ TasksOK'
    <3>1. CASE cancel.rec.moves = {}
      BY <1>4, <3>1, EmitOK DEF CancelFinish, HubOK, TasksOK
    <3>2. CASE cancel.rec.moves # {}
      <4> DEFINE moves == cancel.rec.moves
      <4>1. moves \in SUBSET App
        BY DEF CancelOK, AppAdd, NoAdd
      <4>2. First(moves) \in App
        <5> HIDE DEF moves
        <5>1. moves # {}
          BY <3>2 DEF moves
        <5> QED  BY <4>1, <5>1, FirstIsMember
      <4>3. NewAdding(First(moves), "restore", "starting", TRUE, {}, moves) \in AppAdd
        <5> HIDE DEF moves
        <5> QED  BY <4>1, <4>2, AppAddOK DEF Purposes
      <4>4. NewRun("restore", First(moves), {}) \in Run
        <5> HIDE DEF moves
        <5> QED  BY <4>2, NewRunOK DEF Purposes
      <4>5. /\ Emit(phase, apps, NewAdding(First(moves), "restore", "starting", TRUE, {}, moves))
            /\ Launch(NewRun("restore", First(moves), {}))
        BY <1>4, <3>2 DEF CancelFinish
      <4> HIDE DEF moves
      <4> QED  BY <4>3, <4>4, <4>5, EmitOK, LaunchOK DEF HubOK
    <3> QED  BY <3>1, <3>2
  <2> QED  BY <1>4, <2>1, <2>2, <2>3 DEF CancelFinish, docker, DockerTypeOK
<1> QED  BY <1>1, <1>2, <1>3, <1>4

(* What a restart takes up is a run, or nothing.                              *)
LEMMA ResumedOK ==
  ASSUME TypeOK
  PROVE  Resumed \in Run \cup {Idle}
<1>1. CASE phase = "finale" /\ adding.state \in {"starting", "wiring"} /\ install # {}
  <2>1. adding.purpose \in Purposes /\ adding.app \in App /\ install \in SUBSET App
    BY <1>1 DEF TypeOK, HubOK, DiskOK, AppAdd, NoAdd
  <2>2. /\ NewRun("add", adding.app, install) \in Run
        /\ [NewRun("reconnect", adding.app, install) EXCEPT !.pc = "wire"] \in Run
        /\ NewRun(adding.purpose, adding.app, {}) \in Run
    BY <2>1, NewRunOK, NewRunAtOK DEF Purposes, Pcs
  <2> QED  BY <1>1, <2>2 DEF Resumed
<1>2. CASE ~(phase = "finale" /\ adding.state \in {"starting", "wiring"} /\ install # {})
  <2>1. NewRun("deploy", NoApp, install) \in Run
    BY NewRunOK DEF TypeOK, DiskOK, Purposes
  <2> QED  BY <1>2, <2>1 DEF Resumed
<1> QED  BY <1>1, <1>2

(* A restart keeps the types.                                                 *)
LEMMA RestartOK ==
  ASSUME TypeOK, Restart
  PROVE  TypeOK'
<1> DEFINE first == CHOOSE s \in RunId : TRUE
<1>1. first \in RunId
  BY ManagerAssumption
<1>2. TasksOK'
  BY <1>1, ResumedOK DEF Restart, TasksOK
<1>3. CancelOK'
  BY DEF Restart, CancelOK, NoCancel
<1> QED  BY <1>2, <1>3 DEF Restart, TypeOK, disk, hub, docker, DiskOK, HubOK, DockerTypeOK

(* Whatever the catalog, the number of slots for tasks and the requests, and *)
(* whenever the program restarts, every variable keeps a value of its type.  *)
THEOREM TypeCorrect == Spec => []TypeOK
<1>1. Init => TypeOK
  BY InitOK
<1>2. TypeOK /\ [Next]_vars => TypeOK'
  <2> SUFFICES ASSUME TypeOK, [Next]_vars PROVE TypeOK'
    OBVIOUS
  <2>1. CASE \E r \in RunId : RunStep(r)
    BY <2>1, RunStepOK
  <2>2. CASE CancelAdd \/ CancelRemove \/ CancelFails \/ CancelFinish
    BY <2>2, CancelStepOK
  <2>3. CASE Restart
    BY <2>3, RestartOK
  <2>4. CASE UNCHANGED vars
    BY <2>4 DEF vars, disk, hub, tasks, docker, TypeOK, DiskOK, HubOK, TasksOK,
                CancelOK, DockerTypeOK
  <2> QED  BY <2>1, <2>2, <2>3, <2>4, RequestOK DEF Next
<1> QED  BY <1>1, <1>2, PTL DEF Spec

------------------------------------------------------------------------------
(* One task at a time.  OneRunAtATime is not inductive: a Cancel may launch  *)
(* a restore when its last container is gone, without looking whether a run  *)
(* is going.  What keeps it from doing harm is that its failed add stays in  *)
(* adding meanwhile, which keeps every guarded request out, and that adding  *)
(* keeps the phase at finale, which keeps the wizard out.                    *)

OnlyTheHeldTask == \A r \in RunId : Live(r) => task = r

CancelIsAlone == cancel.on => adding # NoAdd /\ ~IsRunning

AddingOnAFinale == adding # NoAdd => phase = "finale"

OneWorker == OnlyTheHeldTask /\ CancelIsAlone /\ AddingOnAFinale

(* A failure goes on with its run, and shows the Hub or leaves it.            *)
LEMMA FailShape ==
  ASSUME NEW r \in RunId, Fail(r)
  PROVE  /\ \E run : Continue(r, run)
         /\ adding' = NoAdd \/ (adding # NoAdd /\ phase' = phase) \/ UNCHANGED hub
<1>1. \E run : Continue(r, run)
  BY DEF Fail, Goto
<1>2. CASE runs[r].kind = "deploy"
  <2>1. Emit("error", runs[r].ids, NoAdd)
    BY <1>2 DEF Fail, Purposes
  <2> QED  BY <1>1, <2>1 DEF Emit
<1>3. CASE runs[r].kind \in Purposes /\ adding # NoAdd
  <2>1. Emit(phase, apps, [adding EXCEPT !.state = "error"])
    BY <1>3 DEF Fail, Purposes
  <2> QED  BY <1>1, <1>3, <2>1 DEF Emit
<1>4. CASE runs[r].kind # "deploy" /\ ~(runs[r].kind \in Purposes /\ adding # NoAdd)
  <2>1. UNCHANGED hub
    BY <1>4 DEF Fail
  <2> QED  BY <1>1, <2>1
<1> QED  BY <1>2, <1>3, <1>4

(* A step of a run belongs to a live task, goes on with it or ends it, and   *)
(* never makes an adding where there was none.                               *)
LEMMA RunStepShape ==
  ASSUME NEW r \in RunId, RunStep(r)
  PROVE  /\ Live(r)
         /\ (\E run : Continue(r, run)) \/ Finish(r)
         /\ UNCHANGED cancel
         /\ adding' = NoAdd \/ (adding # NoAdd /\ phase' = phase) \/ UNCHANGED hub
<1>1. Live(r) /\ UNCHANGED cancel
  BY DEF RunStep, At, Live, Purposes, BeginDeploy, BeginAdd, BeginFromDisk, ApplyLogins,
         Probe, Rewrite, ClashFound, Prepare, SelfId, StopMover, RemoveMover, RemoveVpn,
         Create, StartUp, Ready, Break, BreakLogin, PutLogins, Wire, ClearConfirmation, End
<1>2. CASE BeginAdd(r) \/ ApplyLogins(r) \/ Probe(r) \/ Rewrite(r) \/ StopMover(r)
           \/ RemoveMover(r) \/ RemoveVpn(r) \/ Create(r) \/ StartUp(r) \/ Ready(r)
           \/ BreakLogin(r)
           \/ ClearConfirmation(r) \/ End(r)
  <2>1. NextBringUp(r) => (\E run : Continue(r, run)) \/ Finish(r)
    BY DEF NextBringUp
  <2>2. (\E run : Continue(r, run)) \/ Finish(r)
    BY <1>2, <2>1
       DEF BeginAdd, ApplyLogins, Probe, Rewrite, StopMover, RemoveMover, RemoveVpn, Create,
           StartUp, Ready, BreakLogin, ClearConfirmation, End, Goto
  <2>3. UNCHANGED hub
    BY <1>2
       DEF BeginAdd, ApplyLogins, Probe, Rewrite, StopMover, RemoveMover, RemoveVpn, Create,
           StartUp, Ready, BreakLogin, ClearConfirmation, End
  <2> QED  BY <1>1, <2>2, <2>3
<1>3. CASE ClashFound(r) \/ Break(r)
  BY <1>1, <1>3, FailShape DEF ClashFound, Break
<1>4. CASE BeginFromDisk(r)
  BY <1>1, <1>4, FailShape DEF BeginFromDisk
<1>5. CASE Prepare(r)
  <2>1. Fail(r) \/ (Goto(r, "self_id") /\ UNCHANGED hub)
    BY <1>5 DEF Prepare
  <2> QED  BY <1>1, <2>1, FailShape DEF Goto
<1>6. CASE BeginDeploy(r) \/ Wire(r)
  BY <1>1, <1>6 DEF BeginDeploy, Wire, Emit, Goto
<1>7. CASE SelfId(r)
  BY <1>1, <1>7 DEF SelfId, hub
<1>8. CASE PutLogins(r)
  <2>1. adding' = NoAdd \/ (adding # NoAdd /\ phase' = phase) \/ UNCHANGED hub
    BY <1>8 DEF PutLogins, Emit
  <2> QED  BY <1>1, <1>8, <2>1 DEF PutLogins, Goto
<1> QED  BY <1>2, <1>3, <1>4, <1>5, <1>6, <1>7, <1>8 DEF RunStep

(* A task launched while none is alive is the only one. *)
LEMMA LaunchAlone ==
  ASSUME TypeOK, OneWorker, ~IsRunning, NEW run, Launch(run)
  PROVE  OnlyTheHeldTask'
<1> DEFINE free == CHOOSE s \in RunId : ~Live(s)
<1>1. free \in RunId /\ runs' = [runs EXCEPT ![free] = run] /\ task' = free
  BY DEF Launch
<1>2. \A s \in RunId : ~Live(s)
  BY ManagerAssumption DEF OneWorker, OnlyTheHeldTask, IsRunning
<1> QED  BY <1>1, <1>2 DEF TypeOK, TasksOK, OnlyTheHeldTask, Live

(* No step makes a second worker.                                             *)
LEMMA OneWorkerStep ==
  ASSUME ~CancelOverlap, TypeOK, OneWorker, [Next]_vars
  PROVE  OneWorker'
<1> USE DEF OneWorker
<1>1. ASSUME NEW r \in RunId, RunStep(r)
      PROVE  OneWorker'
  <2>1. task = r /\ ~cancel.on /\ Live(r)
    BY <1>1, RunStepShape, ManagerAssumption DEF OnlyTheHeldTask, CancelIsAlone, IsRunning
  <2>2. OnlyTheHeldTask'
    <3>1. CASE \E run : Continue(r, run)
      BY <2>1, <3>1 DEF Continue, TypeOK, TasksOK, OnlyTheHeldTask, Live
    <3>2. CASE Finish(r)
      BY <2>1, <3>2 DEF Finish, TypeOK, TasksOK, OnlyTheHeldTask, Live, Idle
    <3> QED  BY <1>1, <3>1, <3>2, RunStepShape
  <2>3. CancelIsAlone'
    BY <1>1, <2>1, RunStepShape DEF CancelIsAlone
  <2>4. AddingOnAFinale'
    BY <1>1, RunStepShape DEF AddingOnAFinale, hub
  <2> QED  BY <2>2, <2>3, <2>4
<1>2. CASE Start \/ ApplyLogin
  <2>1. ~IsRunning /\ UNCHANGED <<hub, cancel>> /\ ~cancel.on /\ \E run : Launch(run)
    BY <1>2 DEF Start, ApplyLogin, Undisturbed
  <2> QED  BY <2>1, LaunchAlone DEF hub, CancelIsAlone, AddingOnAFinale
<1>3. CASE \E a \in App : AddApp(a) \/ Reconnect(a)
  <2>1. ~IsRunning /\ adding = NoAdd /\ phase' = "finale" /\ UNCHANGED cancel
        /\ \E run : Launch(run)
    BY <1>3 DEF AddApp, Reconnect, HubIsFree, Emit
  <2> QED  BY <2>1, LaunchAlone DEF CancelIsAlone, AddingOnAFinale
<1>4. CASE \E changed \in BOOLEAN : ChangeVpn(changed)
  <2>1. ~IsRunning /\ adding = NoAdd /\ phase' = "finale" /\ UNCHANGED cancel
        /\ \E run : Launch(run)
    BY <1>4 DEF ChangeVpn, HubIsFree, Emit
  <2> QED  BY <2>1, LaunchAlone DEF CancelIsAlone, AddingOnAFinale
<1>5. CASE \E changed \in BOOLEAN : RetryAdd(changed)
  <2>1. ~IsRunning /\ ~cancel.on /\ adding # NoAdd /\ phase' = phase /\ UNCHANGED cancel
        /\ \E run : Launch(run)
    BY <1>5 DEF RetryAdd, Undisturbed, Emit, NoAdd
  <2> QED  BY <2>1, LaunchAlone DEF CancelIsAlone, AddingOnAFinale
<1>6. CASE \/ \E a \in App : Disconnect(a)
           \/ ChooseApps \/ ConfirmInWizard \/ AnswerVpnQuestions
           \/ ConfirmOnHub \/ UndoConfirmation
  <2>1. UNCHANGED <<phase, adding, tasks>>
    BY <1>6 DEF Disconnect, ChooseApps, ConfirmInWizard, AnswerVpnQuestions,
                ConfirmOnHub, UndoConfirmation, hub
  <2> QED  BY <2>1 DEF tasks, OnlyTheHeldTask, CancelIsAlone, AddingOnAFinale,
                       IsRunning, Live
<1>7. CASE \E S \in WizardChoices : SaveChoices(S)
  <2>1. phase # "finale" /\ UNCHANGED tasks /\ (UNCHANGED hub \/ adding' = NoAdd)
    BY <1>7 DEF SaveChoices, WizardOpen, Emit
  <2>2. ~cancel.on
    BY <2>1 DEF CancelIsAlone, AddingOnAFinale
  <2> QED  BY <2>1, <2>2 DEF hub, tasks, OnlyTheHeldTask, CancelIsAlone, AddingOnAFinale, Live
<1>8. CASE CancelAdd
  <2>1. ~IsRunning /\ adding # NoAdd /\ UNCHANGED <<hub, runs, task>>
    BY <1>8 DEF CancelAdd, NoAdd
  <2> QED  BY <2>1 DEF hub, OnlyTheHeldTask, CancelIsAlone, AddingOnAFinale, IsRunning, Live
<1>9. CASE CancelRemove
  <2>1. cancel.on /\ UNCHANGED <<hub, runs, task>>
    BY <1>9 DEF CancelRemove
  <2> QED  BY <2>1 DEF hub, OnlyTheHeldTask, CancelIsAlone, AddingOnAFinale, IsRunning, Live
<1>10. CASE CancelFails
  <2>1. phase = "finale" /\ phase' = phase /\ ~cancel'.on /\ UNCHANGED <<runs, task>>
    BY <1>10 DEF CancelFails, Emit, NoCancel, CancelIsAlone, AddingOnAFinale
  <2> QED  BY <2>1 DEF OnlyTheHeldTask, CancelIsAlone, AddingOnAFinale, Live
<1>11. CASE CancelFinish
  <2>1. phase = "finale" /\ ~IsRunning /\ ~cancel'.on
    BY <1>11 DEF CancelFinish, NoCancel, CancelIsAlone, AddingOnAFinale
  <2>2. phase' = phase /\ (UNCHANGED <<runs, task>> \/ \E run : Launch(run))
    BY <1>11 DEF CancelFinish, Emit
  <2>3. OnlyTheHeldTask'
    BY <2>1, <2>2, LaunchAlone DEF OnlyTheHeldTask, Live
  <2> QED  BY <2>1, <2>2, <2>3 DEF CancelIsAlone, AddingOnAFinale
<1>12. CASE Restart
  <2> DEFINE first == CHOOSE s \in RunId : TRUE
  <2>1. first \in RunId
    BY ManagerAssumption
  <2>2. OnlyTheHeldTask'
    BY <1>12, <2>1 DEF Restart, OnlyTheHeldTask, Live, Idle
  <2>3. ~cancel'.on /\ UNCHANGED hub
    BY <1>12 DEF Restart, NoCancel
  <2> QED  BY <2>2, <2>3 DEF hub, CancelIsAlone, AddingOnAFinale
<1>13. CASE UNCHANGED vars
  BY <1>13 DEF vars, hub, tasks, OnlyTheHeldTask, CancelIsAlone, AddingOnAFinale,
               IsRunning, Live
<1> QED
  BY <1>1, <1>2, <1>3, <1>4, <1>5, <1>6, <1>7, <1>8, <1>9, <1>10, <1>11, <1>12, <1>13
     DEF Next

(* is_busy: as long as nobody acts while a Cancel awaits Docker, the task    *)
(* held is the only one that works on the stack, whatever fails, is retried, *)
(* added, changed or cancelled, and whenever the program restarts.           *)
THEOREM OnlyOneWorks ==
  ASSUME ~CancelOverlap
  PROVE  Spec => []OneRunAtATime
<1>1. Init => OneWorker
  BY DEF Init, OneWorker, OnlyTheHeldTask, CancelIsAlone, AddingOnAFinale, Live, Idle, NoCancel
<1>2. TypeOK /\ OneWorker /\ [Next]_vars => OneWorker'
  BY OneWorkerStep
<1>3. OneWorker => OneRunAtATime
  BY DEF OneWorker, OnlyTheHeldTask, OneRunAtATime
<1> QED  BY <1>1, <1>2, <1>3, TypeCorrect, PTL DEF Spec
==============================================================================
