---------------------------- MODULE DeployManager ----------------------------
(***************************************************************************)
(* DeployManager (deploy.py): the one object that deploys the stack and      *)
(* changes it afterwards.  It holds one snapshot (in memory and, written in  *)
(* the same step, in deploy.json), one background task at a time, and drives *)
(* Docker from it.  Requests of the owner arrive in between.                 *)
(*                                                                           *)
(* Everything runs on one asyncio loop, so a step here is what the code does *)
(* between two awaits; "pc" names the await a run is parked on.  A restart   *)
(* may strike at any of them and loses runs, task and cancel.                *)
(***************************************************************************)
EXTENDS Docker

CONSTANTS
  RunId,          \* slots for background tasks: how many may be alive at once
  NoRun,          \* no task
  MaybeForeign,   \* app names someone else's container may hold from the start
  CancelOverlap,  \* FALSE: nobody presses anything while a Cancel is awaiting
                  \* Docker, nor Cancel while a run is going
  SecondTab,      \* FALSE: no wizard page is posted while a run is going
  MissedLooks     \* FALSE: the look for a name clash is answered by Docker in time

ASSUME ManagerAssumption ==
  /\ IsFiniteSet(RunId) /\ RunId # {}
  /\ NoRun \notin RunId
  /\ MaybeForeign \subseteq Managed
  /\ CancelOverlap \in BOOLEAN
  /\ SecondTab \in BOOLEAN
  /\ MissedLooks \in BOOLEAN

VARIABLES
  install,   \* app_ids of install.json; {} while there is none
  noVpn,     \* whether without_vpn.json holds a confirmation
  marker,    \* app ids the storage root's marker file calls ours
  compose,   \* app ids compose.yaml was last written for
  phase,     \* phase of the snapshot
  apps,      \* app ids of the snapshot's apps: on a finale, the Hub's posters
  adding,    \* adding of the snapshot: the one add, change, restore, reconnect
  runs,      \* the background tasks alive
  task,      \* self._task
  cancel     \* cancel_add while it awaits Docker

disk  == <<install, noVpn, marker, compose>>
hub   == <<phase, apps, adding>>
tasks == <<runs, task, cancel>>
vars  == <<disk, hub, tasks, docker>>

------------------------------------------------------------------------------
(* The values of the variables *)

Phases   == {"ready", "running", "wiring", "finale", "error"}
Purposes == {"add", "change_vpn", "restore", "reconnect"}
Pcs      == {"begin", "apply", "probe", "clash", "self_id", "stop", "remove",
             "unseat", "up", "start", "ready", "logins", "wire", "tail", "end"}

(* AppAdd.  NoAdd is the None of the code. *)
AppAdd == [app : App, purpose : Purposes, state : {"starting", "wiring", "error"},
           ran : BOOLEAN, comps : SUBSET App, moves : SUBSET App]

NoAdd == [app |-> NoApp, purpose |-> "none", state |-> "none",
          ran |-> FALSE, comps |-> {}, moves |-> {}]

(* A run: its kind and app, the install it captured (ids), the companions    *)
(* and movers it read from adding, whether it takes the VPN's container away *)
(* first (unseat), and the apps the stage it is in still has to handle.      *)
Run ==
  { run \in [kind : Purposes \cup {"deploy", "login"}, pc : Pcs, app : App \cup {NoApp},
             ids : SUBSET App, comps : SUBSET App, movers : SUBSET App,
             unseat : BOOLEAN, todo : SUBSET App] :
      /\ run.kind \in Purposes => run.app \in App
      /\ run.pc = "start" => First(run.todo) \in Managed }

Idle == [kind |-> "none", pc |-> "end", app |-> NoApp, ids |-> {}, comps |-> {},
         movers |-> {}, unseat |-> FALSE, todo |-> {}]

NoCancel == [on |-> FALSE, left |-> {}, rec |-> NoAdd]

DiskOK ==
  /\ install \subseteq App /\ noVpn \in BOOLEAN
  /\ marker \subseteq App /\ compose \subseteq App

HubOK == phase \in Phases /\ apps \subseteq App /\ adding \in AppAdd \cup {NoAdd}

TasksOK == runs \in [RunId -> Run \cup {Idle}] /\ task \in RunId \cup {NoRun}

CancelOK == cancel \in [on : BOOLEAN, left : SUBSET App, rec : AppAdd \cup {NoAdd}]

(* Every variable holds a value the code's types allow: a run's app is an    *)
(* app, the snapshot shows only apps, and adding is an AppAdd or None.       *)
TypeOK == DiskOK /\ HubOK /\ TasksOK /\ CancelOK /\ DockerTypeOK

Init ==
  /\ install = {} /\ noVpn = FALSE /\ marker = {} /\ compose = {}
  /\ phase = "ready" /\ apps = {} /\ adding = NoAdd
  /\ runs = [r \in RunId |-> Idle] /\ task = NoRun /\ cancel = NoCancel
  /\ running = {} /\ tunnel = NoTunnel
  /\ \E S \in SUBSET MaybeForeign :
       container = [a \in App |-> IF a \in S THEN "foreign" ELSE "none"]

------------------------------------------------------------------------------
(* Tasks *)

Live(r) == runs[r].kind # "none"

(* _is_running: the task held is the only one looked at. *)
IsRunning == task # NoRun /\ Live(task)

NewRun(kind, app, ids) ==
  [Idle EXCEPT !.kind = kind, !.pc = "begin", !.app = app, !.ids = ids]

(* self._task = asyncio.create_task(...): the handle to the task held before *)
(* is dropped, that task is not stopped.                                     *)
Launch(run) ==
  LET r == CHOOSE s \in RunId : ~Live(s)
  IN  /\ \E s \in RunId : ~Live(s)
      /\ runs' = [runs EXCEPT ![r] = run]
      /\ task' = r

(* A task that is done reads the same as no task. *)
Finish(r) ==
  /\ runs' = [runs EXCEPT ![r] = Idle]
  /\ task' = IF task = r THEN NoRun ELSE task

Continue(r, run) == runs' = [runs EXCEPT ![r] = run] /\ UNCHANGED task

Goto(r, pc) == Continue(r, [runs[r] EXCEPT !.pc = pc])

Emit(newPhase, newApps, newAdding) ==
  /\ phase' = newPhase /\ apps' = newApps /\ adding' = newAdding

(* _fail and _fail_add: say so in the snapshot (a login run has no place in  *)
(* it, and an adding that is gone is not brought back), then end.            *)
Fail(r) ==
  /\ CASE runs[r].kind = "deploy" -> Emit("error", runs[r].ids, NoAdd)
       [] runs[r].kind \in Purposes /\ adding # NoAdd ->
            Emit(phase, apps, [adding EXCEPT !.state = "error"])
       [] OTHER -> UNCHANGED hub
  /\ Goto(r, "end")

At(r, kinds, pc) == runs[r].kind \in kinds /\ runs[r].pc = pc

------------------------------------------------------------------------------
(* The steps of a run *)

BeginDeploy(r) ==
  /\ At(r, {"deploy"}, "begin")
  /\ Emit("running", runs[r].ids, NoAdd)
  /\ Goto(r, "probe")
  /\ UNCHANGED <<disk, cancel, docker>>

(* An add saves the grown install before anything else.  A VPN the install   *)
(* it was given already holds is taken away and brought up again.            *)
BeginAdd(r) ==
  LET run   == runs[r]
      grown == run.ids \cup adding.comps \cup {run.app}
  IN  /\ At(r, {"add"}, "begin")
      /\ install' = grown
      /\ Continue(r, [run EXCEPT !.pc = "probe", !.ids = grown,
                                 !.comps = adding.comps, !.movers = adding.moves,
                                 !.unseat = run.app \in Rider /\ Vpn \in run.ids])
      /\ UNCHANGED <<noVpn, marker, compose, hub, cancel, docker>>

(* Mutant: Change VPN leaves the container to `up`, which keeps it. *)
BeginWithoutUnseating(r) ==
  /\ At(r, {"change_vpn", "restore"}, "begin")
  /\ Continue(r, [runs[r] EXCEPT !.pc = "probe", !.ids = install, !.movers = adding.moves])
  /\ UNCHANGED <<hub, disk, cancel, docker>>

(* Change VPN and restore read everything from disk and from adding. *)
BeginFromDisk(r) ==
  /\ At(r, {"change_vpn", "restore"}, "begin")
  /\ IF install = {} \/ (runs[r].kind = "restore" /\ adding.moves = {})
       THEN Fail(r)
       ELSE /\ Continue(r, [runs[r] EXCEPT !.pc = "probe", !.ids = install,
                                           !.movers = adding.moves,
                                           !.unseat = runs[r].kind = "change_vpn"])
            /\ UNCHANGED hub
  /\ UNCHANGED <<disk, cancel, docker>>

(* Phase 1 of a login run; todo holds the arr targets, which phase 2 must    *)
(* recreate.                                                                 *)
ApplyLogins(r) ==
  /\ At(r, {"login"}, "apply")
  /\ \E accepted \in SUBSET runs[r].todo :
       IF accepted = {} THEN Finish(r)
       ELSE Continue(r, [runs[r] EXCEPT !.pc = "probe", !.todo = accepted])
  /\ UNCHANGED <<disk, hub, cancel, docker>>

(* Docker answered and the storage root is fit. *)
Probe(r) ==
  /\ At(r, {"deploy", "add"}, "probe")
  /\ Goto(r, "clash")
  /\ UNCHANGED <<disk, hub, cancel, docker>>

(* The other kinds rewrite compose.yaml from the install they hold. *)
Rewrite(r) ==
  /\ At(r, {"change_vpn", "restore", "login"}, "probe")
  /\ PlanBuilds(runs[r].ids, noVpn)
  /\ compose' = runs[r].ids
  /\ Goto(r, "self_id")
  /\ UNCHANGED <<install, noVpn, marker, hub, cancel, docker>>

(* Mutant: an add looks for a clash with its own app only. *)
NameClashOfAppOnly(r) ==
  LET new == IF runs[r].kind = "add" THEN {runs[r].app} ELSE runs[r].ids
  IN  \E a \in (new \cap Managed) \ marker : container[a] # "none"

(* _find_name_clash: an add looks at the apps it brings, a deploy at all. *)
NameClash(r) ==
  LET new == IF runs[r].kind = "add" THEN runs[r].comps \cup {runs[r].app} ELSE runs[r].ids
  IN  \E a \in (new \cap Managed) \ marker : container[a] # "none"

ClashFound(r) ==
  /\ At(r, {"deploy", "add"}, "clash")
  /\ NameClash(r)
  /\ Fail(r)
  /\ UNCHANGED <<disk, cancel, docker>>

(* An inspect that times out says, like a 404, that nothing is there.        *)
Prepared(r) == ~NameClash(r) \/ MissedLooks

(* The marker is written before the VPN answers are looked at and the plan   *)
(* is built, either of which may still refuse.                               *)
Prepare(r) ==
  /\ At(r, {"deploy", "add"}, "clash")
  /\ Prepared(r)
  /\ marker' = runs[r].ids
  /\ \/ /\ PlanBuilds(runs[r].ids, noVpn)
        /\ compose' = runs[r].ids
        /\ Goto(r, "self_id")
        /\ UNCHANGED hub
     \/ /\ Vpn \in runs[r].ids \/ ~PlanBuilds(runs[r].ids, noVpn)
        /\ Fail(r)
        /\ UNCHANGED compose
  /\ UNCHANGED <<install, noVpn, cancel, docker>>

(* Mutant: an add does not bring its movers back. *)
BringUpsWithoutMovers(run) ==
  CASE run.kind = "deploy"     -> run.ids
    [] run.kind = "add"        -> (IF run.unseat THEN {Vpn} ELSE run.comps) \cup {run.app}
    [] run.kind = "change_vpn" -> {Vpn} \cup run.movers
    [] run.kind = "restore"    -> run.movers
    [] OTHER                   -> run.todo

(* What a run brings up, always in catalog order. *)
BringUps(run) ==
  CASE run.kind = "deploy"     -> run.ids
    [] run.kind = "add"        -> (IF run.unseat THEN {Vpn} ELSE run.comps)
                                    \cup {run.app} \cup run.movers
    [] run.kind = "change_vpn" -> {Vpn} \cup run.movers
    [] run.kind = "restore"    -> run.movers
    [] OTHER                   -> run.todo

ToBringUp(run) ==
  [run EXCEPT !.pc = IF run.unseat THEN "unseat" ELSE "up", !.todo = BringUps(run)]

ToTakeDown(run) ==
  IF run.kind \in {"add", "change_vpn"} /\ run.movers # {}
    THEN [run EXCEPT !.pc = "stop", !.todo = run.movers]
    ELSE ToBringUp(run)

(* self_container_id answered; from here on the add owns up to its container. *)
SelfId(r) ==
  /\ At(r, Purposes \cup {"deploy", "login"}, "self_id")
  /\ adding' = IF /\ runs[r].kind = "add" /\ runs[r].app \in Managed
                  /\ adding # NoAdd
                 THEN [adding EXCEPT !.ran = TRUE] ELSE adding
  /\ Continue(r, ToTakeDown(runs[r]))
  /\ UNCHANGED <<disk, phase, apps, cancel, docker>>

(* _take_down: a stop that fails is ignored, a removal that fails is not. *)
StopMover(r) ==
  /\ At(r, Purposes, "stop")
  /\ \/ StopContainer(Last(runs[r].todo))
     \/ UNCHANGED docker
  /\ Goto(r, "remove")
  /\ UNCHANGED <<disk, hub, cancel>>

RemoveMover(r) ==
  LET gone == Last(runs[r].todo)
      rest == runs[r].todo \ {gone}
  IN  /\ At(r, Purposes, "remove")
      /\ RemoveContainer(gone)
      /\ Continue(r, IF rest = {} THEN ToBringUp(runs[r])
                     ELSE [runs[r] EXCEPT !.pc = "stop", !.todo = rest])
      /\ UNCHANGED <<disk, hub, cancel>>

RemoveVpn(r) ==
  /\ At(r, Purposes, "unseat")
  /\ RemoveContainer(Vpn)
  /\ Goto(r, "up")
  /\ UNCHANGED <<disk, hub, cancel>>

(* _bring_up_app: compose creates the container, only a login run has it     *)
(* made anew; the owner's own Plex has none.                                 *)
Create(r) ==
  LET a == First(runs[r].todo)
  IN  /\ At(r, Purposes \cup {"deploy", "login"}, "up")
      /\ CASE a \notin Managed                           -> UNCHANGED docker
           [] a \in Managed /\ runs[r].kind = "login"    -> ComposeRecreate(a)
           [] a \in Managed /\ runs[r].kind # "login"    -> ComposeCreate(a, compose)
      /\ Goto(r, IF a \in Managed THEN "start" ELSE "ready")
      /\ UNCHANGED <<disk, hub, cancel>>

StartUp(r) ==
  /\ At(r, Purposes \cup {"deploy", "login"}, "start")
  /\ ComposeStart(First(runs[r].todo), compose)
  /\ Goto(r, "ready")
  /\ UNCHANGED <<disk, hub, cancel>>

NextBringUp(r) ==
  LET rest == runs[r].todo \ {First(runs[r].todo)}
  IN  IF rest = {} /\ runs[r].kind = "login" THEN Finish(r)
      ELSE Continue(r, [runs[r] EXCEPT !.pc = IF rest = {} THEN "logins" ELSE "up",
                                       !.todo = rest])

(* The readiness loop, or the tunnel's proof, ended well. *)
Ready(r) ==
  LET a == First(runs[r].todo)
  IN  /\ At(r, Purposes \cup {"deploy", "login"}, "ready")
      /\ a \in Managed => Answers(a, runs[r].ids)
      /\ tunnel' = IF a = Vpn THEN [tunnel EXCEPT !.proven = TRUE] ELSE tunnel
      /\ NextBringUp(r)
      /\ UNCHANGED <<disk, hub, cancel, container, running>>

(* Mutant: the readiness loop has no time limit. *)
BreakButNotWhileWaiting(r) ==
  /\ runs[r].kind \in Purposes \cup {"deploy"}
  /\ runs[r].pc \in {"probe", "self_id", "remove", "unseat", "up", "start"}
  /\ Fail(r)
  /\ UNCHANGED <<disk, cancel, docker>>

(* Any wait on Docker, and any time limit, may end a run. *)
Break(r) ==
  /\ runs[r].kind \in Purposes \cup {"deploy"}
  /\ runs[r].pc \in {"probe", "self_id", "remove", "unseat", "up", "start", "ready"}
  /\ Fail(r)
  /\ UNCHANGED <<disk, cancel, docker>>

(* A login run gives up before it recreated anything, or skips one app. *)
BreakLogin(r) ==
  /\ runs[r].kind = "login"
  /\ \/ runs[r].pc \in {"probe", "self_id"} /\ Finish(r)
     \/ runs[r].pc \in {"up", "start", "ready"} /\ NextBringUp(r)
  /\ UNCHANGED <<disk, hub, cancel, docker>>

(* The saved login was put on every new app, or was not; either way the      *)
(* snapshot says that wiring starts.                                         *)
PutLogins(r) ==
  /\ At(r, Purposes \cup {"deploy"}, "logins")
  /\ CASE runs[r].kind = "deploy" -> Emit("wiring", runs[r].ids, NoAdd)
       [] runs[r].kind # "deploy" /\ adding # NoAdd ->
            Emit(phase, apps, [adding EXCEPT !.state = "wiring"])
       [] OTHER -> UNCHANGED hub
  /\ Goto(r, "wire")
  /\ UNCHANGED <<disk, cancel, docker>>

(* Mutant: a deploy folds its (missing) app in like every other run. *)
WireFoldsAlways(r) ==
  /\ At(r, Purposes \cup {"deploy"}, "wire")
  /\ Emit("finale", runs[r].ids \cup {runs[r].app}, NoAdd)
  /\ Goto(r, "end")
  /\ UNCHANGED <<disk, cancel, docker>>

(* Wiring never fails a run.  A deploy reaches its finale with the apps it   *)
(* captured; the others fold their app into the Hub and clear adding.        *)
Wire(r) ==
  LET run == runs[r]
  IN  /\ At(r, Purposes \cup {"deploy"}, "wire")
      /\ IF run.kind = "deploy" THEN Emit("finale", run.ids, NoAdd)
         ELSE Emit(phase, apps \cup run.comps \cup {run.app}, NoAdd)
      /\ Goto(r, IF run.kind = "add" /\ run.movers # {} THEN "tail" ELSE "end")
      /\ UNCHANGED <<disk, cancel, docker>>

(* A completed move behind the VPN ends the break-glass confirmation. *)
ClearConfirmation(r) ==
  /\ At(r, {"add"}, "tail")
  /\ noVpn' = FALSE
  /\ Finish(r)
  /\ UNCHANGED <<install, marker, compose, hub, cancel, docker>>

End(r) ==
  /\ At(r, Purposes \cup {"deploy"}, "end")
  /\ Finish(r)
  /\ UNCHANGED <<disk, hub, cancel, docker>>

RunStep(r) ==
  \/ BeginDeploy(r) \/ BeginAdd(r) \/ BeginFromDisk(r) \/ ApplyLogins(r)
  \/ Probe(r) \/ Rewrite(r) \/ ClashFound(r) \/ Prepare(r) \/ SelfId(r)
  \/ StopMover(r) \/ RemoveMover(r) \/ RemoveVpn(r) \/ Create(r) \/ StartUp(r) \/ Ready(r)
  \/ Break(r) \/ BreakLogin(r) \/ PutLogins(r) \/ Wire(r)
  \/ ClearConfirmation(r) \/ End(r)

------------------------------------------------------------------------------
(* Requests: each is one handler up to its first await *)

(* Environment assumption of the runs with CancelOverlap = FALSE. *)
Undisturbed == CancelOverlap \/ ~cancel.on

(* What snapshot() lists: nothing deployed yet shows the saved choices. *)
ShownApps == IF phase = "ready" THEN install ELSE apps

(* post_deploy and start(): nothing is asked of the phase or of adding. *)
Start ==
  /\ Undisturbed
  /\ ~IsRunning /\ install # {}
  /\ Launch(NewRun("deploy", NoApp, install))
  /\ UNCHANGED <<disk, hub, cancel, docker>>

(* add_app's refusals, in one conjunction; every request on a finale that    *)
(* changes the Hub makes the first two.                                      *)
HubIsFree ==
  /\ install # {} /\ phase = "finale"
  /\ ~IsRunning /\ adding = NoAdd

NewAdding(app, purpose, state, ran, comps, moves) ==
  [app |-> app, purpose |-> purpose, state |-> state, ran |-> ran,
   comps |-> comps, moves |-> moves]

AddApp(a) ==
  /\ HubIsFree
  /\ a \notin apps /\ ~Unavailable(a, apps)
  /\ Emit(phase, apps,
          NewAdding(a, "add", "starting", FALSE, CompanionsFor(a, apps, noVpn),
                    IF a = Vpn THEN RidersOf(apps) ELSE {}))
  /\ Launch(NewRun("add", a, install))
  /\ UNCHANGED <<disk, cancel, docker>>

(* save_step_answers for the VPN's questions, changed or not. *)
SaveVpnAnswers(changed) ==
  /\ tunnel' = [tunnel EXCEPT !.stale = @ \/ (changed /\ container[Vpn] = "own")]
  /\ UNCHANGED <<container, running>>

(* retry_add, from the Hub row or, for the VPN's own form, with answers. *)
RetryAdd(changed) ==
  /\ Undisturbed
  /\ ~IsRunning /\ install # {}
  /\ adding.state = "error" /\ adding.purpose # "reconnect"
  /\ changed => adding.app = Vpn
  /\ Emit(phase, apps, [adding EXCEPT !.state = "starting"])
  /\ Launch(NewRun(adding.purpose, adding.app,
                   IF adding.purpose = "add" THEN install ELSE {}))
  /\ SaveVpnAnswers(changed)
  /\ UNCHANGED <<disk, cancel>>

Reconnect(a) ==
  /\ HubIsFree
  /\ a \in apps
  /\ Emit(phase, apps, NewAdding(a, "reconnect", "wiring", TRUE, {}, {}))
  /\ Launch([NewRun("reconnect", a, install) EXCEPT !.pc = "wire"])
  /\ UNCHANGED <<disk, cancel, docker>>

(* post_hub_vpn saves the answers right after change_vpn() started the run. *)
ChangeVpn(changed) ==
  /\ HubIsFree
  /\ Vpn \in apps
  /\ Emit(phase, apps, NewAdding(Vpn, "change_vpn", "starting", TRUE, {}, RidersOf(apps)))
  /\ Launch(NewRun("change_vpn", Vpn, {}))
  /\ SaveVpnAnswers(changed)
  /\ UNCHANGED <<disk, cancel>>

(* Mutant: the rules of the apps that stay are not asked. *)
DisconnectRegardless(a) ==
  /\ ~IsRunning /\ adding = NoAdd /\ install # {}
  /\ a \in ShownApps \ Managed
  /\ install' = install \ {a}
  /\ marker' = install \ {a}
  /\ apps' = ShownApps \ {a}
  /\ UNCHANGED <<noVpn, compose, phase, adding, tasks, docker>>

(* Taking the owner's own Plex off the Hub; all of it is done by the first   *)
(* await.                                                                    *)
Disconnect(a) ==
  /\ ~IsRunning /\ adding = NoAdd /\ install # {}
  /\ a \in ShownApps \ Managed
  /\ \A b \in ShownApps \ {a} : ~Unavailable(b, ShownApps \ {a})
  /\ install' = install \ {a}
  /\ marker' = install \ {a}
  /\ apps' = ShownApps \ {a}
  /\ UNCHANGED <<noVpn, compose, phase, adding, tasks, docker>>

(* Mutant: a login run may start beside another run. *)
ApplyLoginUnguarded ==
  /\ install # {} /\ phase = "finale"
  /\ Launch([NewRun("login", NoApp, install) EXCEPT !.pc = "apply"])
  /\ UNCHANGED <<disk, hub, cancel, docker>>

(* Any choice of apps still to have the login; adding is not looked at. *)
ApplyLogin ==
  /\ Undisturbed
  /\ install # {} /\ phase = "finale" /\ ~IsRunning
  /\ \E targets \in SUBSET (apps \cap Arr) :
       Launch([NewRun("login", NoApp, install) EXCEPT !.pc = "apply", !.todo = targets])
  /\ UNCHANGED <<disk, hub, cancel, docker>>

(* Mutant: Cancel forgets the companions of the add. *)
BroughtAlone(add) == {add.app} \ {NoApp}

(* cancel_add.  Nothing asks whether a run is going.  Containers go one at a *)
(* time, with an await at each; the rest follows the last of them at once.   *)
Brought(add) == add.comps \cup ({add.app} \ {NoApp})

CancelAdd ==
  /\ Undisturbed /\ ~cancel.on
  /\ CancelOverlap \/ ~IsRunning
  /\ adding.state = "error" /\ adding.purpose = "add"
  /\ adding.moves # {} => noVpn
  /\ cancel' = [on |-> TRUE, rec |-> adding,
                left |-> IF adding.ran THEN Brought(adding) \cap Managed ELSE {}]
  /\ UNCHANGED <<disk, hub, runs, task, docker>>

CancelRemove ==
  LET a == Last(cancel.left)
  IN  /\ cancel.on /\ cancel.left # {}
      /\ RemoveContainer(a)
      /\ cancel' = [cancel EXCEPT !.left = @ \ {a}]
      /\ UNCHANGED <<disk, hub, runs, task>>

(* A container that cannot be removed: the failed add is put back as it was. *)
CancelFails ==
  /\ cancel.on /\ cancel.left # {}
  /\ Emit(phase, apps, cancel.rec)
  /\ cancel' = NoCancel
  /\ UNCHANGED <<disk, runs, task, docker>>

(* compose.yaml stays as it was if no plan can be built for what is left. *)
CancelFinish ==
  LET rec    == cancel.rec
      shrunk == install \ Brought(rec)
  IN  /\ cancel.on /\ cancel.left = {}
      /\ install' = shrunk
      /\ marker' = shrunk
      /\ compose' = IF PlanBuilds(shrunk, noVpn) THEN shrunk ELSE compose
      /\ IF rec.moves = {}
           THEN Emit(phase, apps, NoAdd) /\ UNCHANGED <<runs, task>>
           ELSE /\ Emit(phase, apps, NewAdding(First(rec.moves), "restore", "starting",
                                               TRUE, {}, rec.moves))
                /\ Launch(NewRun("restore", First(rec.moves), {}))
      /\ cancel' = NoCancel
      /\ UNCHANGED <<noVpn, docker>>

(* The wizard is closed only by a finale, not by a run that is going. *)
WizardOpen == phase # "finale" /\ (SecondTab \/ ~IsRunning)

(* post_setup_apps: every submission withdraws the confirmation. *)
ChooseApps ==
  /\ WizardOpen
  /\ noVpn' = FALSE
  /\ UNCHANGED <<install, marker, compose, hub, tasks, docker>>

ConfirmInWizard ==
  /\ WizardOpen
  /\ noVpn' = TRUE
  /\ UNCHANGED <<install, marker, compose, hub, tasks, docker>>

(* post_setup_drive saves and calls return_to_ready(); post_install saves.   *)
SaveChoices(S) ==
  /\ WizardOpen
  /\ install' = S
  /\ \/ UNCHANGED hub
     \/ /\ ~IsRunning /\ phase = "error"
        /\ Emit("ready", {}, NoAdd)
  /\ UNCHANGED <<noVpn, marker, compose, tasks, docker>>

(* The VPN's questions: in the wizard, and in the "+" panel while the VPN is *)
(* not on the Hub.                                                           *)
AnswerVpnQuestions ==
  /\ WizardOpen \/ (phase = "finale" /\ Vpn \notin apps)
  /\ SaveVpnAnswers(TRUE)
  /\ UNCHANGED <<disk, hub, tasks>>

ConfirmOnHub ==
  /\ phase = "finale" /\ adding = NoAdd /\ ~noVpn
  /\ Vpn \notin apps /\ RidersOf(apps) = {}
  /\ noVpn' = TRUE
  /\ UNCHANGED <<install, marker, compose, hub, tasks, docker>>

(* Mutant: Undo also while the downloader runs on the confirmation. *)
UndoAnyTime ==
  /\ adding = NoAdd
  /\ noVpn' = FALSE
  /\ UNCHANGED <<install, marker, compose, hub, tasks, docker>>

UndoConfirmation ==
  /\ RidersOf(ShownApps) = {} /\ adding = NoAdd
  /\ noVpn' = FALSE
  /\ UNCHANGED <<install, marker, compose, hub, tasks, docker>>

------------------------------------------------------------------------------
(* A new process: the snapshot is read back, then resume_if_interrupted *)

(* Mutant: of a finale's adding, only an add is resumed. *)
ResumedAddsOnly ==
  IF phase = "finale" /\ adding.state \in {"starting", "wiring"}
    THEN IF adding.purpose = "add" THEN NewRun("add", adding.app, install) ELSE Idle
  ELSE IF phase \in {"running", "wiring"} THEN NewRun("deploy", NoApp, install)
  ELSE Idle

Resumed ==
  IF phase = "finale" /\ adding.state \in {"starting", "wiring"} /\ install # {}
    THEN CASE adding.purpose = "add"       -> NewRun("add", adding.app, install)
           [] adding.purpose = "reconnect" ->
                [NewRun("reconnect", adding.app, install) EXCEPT !.pc = "wire"]
           [] OTHER -> NewRun(adding.purpose, adding.app, {})
  ELSE IF phase \in {"running", "wiring"} /\ install # {}
    THEN NewRun("deploy", NoApp, install)
  ELSE Idle

Restart ==
  LET r == CHOOSE s \in RunId : TRUE
  IN  /\ runs' = [s \in RunId |-> IF s = r THEN Resumed ELSE Idle]
      /\ task' = IF Resumed = Idle THEN NoRun ELSE r
      /\ cancel' = NoCancel
      /\ UNCHANGED <<disk, hub, docker>>

Next ==
  \/ \E r \in RunId : RunStep(r)
  \/ Start \/ ApplyLogin
  \/ \E a \in App : AddApp(a) \/ Reconnect(a) \/ Disconnect(a)
  \/ \E changed \in BOOLEAN : RetryAdd(changed) \/ ChangeVpn(changed)
  \/ CancelAdd \/ CancelRemove \/ CancelFails \/ CancelFinish
  \/ ChooseApps \/ ConfirmInWizard \/ AnswerVpnQuestions
  \/ \E S \in WizardChoices : SaveChoices(S)
  \/ ConfirmOnHub \/ UndoConfirmation
  \/ Restart

Spec == Init /\ [][Next]_vars

(* asyncio runs every task and handler that is ready, and every wait of a    *)
(* run on Docker or on an app has a time limit.  Nobody restarts the NAS for *)
(* ever.                                                                     *)
FairSpec ==
  /\ Spec
  /\ \A r \in RunId : WF_vars(RunStep(r))
  /\ WF_vars(CancelRemove \/ CancelFails \/ CancelFinish)
  /\ <>[][~Restart]_vars

------------------------------------------------------------------------------
(* Properties *)

(* At most one background task is alive: is_busy() promises the Hub that a   *)
(* run is going exactly while the held task is, and no two runs ever write   *)
(* the snapshot, install.json or Docker in turns.                            *)
OneRunAtATime == \A r \in RunId : Live(r) /\ runs[r].pc # "end" => task = r

(* Whatever the snapshot shows as under way has a task working on it, after  *)
(* every step, failure and restart: no deploy and no add hangs for ever.     *)
WorkHasAWorker ==
  /\ phase \in {"running", "wiring"} =>
       \E r \in RunId : runs[r].kind = "deploy" /\ runs[r].pc # "end"
  /\ adding.state \in {"starting", "wiring"} =>
       \E r \in RunId : runs[r].kind = adding.purpose /\ runs[r].pc \notin {"tail", "end"}

(* On a finale the Hub's posters and install.json name the same apps, but    *)
(* for those the add under way (or failed) is bringing.                      *)
HubAgreesWithInstall ==
  phase = "finale" => /\ apps \subseteq install
                      /\ install \ apps \subseteq adding.comps \cup {adding.app}

(* Every app the Hub shows has its container up, unless adding says a run    *)
(* owes it back.  The VPN counts while an app of the Hub rides it.  Arr apps *)
(* do not count: a login run that cannot start one it made anew only writes  *)
(* diagnostics.                                                              *)
ServedApps ==
  {a \in (apps \cap Managed) \ Arr : a = Vpn => RidersOf(apps) # {}}
    \ (adding.moves \cup (IF adding.moves # {} THEN {Vpn} ELSE {}))

HubAppsAreUp ==
  phase = "finale" => \A a \in ServedApps : a \in running

(* The downloader is where the Hub says it is: behind the VPN when the VPN   *)
(* is a poster, on its own network only without one and only confirmed.      *)
DownloaderIsWhereTheHubSays ==
  phase = "finale" =>
    \A a \in RidersOf(apps) \ adding.moves :
      IF Vpn \in apps THEN container[a] = "via"
                      ELSE container[a] = "own" /\ noVpn

(* The catalog's rules hold for every app of the Hub, after any sequence of  *)
(* adds, cancels and disconnections: Seerr never loses its media server.     *)
HubKeepsTheRules ==
  phase = "finale" => \A a \in apps : ~Unavailable(a, apps \ {a})

(* No downloader is started behind a tunnel no run has seen up.              *)
TunnelIsProvenFirst ==
  \A a \in Rider : container[a] = "via" => tunnel.proven

(* A container that was there before Marrquee is never touched, through any  *)
(* sequence of failed adds, retries, cancels and deploys.                    *)
NeverTouchesForeign ==
  [][\A a \in App : container[a] = "foreign" => container'[a] = "foreign"]_vars

(* Cancel takes away only what its own add brought: never the container of   *)
(* an app that is a poster on the Hub.                                       *)
CancelSparesTheHub ==
  [][cancel.on => \A a \in apps : container'[a] = "none" => container[a] = "none"]_vars

(* start's docstring: "a restart mid-deploy is the same run continuing", so   *)
(* the run that resumes deploys the apps of the run that was cut off.  It     *)
(* reads install.json anew, and the wizard, open until the finale, may have   *)
(* saved other choices from a second tab meanwhile.                           *)
ResumeRepeatsTheRun ==
  [][ Restart /\ phase \in {"running", "wiring"} =>
        \A r \in RunId : runs[r].kind = "deploy" =>
          \E s \in RunId : runs'[s].kind = "deploy" /\ runs'[s].ids = runs[r].ids ]_vars

(* When Change VPN ends well, the VPN runs on the answers that were saved    *)
(* with it: its container was created after them.                            *)
ChangeVpnTakesEffect ==
  [][ adding.purpose = "change_vpn" /\ adding' = NoAdd /\ phase' = "finale"
        => container'[Vpn] = "own" /\ ~tunnel'.stale ]_vars

(* No run keeps the Hub busy for ever: whatever Docker, the tunnel and the   *)
(* apps answer, each run comes to an end, and one at a time is no deadlock.  *)
BusyEnds == IsRunning ~> ~IsRunning

(* A deploy or an add under way reaches its end or an error the owner can    *)
(* answer, through any restarts.                                             *)
WorkSettles ==
  /\ phase \in {"running", "wiring"} ~> phase \in {"finale", "error"}
  /\ adding.state \in {"starting", "wiring"} ~> adding.state \in {"none", "error"}

(* "Something else on this machine is already using port 8080": a port that  *)
(* keeps a run from starting an app is not held by a container of ours.      *)
PortIsTakenByOthers ==
  \A r \in RunId : runs[r].pc = "start" => ~PortTaken(First(runs[r].todo), compose)

(* Said of Cancel and of _take_down: a rider goes before the network         *)
(* namespace it shares, so no container is left in a dead one.               *)
NoRiderOutlivesItsVpn == \A a \in App : container[a] # "orphan"

(* "Check the username and password you saved, then press Try again": the    *)
(* tunnel a run waits for is that of the answers saved last.                 *)
TunnelHasTheSavedAnswers ==
  \A r \in RunId :
    runs[r].pc = "ready" /\ First(runs[r].todo) = Vpn => ~tunnel.stale
==============================================================================
