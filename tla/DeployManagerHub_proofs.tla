----------------------- MODULE DeployManagerHub_proofs -----------------------
(***************************************************************************)
(* What is proved of the Hub that DeployManager keeps, for every catalog:    *)
(* what it shows is being worked on, is installed, is up and is where it     *)
(* says, and nobody else's container is touched.                             *)
(***************************************************************************)
EXTENDS DeployManager_proofs

(* What the runs assume of the surroundings. *)
Orderly == ~CancelOverlap /\ ~SecondTab

------------------------------------------------------------------------------
(* The snapshot, install.json and the run at work.  None of this looks at    *)
(* Docker.                                                                   *)

(* What the snapshot's adding says is true of the Hub it is shown on. *)
AddingIsSound ==
  /\ adding.purpose = "add" =>
       /\ adding.app \notin apps /\ adding.comps \cap apps = {}
       /\ adding.comps \subseteq {Vpn}
       /\ adding.comps # {} => adding.app \in Rider
       /\ adding.moves = IF adding.app = Vpn THEN RidersOf(apps) ELSE {}
  /\ adding.purpose \in Purposes \ {"add"} => adding.app \in apps /\ adding.comps = {}
  /\ adding.purpose = "change_vpn" => adding.app = Vpn /\ adding.moves = RidersOf(apps)
  /\ adding.purpose = "restore" =>
       adding.moves # {} /\ adding.moves = RidersOf(apps) /\ Vpn \notin apps /\ noVpn
  /\ adding.purpose = "reconnect" => adding.moves = {}

(* A run works on what the snapshot shows, with the install there is. *)
DeployIsShown(run) ==
  run.kind = "deploy" =>
    /\ run.ids = install /\ install # {}
    /\ run.pc \notin {"begin", "end"} =>
         phase \in {"running", "wiring"} /\ adding = NoAdd /\ apps = install

AddingIsWorkedOn(run) ==
  run.kind \in Purposes /\ run.pc \notin {"tail", "end"} =>
    /\ adding.state \in {"starting", "wiring"} /\ install # {}
    /\ adding.purpose = run.kind /\ adding.app = run.app

RunHoldsItsAdding(run) ==
  /\ run.kind = "add" /\ run.pc = "begin" => run.ids = install
  /\ run.kind = "add" /\ run.pc \notin {"begin", "tail", "end"} =>
       /\ run.ids = install /\ install = apps \cup run.comps \cup {run.app}
       /\ run.comps = adding.comps /\ run.movers = adding.moves
       /\ run.unseat => run.app \in Rider /\ Vpn \in install
       /\ run.app \in Rider /\ Vpn \in apps => run.unseat
  /\ run.kind \in {"change_vpn", "restore"} /\ run.pc \notin {"begin", "end"} =>
       run.ids = install /\ run.movers = adding.moves /\ run.unseat = (run.kind = "change_vpn")
  /\ run.kind \in {"change_vpn", "restore", "reconnect"} => run.comps = {} /\ run.pc # "tail"
  /\ run.kind = "reconnect" => run.pc \in {"wire", "end"}

LoginIsQuiet(run) ==
  run.kind = "login" =>
    /\ run.pc \in {"apply", "probe", "self_id", "up", "start", "ready"}
    /\ run.todo \subseteq Arr /\ ~run.unseat /\ run.movers = {}
    /\ phase = "finale" /\ adding.state \notin {"starting", "wiring"}

TailIsAMove(run) ==
  run.pc = "tail" => run.kind = "add" /\ phase = "finale" /\ adding = NoAdd /\ Vpn \in apps

RunIsSound(run) ==
  /\ DeployIsShown(run) /\ AddingIsWorkedOn(run) /\ RunHoldsItsAdding(run)
  /\ LoginIsQuiet(run) /\ TailIsAMove(run)

CancelIsSound ==
  cancel.on =>
    /\ cancel.rec = adding /\ adding.state = "error" /\ adding.purpose = "add"
    /\ adding.moves # {} => noVpn
    /\ cancel.left \subseteq Brought(adding) \cap Managed
    /\ cancel.left # {} => adding.ran

Bookkeeping ==
  /\ AddingIsSound /\ WorkHasAWorker /\ HubAgreesWithInstall /\ CancelIsSound
  /\ \A r \in RunId : Live(r) => RunIsSound(runs[r])

(* WorkHasAWorker, said of the one run there is. *)
WorksOnIt(run) ==
  /\ phase \in {"running", "wiring"} => run.kind = "deploy" /\ run.pc # "end"
  /\ adding.state \in {"starting", "wiring"} =>
       run.kind = adding.purpose /\ run.pc \notin {"tail", "end"}

SameRun(new, old) ==
  /\ new.kind = old.kind /\ new.app = old.app /\ new.ids = old.ids
  /\ new.comps = old.comps /\ new.movers = old.movers /\ new.unseat = old.unseat

(* Nothing is at work on a new Hub.                                           *)
LEMMA BookkeepingInit == Init => Bookkeeping
BY DEF Init, Bookkeeping, AddingIsSound, WorkHasAWorker, HubAgreesWithInstall, CancelIsSound,
       NoAdd, NoCancel, Idle, Live, Purposes

(* The run that takes a step is the only one, and no Cancel is waiting. *)
LEMMA StepIsAlone ==
  ASSUME ~CancelOverlap, TypeOK, OneWorker, NEW r \in RunId, RunStep(r)
  PROVE  /\ runs[r] \in Run /\ runs[r].kind # "none"
         /\ \A s \in RunId : Live(s) => s = r
         /\ ~cancel.on /\ cancel' = cancel
<1>1. Live(r) /\ cancel' = cancel
  BY RunStepShape
<1>2. task = r /\ IsRunning
  BY <1>1, ManagerAssumption DEF OneWorker, OnlyTheHeldTask, IsRunning
<1>3. runs[r] \in Run
  BY <1>1, LiveRunOK DEF TypeOK, Live
<1> QED  BY <1>1, <1>2, <1>3 DEF OneWorker, OnlyTheHeldTask, CancelIsAlone, Live

(* Where the manager is not running, no run is live.                          *)
LEMMA NobodyWorks ==
  ASSUME OneWorker, ~IsRunning
  PROVE  \A s \in RunId : ~Live(s)
BY ManagerAssumption DEF OneWorker, OnlyTheHeldTask, IsRunning

(* Where there is one run, the work shown is its work. *)
LEMMA TheRunWorks ==
  ASSUME TypeOK, WorkHasAWorker,
         NEW r \in RunId, \A s \in RunId : Live(s) => s = r
  PROVE  WorksOnIt(runs[r])
<1>1. ASSUME phase \in {"running", "wiring"}
      PROVE  runs[r].kind = "deploy" /\ runs[r].pc # "end"
  BY <1>1 DEF WorkHasAWorker, Live
<1>2. ASSUME adding.state \in {"starting", "wiring"}
      PROVE  runs[r].kind = adding.purpose /\ runs[r].pc \notin {"tail", "end"}
  <2>1. adding.purpose # "none"
    BY <1>2 DEF TypeOK, HubOK, AppAdd, NoAdd, Purposes
  <2> QED  BY <1>2, <2>1 DEF WorkHasAWorker, Live
<1> QED  BY <1>1, <1>2 DEF WorksOnIt

(* A step of the one run keeps Bookkeeping if what it makes of itself and of *)
(* the snapshot is sound.                                                    *)
LEMMA RunGoesOn ==
  ASSUME TypeOK, NEW r \in RunId, \A s \in RunId : Live(s) => s = r,
         ~cancel.on, cancel' = cancel,
         NEW new, runs' = [runs EXCEPT ![r] = new],
         new.kind # "none" => RunIsSound(new)',
         WorksOnIt(new)', AddingIsSound', HubAgreesWithInstall'
  PROVE  Bookkeeping'
<1>1. runs'[r] = new /\ \A s \in RunId \ {r} : runs'[s] = runs[s]
  BY DEF TypeOK, TasksOK
<1>2. \A s \in RunId : Live(s)' => RunIsSound(runs[s])'
  BY <1>1 DEF Live
<1>3. WorkHasAWorker'
  BY <1>1 DEF WorkHasAWorker, WorksOnIt
<1>4. CancelIsSound'
  BY DEF CancelIsSound
<1> QED  BY <1>2, <1>3, <1>4 DEF Bookkeeping

(* A run that goes on from one await to the next, the snapshot as it was but *)
(* for the ran of its adding.                                                *)
LEMMA QuietStep ==
  ASSUME TypeOK, Bookkeeping, NEW r \in RunId, runs[r].kind # "none",
         \A s \in RunId : Live(s) => s = r, ~cancel.on, cancel' = cancel,
         NEW new, runs' = [runs EXCEPT ![r] = new], SameRun(new, runs[r]),
         runs[r].pc \notin {"begin", "tail", "end"}, new.pc \notin {"begin", "tail", "end"},
         runs[r].kind # "reconnect",
         runs[r].kind = "login" =>
           new.pc \in {"probe", "self_id", "up", "start", "ready"} /\ new.todo \subseteq Arr,
         UNCHANGED <<install, noVpn, phase, apps>>,
         adding' = adding \/ (adding # NoAdd /\ adding' = [adding EXCEPT !.ran = TRUE])
  PROVE  Bookkeeping'
<1>1. /\ adding'.app = adding.app /\ adding'.purpose = adding.purpose
      /\ adding'.state = adding.state /\ adding'.comps = adding.comps
      /\ adding'.moves = adding.moves /\ (adding = NoAdd => adding' = NoAdd)
  BY DEF TypeOK, HubOK, AppAdd
<1>2. RunIsSound(new)'
  <2>1. RunIsSound(runs[r])
    BY DEF Bookkeeping, Live
  <2> QED  BY <1>1, <2>1 DEF SameRun, RunIsSound, DeployIsShown, AddingIsWorkedOn,
                             RunHoldsItsAdding, LoginIsQuiet, TailIsAMove
<1>3. WorksOnIt(new)'
  BY <1>1, TheRunWorks DEF Bookkeeping, WorksOnIt, SameRun
<1>4. AddingIsSound' /\ HubAgreesWithInstall'
  BY <1>1 DEF Bookkeeping, AddingIsSound, HubAgreesWithInstall
<1> QED  BY <1>2, <1>3, <1>4, RunGoesOn

(* _fail and _fail_add: the work shown ends together with the run. *)
LEMMA FailKeepsBooks ==
  ASSUME TypeOK, OneWorker, Bookkeeping, NEW r \in RunId,
         runs[r].kind \in Purposes \cup {"deploy"}, runs[r].pc \notin {"tail", "end"},
         \A s \in RunId : Live(s) => s = r, ~cancel.on, cancel' = cancel,
         Fail(r), UNCHANGED <<install, noVpn>>
  PROVE  Bookkeeping'
<1>1. runs[r] \in Run /\ Live(r) /\ RunIsSound(runs[r])
  BY LiveRunOK DEF Bookkeeping, Live, TypeOK, Purposes
<1>2. PICK new : new = [runs[r] EXCEPT !.pc = "end"]
  OBVIOUS
<1>3. runs' = [runs EXCEPT ![r] = new] /\ new.pc = "end" /\ SameRun(new, runs[r])
  BY <1>1, <1>2 DEF Fail, Goto, Continue, SameRun, Run
<1>4. CASE runs[r].kind = "deploy"
  <2>1. phase' = "error" /\ apps' = runs[r].ids /\ adding' = NoAdd
    BY <1>4 DEF Fail, Emit, Purposes
  <2>2. RunIsSound(new)'
    BY <1>1, <1>3, <1>4, <2>1
       DEF SameRun, RunIsSound, DeployIsShown, AddingIsWorkedOn, RunHoldsItsAdding,
           LoginIsQuiet, TailIsAMove, Purposes
  <2>3. WorksOnIt(new)' /\ AddingIsSound' /\ HubAgreesWithInstall'
    BY <2>1 DEF WorksOnIt, AddingIsSound, HubAgreesWithInstall, NoAdd, Purposes
  <2> QED  BY <1>3, <2>2, <2>3, RunGoesOn
<1>5. CASE runs[r].kind \in Purposes
  <2>1. adding # NoAdd /\ phase = "finale"
    BY <1>1, <1>5 DEF RunIsSound, AddingIsWorkedOn, NoAdd, OneWorker, AddingOnAFinale
  <2>2. phase' = phase /\ apps' = apps /\ adding' = [adding EXCEPT !.state = "error"]
    BY <1>5, <2>1 DEF Fail, Emit, Purposes
  <2>3. /\ adding'.app = adding.app /\ adding'.purpose = adding.purpose
        /\ adding'.state = "error" /\ adding'.comps = adding.comps
        /\ adding'.moves = adding.moves
    BY <2>1, <2>2 DEF TypeOK, HubOK, AppAdd
  <2>4. RunIsSound(new)'
    BY <1>1, <1>3, <1>5
       DEF SameRun, RunIsSound, DeployIsShown, AddingIsWorkedOn, RunHoldsItsAdding,
           LoginIsQuiet, TailIsAMove, Purposes
  <2>5. WorksOnIt(new)' /\ AddingIsSound' /\ HubAgreesWithInstall'
    BY <2>1, <2>2, <2>3 DEF Bookkeeping, WorksOnIt, AddingIsSound, HubAgreesWithInstall
  <2> QED  BY <1>3, <2>4, <2>5, RunGoesOn
<1> QED  BY <1>4, <1>5

(* A run that ends without a word leaves no work behind it. *)
LEMMA FinishKeepsBooks ==
  ASSUME TypeOK, Bookkeeping, NEW r \in RunId, runs[r].kind # "none",
         runs[r].kind = "login" \/ runs[r].pc \in {"tail", "end"},
         \A s \in RunId : Live(s) => s = r, ~cancel.on, cancel' = cancel,
         Finish(r), UNCHANGED <<install, hub>>,
         noVpn' = noVpn \/ adding = NoAdd
  PROVE  Bookkeeping'
<1>1. RunIsSound(runs[r]) /\ WorksOnIt(runs[r])
  BY TheRunWorks DEF Bookkeeping, Live
<1>2. PICK new : new = Idle
  OBVIOUS
<1>3. runs' = [runs EXCEPT ![r] = new] /\ new.kind = "none"
  BY <1>2 DEF Finish, Idle
<1>4. WorksOnIt(new)'
  BY <1>1 DEF WorksOnIt, hub, RunIsSound, LoginIsQuiet, TailIsAMove
<1>5. AddingIsSound' /\ HubAgreesWithInstall'
  BY DEF Bookkeeping, AddingIsSound, HubAgreesWithInstall, hub, NoAdd, Purposes
<1> QED  BY <1>3, <1>4, <1>5, RunGoesOn

(* The steps that begin a run and read what the snapshot asks for. *)
LEMMA BeginKeepsBooks ==
  ASSUME ~CancelOverlap, TypeOK, OneWorker, Bookkeeping, NEW r \in RunId,
         BeginDeploy(r) \/ BeginAdd(r) \/ BeginFromDisk(r)
  PROVE  Bookkeeping'
<1>1. /\ runs[r] \in Run /\ runs[r].kind # "none" /\ \A s \in RunId : Live(s) => s = r
      /\ ~cancel.on /\ cancel' = cancel /\ runs[r].pc = "begin" /\ RunIsSound(runs[r])
  BY StepIsAlone DEF RunStep, BeginDeploy, BeginAdd, BeginFromDisk, At, Bookkeeping, Live
<1>2. CASE BeginDeploy(r)
  <2>1. PICK new : new = [runs[r] EXCEPT !.pc = "probe"]
    OBVIOUS
  <2>2. /\ runs' = [runs EXCEPT ![r] = new] /\ SameRun(new, runs[r]) /\ new.pc = "probe"
        /\ phase' = "running" /\ apps' = runs[r].ids /\ adding' = NoAdd
        /\ runs[r].kind = "deploy" /\ install' = install
    BY <1>1, <1>2, <2>1 DEF BeginDeploy, At, Goto, Continue, SameRun, Run, Emit, disk
  <2>3. RunIsSound(new)'
    BY <1>1, <2>2 DEF SameRun, RunIsSound, DeployIsShown, AddingIsWorkedOn,
                      RunHoldsItsAdding, LoginIsQuiet, TailIsAMove, Purposes
  <2>4. WorksOnIt(new)' /\ AddingIsSound' /\ HubAgreesWithInstall'
    BY <2>2 DEF WorksOnIt, AddingIsSound, HubAgreesWithInstall, NoAdd, Purposes, SameRun
  <2> QED  BY <1>1, <2>2, <2>3, <2>4, RunGoesOn
<1>3. CASE BeginAdd(r)
  <2> DEFINE grown == runs[r].ids \cup adding.comps \cup {runs[r].app}
  <2>1. PICK new : new = [runs[r] EXCEPT !.pc = "probe", !.ids = grown,
                            !.comps = adding.comps, !.movers = adding.moves,
                            !.unseat = runs[r].app \in Rider /\ Vpn \in runs[r].ids]
    OBVIOUS
  <2>2. /\ runs' = [runs EXCEPT ![r] = new] /\ install' = grown
        /\ UNCHANGED <<noVpn, phase, apps, adding>> /\ runs[r].kind = "add"
    BY <1>3, <2>1 DEF BeginAdd, At, Continue, hub
  <2>3. /\ new.kind = "add" /\ new.app = runs[r].app /\ new.pc = "probe"
        /\ new.ids = grown /\ new.comps = adding.comps /\ new.movers = adding.moves
        /\ new.unseat = (runs[r].app \in Rider /\ Vpn \in runs[r].ids)
    BY <1>1, <2>1, <2>2 DEF Run
  <2>4. /\ runs[r].ids = install /\ adding.purpose = "add" /\ adding.app = runs[r].app
        /\ adding.state \in {"starting", "wiring"} /\ phase = "finale"
    BY <1>1, <2>2 DEF RunIsSound, AddingIsWorkedOn, RunHoldsItsAdding, Purposes, NoAdd,
                      OneWorker, AddingOnAFinale
  <2>5. apps \subseteq install /\ install \ apps \subseteq adding.comps \cup {adding.app}
    BY <2>4 DEF Bookkeeping, HubAgreesWithInstall
  <2>6. RunIsSound(new)'
    BY <2>2, <2>3, <2>4, <2>5
       DEF RunIsSound, DeployIsShown, AddingIsWorkedOn, RunHoldsItsAdding, LoginIsQuiet,
           TailIsAMove
  <2>7. WorksOnIt(new)' /\ AddingIsSound' /\ HubAgreesWithInstall'
    BY <2>2, <2>3, <2>4, <2>5 DEF Bookkeeping, WorksOnIt, AddingIsSound, HubAgreesWithInstall
  <2> QED  BY <1>1, <2>2, <2>6, <2>7, RunGoesOn
<1>4. CASE BeginFromDisk(r)
  <2>1. /\ runs[r].kind \in {"change_vpn", "restore"} /\ UNCHANGED <<install, noVpn>>
        /\ runs[r].kind \in Purposes
    BY <1>4 DEF BeginFromDisk, At, disk, Purposes
  <2>2. CASE Fail(r)
    BY <1>1, <2>1, <2>2, FailKeepsBooks
  <2>3. CASE ~Fail(r)
    <3>1. PICK new : new = [runs[r] EXCEPT !.pc = "probe", !.ids = install,
                              !.movers = adding.moves, !.unseat = runs[r].kind = "change_vpn"]
      OBVIOUS
    <3>2. runs' = [runs EXCEPT ![r] = new] /\ UNCHANGED <<phase, apps, adding>>
      BY <1>4, <2>3, <3>1 DEF BeginFromDisk, Continue, hub
    <3>3. /\ new.kind = runs[r].kind /\ new.app = runs[r].app /\ new.pc = "probe"
          /\ new.ids = install /\ new.comps = runs[r].comps /\ new.movers = adding.moves
          /\ new.unseat = (runs[r].kind = "change_vpn")
      BY <1>1, <3>1 DEF Run
    <3>4. RunIsSound(new)'
      BY <1>1, <2>1, <3>2, <3>3
         DEF RunIsSound, DeployIsShown, AddingIsWorkedOn, RunHoldsItsAdding, LoginIsQuiet,
             TailIsAMove
    <3>5. WorksOnIt(new)'
      BY <1>1, <3>2, <3>3, TheRunWorks DEF Bookkeeping, WorksOnIt
    <3>6. AddingIsSound' /\ HubAgreesWithInstall'
      BY <2>1, <3>2 DEF Bookkeeping, AddingIsSound, HubAgreesWithInstall
    <3> QED  BY <1>1, <3>2, <3>4, <3>5, <3>6, RunGoesOn
  <2> QED  BY <2>2, <2>3
<1> QED  BY <1>2, <1>3, <1>4

(* The steps between them, down to the last app that is brought up. *)
LEMMA MiddleKeepsBooks ==
  ASSUME ~CancelOverlap, TypeOK, OneWorker, Bookkeeping, NEW r \in RunId,
         \/ ApplyLogins(r) \/ Probe(r) \/ Rewrite(r) \/ ClashFound(r) \/ Prepare(r)
         \/ SelfId(r) \/ StopMover(r) \/ RemoveMover(r) \/ RemoveVpn(r)
         \/ Create(r) \/ StartUp(r) \/ Ready(r) \/ Break(r) \/ BreakLogin(r)
  PROVE  Bookkeeping'
<1>1. /\ runs[r] \in Run /\ runs[r].kind # "none" /\ \A s \in RunId : Live(s) => s = r
      /\ ~cancel.on /\ cancel' = cancel /\ RunIsSound(runs[r])
  BY StepIsAlone DEF RunStep, Bookkeeping, Live
<1>2. /\ runs[r].pc \notin {"begin", "tail", "end"} /\ UNCHANGED <<install, noVpn>>
      /\ runs[r].pc # "wire"
  BY DEF ApplyLogins, Probe, Rewrite, ClashFound, Prepare, SelfId, StopMover, RemoveMover,
         RemoveVpn, Create, StartUp, Ready, Break, BreakLogin, At, disk
<1>3. runs[r].kind # "reconnect"
  BY <1>1, <1>2 DEF RunIsSound, RunHoldsItsAdding
<1>4. runs[r].kind = "login" => runs[r].todo \subseteq Arr
  BY <1>1 DEF RunIsSound, LoginIsQuiet
<1>5. ASSUME NEW pc \in Pcs, Goto(r, pc), pc \notin {"begin", "tail", "end"},
             runs[r].kind = "login" => pc \in {"probe", "self_id", "up", "start", "ready"},
             UNCHANGED <<phase, apps>>,
             adding' = adding \/ (adding # NoAdd /\ adding' = [adding EXCEPT !.ran = TRUE])
      PROVE  Bookkeeping'
  <2>1. PICK new : new = [runs[r] EXCEPT !.pc = pc]
    OBVIOUS
  <2>2. /\ runs' = [runs EXCEPT ![r] = new] /\ new.pc = pc /\ new.todo = runs[r].todo
        /\ SameRun(new, runs[r])
    BY <1>1, <1>5, <2>1 DEF Goto, Continue, SameRun, Run
  <2> QED  BY <1>1, <1>2, <1>3, <1>4, <1>5, <2>2, QuietStep
<1>6. ASSUME NEW pc \in Pcs, NEW todo,
             Continue(r, [runs[r] EXCEPT !.pc = pc, !.todo = todo]),
             pc \notin {"begin", "tail", "end"},
             runs[r].kind = "login" =>
               pc \in {"probe", "self_id", "up", "start", "ready"} /\ todo \subseteq Arr,
             UNCHANGED <<phase, apps>>,
             adding' = adding \/ (adding # NoAdd /\ adding' = [adding EXCEPT !.ran = TRUE])
      PROVE  Bookkeeping'
  <2>1. PICK new : new = [runs[r] EXCEPT !.pc = pc, !.todo = todo]
    OBVIOUS
  <2>2. /\ runs' = [runs EXCEPT ![r] = new] /\ new.pc = pc /\ new.todo = todo
        /\ SameRun(new, runs[r])
    BY <1>1, <1>6, <2>1 DEF Continue, SameRun, Run
  <2> QED  BY <1>1, <1>2, <1>3, <1>6, <2>2, QuietStep
<1>7. ASSUME NextBringUp(r), UNCHANGED hub
      PROVE  Bookkeeping'
  <2> DEFINE rest == runs[r].todo \ {First(runs[r].todo)}
  <2>1. CASE rest = {} /\ runs[r].kind = "login"
    BY <1>1, <1>2, <1>7, <2>1, FinishKeepsBooks DEF NextBringUp
  <2>2. CASE ~(rest = {} /\ runs[r].kind = "login")
    <3>1. Continue(r, [runs[r] EXCEPT !.pc = IF rest = {} THEN "logins" ELSE "up",
                                      !.todo = rest])
      BY <1>7, <2>2 DEF NextBringUp
    <3>2. (IF rest = {} THEN "logins" ELSE "up") \in Pcs /\ rest \subseteq runs[r].todo
      BY DEF Pcs
    <3> HIDE DEF rest
    <3> QED  BY <1>4, <1>6, <1>7, <2>2, <3>1, <3>2 DEF hub
  <2> QED  BY <2>1, <2>2
<1>8. CASE Probe(r) \/ Rewrite(r) \/ StopMover(r) \/ RemoveVpn(r) \/ Create(r) \/ StartUp(r)
  BY <1>5, <1>8
     DEF Probe, Rewrite, StopMover, RemoveVpn, Create, StartUp, hub, At, Purposes, Pcs
<1>9. CASE ApplyLogins(r)
  <2>1. PICK accepted \in SUBSET runs[r].todo :
          IF accepted = {} THEN Finish(r)
          ELSE Continue(r, [runs[r] EXCEPT !.pc = "probe", !.todo = accepted])
    BY <1>9 DEF ApplyLogins
  <2>2. UNCHANGED hub /\ runs[r].kind = "login"
    BY <1>9 DEF ApplyLogins, At
  <2>3. CASE accepted = {}
    BY <1>1, <1>2, <2>1, <2>2, <2>3, FinishKeepsBooks
  <2>4. CASE accepted # {}
    BY <1>4, <1>6, <2>1, <2>2, <2>4 DEF hub, Pcs
  <2> QED  BY <2>3, <2>4
<1>10. CASE ClashFound(r) \/ Break(r)
  BY <1>1, <1>2, <1>10, FailKeepsBooks DEF ClashFound, Break, At, Purposes
<1>11. CASE Prepare(r)
  <2>1. runs[r].kind \in {"deploy", "add"}
    BY <1>11 DEF Prepare, At
  <2>2. CASE Fail(r)
    BY <1>1, <1>2, <2>1, <2>2, FailKeepsBooks DEF Purposes
  <2>3. CASE Goto(r, "self_id") /\ UNCHANGED hub
    BY <1>5, <2>1, <2>3 DEF hub, Pcs
  <2> QED  BY <1>11, <2>2, <2>3 DEF Prepare
<1>12. CASE SelfId(r)
  <2>1. PICK new : new = ToTakeDown(runs[r])
    OBVIOUS
  <2>2. /\ SameRun(new, runs[r]) /\ new.pc \in {"stop", "unseat", "up"}
        /\ runs[r].kind = "login" => new.pc = "up" /\ new.todo = runs[r].todo
    BY <1>1, <2>1 DEF ToTakeDown, ToBringUp, BringUps, SameRun, Run, Purposes, RunIsSound,
                      LoginIsQuiet
  <2>3. /\ runs' = [runs EXCEPT ![r] = new] /\ UNCHANGED <<phase, apps>>
        /\ adding' = adding \/ (adding # NoAdd /\ adding' = [adding EXCEPT !.ran = TRUE])
    BY <1>12, <2>1 DEF SelfId, Continue
  <2> QED  BY <1>1, <1>2, <1>3, <1>4, <2>2, <2>3, QuietStep
<1>13. CASE RemoveMover(r)
  <2> DEFINE rest == runs[r].todo \ {Last(runs[r].todo)}
  <2>1. UNCHANGED hub /\ runs[r].kind \in Purposes
    BY <1>13 DEF RemoveMover, At
  <2>2. CASE rest = {}
    <3>1. PICK new : new = ToBringUp(runs[r])
      OBVIOUS
    <3>2. SameRun(new, runs[r]) /\ new.pc \in {"unseat", "up"}
      BY <1>1, <3>1 DEF ToBringUp, SameRun, Run
    <3>3. runs' = [runs EXCEPT ![r] = new]
      BY <1>13, <2>2, <3>1 DEF RemoveMover, Continue
    <3> QED  BY <1>1, <1>2, <1>3, <2>1, <3>2, <3>3, QuietStep DEF hub, Purposes
  <2>3. CASE rest # {}
    <3>1. Continue(r, [runs[r] EXCEPT !.pc = "stop", !.todo = rest])
      BY <1>13, <2>3 DEF RemoveMover
    <3> HIDE DEF rest
    <3> QED  BY <1>6, <2>1, <3>1 DEF hub, Pcs, Purposes
  <2> QED  BY <2>2, <2>3
<1>14. CASE Ready(r)
  BY <1>7, <1>14 DEF Ready
<1>15. CASE BreakLogin(r)
  <2>1. CASE Finish(r)
    BY <1>1, <1>2, <1>15, <2>1, FinishKeepsBooks DEF BreakLogin
  <2>2. CASE NextBringUp(r)
    BY <1>7, <1>15, <2>2 DEF BreakLogin
  <2> QED  BY <1>15, <2>1, <2>2 DEF BreakLogin
<1> QED
  BY <1>8, <1>9, <1>10, <1>11, <1>12, <1>13, <1>14, <1>15

(* The last steps of a run: what was brought is folded into the Hub. *)
LEMMA EndKeepsBooks ==
  ASSUME ~CancelOverlap, TypeOK, OneWorker, Bookkeeping, NEW r \in RunId,
         PutLogins(r) \/ Wire(r) \/ ClearConfirmation(r) \/ End(r)
  PROVE  Bookkeeping'
<1>1. /\ runs[r] \in Run /\ runs[r].kind # "none" /\ \A s \in RunId : Live(s) => s = r
      /\ ~cancel.on /\ cancel' = cancel /\ RunIsSound(runs[r]) /\ WorksOnIt(runs[r])
  BY StepIsAlone, TheRunWorks DEF RunStep, Bookkeeping, Live
<1>2. adding # NoAdd => phase = "finale"
  BY DEF OneWorker, AddingOnAFinale
<1>3. CASE PutLogins(r)
  <2>1. PICK new : new = [runs[r] EXCEPT !.pc = "wire"]
    OBVIOUS
  <2>2. /\ runs' = [runs EXCEPT ![r] = new] /\ SameRun(new, runs[r]) /\ new.pc = "wire"
        /\ UNCHANGED <<install, noVpn>> /\ runs[r].pc = "logins"
        /\ runs[r].kind \in Purposes \cup {"deploy"}
    BY <1>1, <1>3, <2>1 DEF PutLogins, At, Goto, Continue, SameRun, Run, disk
  <2>3. CASE runs[r].kind = "deploy"
    <3>1. phase' = "wiring" /\ apps' = runs[r].ids /\ adding' = NoAdd
      BY <1>3, <2>3 DEF PutLogins, Emit, Purposes
    <3>2. RunIsSound(new)'
      BY <1>1, <2>2, <2>3, <3>1
         DEF SameRun, RunIsSound, DeployIsShown, AddingIsWorkedOn, RunHoldsItsAdding,
             LoginIsQuiet, TailIsAMove, Purposes
    <3>3. WorksOnIt(new)' /\ AddingIsSound' /\ HubAgreesWithInstall'
      BY <2>2, <2>3, <3>1
         DEF WorksOnIt, AddingIsSound, HubAgreesWithInstall, NoAdd, Purposes, SameRun
    <3> QED  BY <1>1, <2>2, <3>2, <3>3, RunGoesOn
  <2>4. CASE runs[r].kind \in Purposes
    <3>1. adding # NoAdd
      BY <1>1, <2>2, <2>4 DEF RunIsSound, AddingIsWorkedOn, NoAdd
    <3>2. phase' = phase /\ apps' = apps /\ adding' = [adding EXCEPT !.state = "wiring"]
      BY <1>3, <2>4, <3>1 DEF PutLogins, Emit, Purposes
    <3>3. /\ adding'.app = adding.app /\ adding'.purpose = adding.purpose
          /\ adding'.state = "wiring" /\ adding'.comps = adding.comps
          /\ adding'.moves = adding.moves
      BY <3>1, <3>2 DEF TypeOK, HubOK, AppAdd
    <3>4. RunIsSound(new)'
      BY <1>1, <2>2, <2>4, <3>2, <3>3
         DEF SameRun, RunIsSound, DeployIsShown, AddingIsWorkedOn, RunHoldsItsAdding,
             LoginIsQuiet, TailIsAMove, Purposes
    <3>5. AddingIsSound' /\ HubAgreesWithInstall'
      BY <2>2, <3>2, <3>3 DEF Bookkeeping, AddingIsSound, HubAgreesWithInstall
    <3>6. WorksOnIt(new)'
      BY <1>1, <1>2, <2>2, <2>4, <3>1, <3>2, <3>3
         DEF WorksOnIt, SameRun, RunIsSound, AddingIsWorkedOn
    <3> QED  BY <1>1, <2>2, <3>4, <3>5, <3>6, RunGoesOn
  <2> QED  BY <2>2, <2>3, <2>4
<1>4. CASE Wire(r)
  <2> DEFINE pc == IF runs[r].kind = "add" /\ runs[r].movers # {} THEN "tail" ELSE "end"
  <2>1. PICK new : new = [runs[r] EXCEPT !.pc = pc]
    OBVIOUS
  <2>2. /\ runs' = [runs EXCEPT ![r] = new] /\ SameRun(new, runs[r]) /\ new.pc = pc
        /\ UNCHANGED <<install, noVpn>> /\ runs[r].pc = "wire" /\ adding' = NoAdd
        /\ runs[r].kind \in Purposes \cup {"deploy"}
    BY <1>1, <1>4, <2>1 DEF Wire, At, Goto, Continue, SameRun, Run, disk, Emit
  <2>3. AddingIsSound'
    BY <2>2 DEF AddingIsSound, NoAdd, Purposes
  <2>4. CASE runs[r].kind = "deploy"
    <3>1. phase' = "finale" /\ apps' = install
      BY <1>1, <1>4, <2>4 DEF Wire, Emit, RunIsSound, DeployIsShown
    <3>2. RunIsSound(new)'
      BY <1>1, <2>2, <2>4, <3>1
         DEF SameRun, RunIsSound, DeployIsShown, AddingIsWorkedOn, RunHoldsItsAdding,
             LoginIsQuiet, TailIsAMove, Purposes
    <3>3. WorksOnIt(new)' /\ HubAgreesWithInstall'
      BY <2>2, <3>1 DEF WorksOnIt, HubAgreesWithInstall, NoAdd
    <3> QED  BY <1>1, <2>2, <2>3, <3>2, <3>3, RunGoesOn
  <2>5. CASE runs[r].kind \in Purposes
    <3>1. /\ adding # NoAdd /\ phase = "finale"
          /\ adding.purpose = runs[r].kind /\ adding.app = runs[r].app
      BY <1>1, <1>2, <2>2, <2>5 DEF RunIsSound, AddingIsWorkedOn, NoAdd
    <3>2. phase' = phase /\ apps' = apps \cup runs[r].comps \cup {runs[r].app}
      BY <1>4, <2>5 DEF Wire, Emit, Purposes
    <3>3. install = apps'
      <4>1. CASE runs[r].kind = "add"
        BY <1>1, <2>2, <3>2, <4>1 DEF RunIsSound, RunHoldsItsAdding
      <4>2. CASE runs[r].kind \in Purposes \ {"add"}
        <5>1. runs[r].comps = {} /\ adding.app \in apps /\ adding.comps = {}
          BY <1>1, <3>1, <4>2
             DEF RunIsSound, RunHoldsItsAdding, Bookkeeping, AddingIsSound, Purposes
        <5> QED  BY <3>1, <3>2, <5>1 DEF Bookkeeping, HubAgreesWithInstall
      <4> QED  BY <2>5, <4>1, <4>2
    <3>4. new.pc = "tail" => new.kind = "add" /\ Vpn \in apps'
      <4> SUFFICES ASSUME new.pc = "tail"
                   PROVE  new.kind = "add" /\ Vpn \in apps'
        OBVIOUS
      <4>1. runs[r].kind = "add" /\ runs[r].movers # {}
        BY <2>2
      <4>2. adding.app = Vpn
        BY <1>1, <2>2, <3>1, <4>1
           DEF RunIsSound, RunHoldsItsAdding, Bookkeeping, AddingIsSound
      <4> QED  BY <2>2, <3>1, <3>2, <4>1, <4>2 DEF SameRun
    <3>5. RunIsSound(new)'
      BY <1>1, <2>2, <2>5, <3>1, <3>2, <3>4
         DEF SameRun, RunIsSound, DeployIsShown, AddingIsWorkedOn, RunHoldsItsAdding,
             LoginIsQuiet, TailIsAMove, Purposes
    <3>6. WorksOnIt(new)' /\ HubAgreesWithInstall'
      BY <2>2, <3>1, <3>2, <3>3 DEF WorksOnIt, HubAgreesWithInstall, NoAdd
    <3> QED  BY <1>1, <2>2, <2>3, <3>5, <3>6, RunGoesOn
  <2> QED  BY <2>2, <2>4, <2>5
<1>5. CASE ClearConfirmation(r)
  <2>1. runs[r].pc = "tail" /\ adding = NoAdd
    BY <1>1, <1>5 DEF ClearConfirmation, At, RunIsSound, TailIsAMove
  <2> QED  BY <1>1, <1>5, <2>1, FinishKeepsBooks DEF ClearConfirmation
<1>6. CASE End(r)
  BY <1>1, <1>6, FinishKeepsBooks DEF End, At, disk
<1> QED  BY <1>3, <1>4, <1>5, <1>6

(* A request that starts a run finds none. *)
LEMMA LaunchKeepsBooks ==
  ASSUME TypeOK, NEW run, Launch(run), \A s \in RunId : ~Live(s),
         RunIsSound(run)', WorksOnIt(run)', AddingIsSound', HubAgreesWithInstall',
         CancelIsSound'
  PROVE  Bookkeeping'
<1> DEFINE free == CHOOSE s \in RunId : ~Live(s)
<1>1. PICK r \in RunId : r = free
  BY DEF Launch
<1>2. runs' = [runs EXCEPT ![r] = run]
  BY <1>1 DEF Launch
<1>3. runs'[r] = run /\ \A s \in RunId \ {r} : runs'[s] = runs[s]
  BY <1>2 DEF TypeOK, TasksOK
<1>4. \A s \in RunId : Live(s)' => RunIsSound(runs[s])'
  BY <1>3 DEF Live
<1>5. WorkHasAWorker'
  BY <1>3 DEF WorkHasAWorker, WorksOnIt
<1> QED  BY <1>4, <1>5 DEF Bookkeeping

(* What a new run has to be for what the snapshot shows. *)
LEMMA NothingIsShownIdle ==
  ASSUME TypeOK, WorkHasAWorker, \A s \in RunId : ~Live(s)
  PROVE  /\ phase \notin {"running", "wiring"}
         /\ adding.state \notin {"starting", "wiring"}
<1>1. adding.state \in {"starting", "wiring"} => adding.purpose # "none"
  BY DEF TypeOK, HubOK, AppAdd, NoAdd, Purposes
<1> QED  BY <1>1 DEF WorkHasAWorker, Live

(* A new run is at its beginning, with nothing remembered yet.                *)
LEMMA NewRunFields ==
  ASSUME NEW kind, NEW a, NEW ids, NEW run, run = NewRun(kind, a, ids)
  PROVE  /\ run.kind = kind /\ run.app = a /\ run.ids = ids /\ run.pc = "begin"
         /\ run.comps = {} /\ run.movers = {} /\ ~run.unseat
BY DEF NewRun, Idle

(* Where nothing is under way, the Hub's posters are the install. *)
LEMMA TheFreeHub ==
  ASSUME TypeOK, HubAgreesWithInstall, phase = "finale", adding = NoAdd
  PROVE  apps = install
<1>1. adding.app = NoApp /\ adding.comps = {}
  BY DEF NoAdd
<1>2. install \subseteq App /\ NoApp \notin App
  BY CatalogAssumption DEF TypeOK, DiskOK
<1> QED  BY <1>1, <1>2 DEF HubAgreesWithInstall

(* The requests of the Hub that begin an add, a reconnect or a change of VPN. *)
LEMMA HubRequestKeepsBooks ==
  ASSUME TypeOK, OneWorker, Bookkeeping,
         (\E a \in App : AddApp(a) \/ Reconnect(a)) \/ (\E changed \in BOOLEAN : ChangeVpn(changed))
  PROVE  Bookkeeping'
<1>1. /\ phase = "finale" /\ phase' = phase /\ apps' = apps /\ install' = install
      /\ noVpn' = noVpn /\ install # {} /\ ~IsRunning /\ adding = NoAdd /\ ~cancel.on
      /\ cancel' = cancel
  BY DEF AddApp, Reconnect, ChangeVpn, HubIsFree, Emit, disk, OneWorker, CancelIsAlone
<1>2. \A s \in RunId : ~Live(s)
  BY <1>1, NobodyWorks
<1>3. apps = install
  BY <1>1, TheFreeHub DEF Bookkeeping
<1>4. HubAgreesWithInstall' /\ CancelIsSound'
  BY <1>1, <1>3 DEF HubAgreesWithInstall, CancelIsSound
<1>5. ASSUME NEW a \in App, AddApp(a)
      PROVE  Bookkeeping'
  <2>1. PICK run : run = NewRun("add", a, install)
    OBVIOUS
  <2>2. /\ Launch(run)
        /\ run.kind = "add" /\ run.app = a /\ run.pc = "begin" /\ run.ids = install
    <3>1. Launch(run)
      BY <1>5, <2>1 DEF AddApp
    <3> QED  BY <2>1, <3>1, NewRunFields
  <2>3. /\ adding'.purpose = "add" /\ adding'.state = "starting" /\ adding'.app = a
        /\ adding'.comps = CompanionsFor(a, apps, noVpn) /\ a \notin apps
        /\ adding'.moves = IF a = Vpn THEN RidersOf(apps) ELSE {}
    BY <1>5 DEF AddApp, Emit, NewAdding
  <2>4. AddingIsSound'
    BY <1>1, <2>3 DEF AddingIsSound, CompanionsFor, Purposes
  <2>5. RunIsSound(run)' /\ WorksOnIt(run)'
    BY <1>1, <2>2, <2>3 DEF RunIsSound, DeployIsShown, AddingIsWorkedOn, RunHoldsItsAdding,
                            LoginIsQuiet, TailIsAMove, WorksOnIt
  <2> QED  BY <1>2, <1>4, <2>2, <2>4, <2>5, LaunchKeepsBooks
<1>6. ASSUME NEW a \in App, Reconnect(a)
      PROVE  Bookkeeping'
  <2>1. PICK run : run = [NewRun("reconnect", a, install) EXCEPT !.pc = "wire"]
    OBVIOUS
  <2>2. /\ Launch(run) /\ run.kind = "reconnect" /\ run.app = a /\ run.pc = "wire"
        /\ run.comps = {}
    <3>1. Launch(run)
      BY <1>6, <2>1 DEF Reconnect
    <3> QED  BY <2>1, <3>1 DEF NewRun, Idle
  <2>3. /\ adding'.purpose = "reconnect" /\ adding'.state = "wiring" /\ adding'.app = a
        /\ adding'.comps = {} /\ adding'.moves = {} /\ a \in apps
    BY <1>6 DEF Reconnect, Emit, NewAdding
  <2>4. AddingIsSound'
    BY <1>1, <2>3 DEF AddingIsSound, Purposes
  <2>5. RunIsSound(run)' /\ WorksOnIt(run)'
    BY <1>1, <2>2, <2>3 DEF RunIsSound, DeployIsShown, AddingIsWorkedOn, RunHoldsItsAdding,
                            LoginIsQuiet, TailIsAMove, WorksOnIt
  <2> QED  BY <1>2, <1>4, <2>2, <2>4, <2>5, LaunchKeepsBooks
<1>7. ASSUME NEW changed \in BOOLEAN, ChangeVpn(changed)
      PROVE  Bookkeeping'
  <2>1. PICK run : run = NewRun("change_vpn", Vpn, {})
    OBVIOUS
  <2>2. /\ Launch(run) /\ run.kind = "change_vpn" /\ run.app = Vpn /\ run.pc = "begin"
        /\ run.comps = {}
    <3>1. Launch(run)
      BY <1>7, <2>1 DEF ChangeVpn
    <3> QED  BY <2>1, <3>1, NewRunFields
  <2>3. /\ adding'.purpose = "change_vpn" /\ adding'.state = "starting" /\ adding'.app = Vpn
        /\ adding'.comps = {} /\ adding'.moves = RidersOf(apps) /\ Vpn \in apps
    BY <1>7 DEF ChangeVpn, Emit, NewAdding
  <2>4. AddingIsSound'
    BY <1>1, <2>3 DEF AddingIsSound, Purposes
  <2>5. RunIsSound(run)' /\ WorksOnIt(run)'
    BY <1>1, <2>2, <2>3 DEF RunIsSound, DeployIsShown, AddingIsWorkedOn, RunHoldsItsAdding,
                            LoginIsQuiet, TailIsAMove, WorksOnIt
  <2> QED  BY <1>2, <1>4, <2>2, <2>4, <2>5, LaunchKeepsBooks
<1> QED  BY <1>5, <1>6, <1>7

(* The other requests that begin a run.                                       *)
LEMMA OtherRunKeepsBooks ==
  ASSUME ~CancelOverlap, TypeOK, OneWorker, Bookkeeping,
         Start \/ ApplyLogin \/ \E changed \in BOOLEAN : RetryAdd(changed)
  PROVE  Bookkeeping'
<1>1. /\ install # {} /\ ~IsRunning /\ ~cancel.on /\ cancel' = cancel
      /\ UNCHANGED <<install, noVpn, phase, apps>>
  BY DEF Start, ApplyLogin, RetryAdd, Undisturbed, Emit, disk, hub
<1>2. /\ \A s \in RunId : ~Live(s)
      /\ phase \notin {"running", "wiring"} /\ adding.state \notin {"starting", "wiring"}
  BY <1>1, NobodyWorks, NothingIsShownIdle DEF Bookkeeping
<1>3. CancelIsSound'
  BY <1>1 DEF CancelIsSound
<1>4. CASE Start
  <2>1. PICK run : run = NewRun("deploy", NoApp, install)
    OBVIOUS
  <2>2. /\ Launch(run) /\ run.kind = "deploy" /\ run.pc = "begin" /\ run.ids = install
        /\ UNCHANGED adding
    <3>1. Launch(run) /\ UNCHANGED adding
      BY <1>4, <2>1 DEF Start, hub
    <3> QED  BY <2>1, <3>1, NewRunFields
  <2>3. RunIsSound(run)' /\ WorksOnIt(run)'
    BY <1>1, <1>2, <2>2 DEF RunIsSound, DeployIsShown, AddingIsWorkedOn, RunHoldsItsAdding,
                            LoginIsQuiet, TailIsAMove, WorksOnIt, Purposes
  <2>4. AddingIsSound' /\ HubAgreesWithInstall'
    BY <1>1, <2>2 DEF Bookkeeping, AddingIsSound, HubAgreesWithInstall
  <2> QED  BY <1>2, <1>3, <2>2, <2>3, <2>4, LaunchKeepsBooks
<1>5. CASE ApplyLogin
  <2>1. PICK targets \in SUBSET (apps \cap Arr) :
          Launch([NewRun("login", NoApp, install) EXCEPT !.pc = "apply", !.todo = targets])
    BY <1>5 DEF ApplyLogin
  <2>2. PICK run : run = [NewRun("login", NoApp, install) EXCEPT !.pc = "apply", !.todo = targets]
    OBVIOUS
  <2>3. /\ Launch(run) /\ run.kind = "login" /\ run.pc = "apply" /\ run.todo \subseteq Arr
        /\ run.movers = {} /\ ~run.unseat /\ UNCHANGED adding /\ phase = "finale"
    <3>1. Launch(run) /\ UNCHANGED adding /\ phase = "finale"
      BY <1>5, <2>1, <2>2 DEF ApplyLogin, hub
    <3> QED  BY <2>2, <3>1 DEF NewRun, Idle
  <2>4. RunIsSound(run)' /\ WorksOnIt(run)'
    BY <1>1, <1>2, <2>3 DEF RunIsSound, DeployIsShown, AddingIsWorkedOn, RunHoldsItsAdding,
                            LoginIsQuiet, TailIsAMove, WorksOnIt, Purposes
  <2>5. AddingIsSound' /\ HubAgreesWithInstall'
    BY <1>1, <2>3 DEF Bookkeeping, AddingIsSound, HubAgreesWithInstall
  <2> QED  BY <1>2, <1>3, <2>3, <2>4, <2>5, LaunchKeepsBooks
<1>6. CASE \E changed \in BOOLEAN : RetryAdd(changed)
  <2>1. PICK changed \in BOOLEAN : RetryAdd(changed)
    BY <1>6
  <2>2. PICK run : run = NewRun(adding.purpose, adding.app,
                                IF adding.purpose = "add" THEN install ELSE {})
    OBVIOUS
  <2>3. adding \in AppAdd
    BY <2>1 DEF RetryAdd, TypeOK, HubOK, NoAdd
  <2>4. /\ Launch(run) /\ run.kind = adding.purpose /\ run.pc = "begin"
        /\ run.app = adding.app /\ run.comps = {}
        /\ adding.purpose = "add" => run.ids = install
        /\ adding.purpose # "reconnect" /\ adding.state = "error"
    <3>1. Launch(run) /\ adding.purpose # "reconnect" /\ adding.state = "error"
      BY <2>1, <2>2 DEF RetryAdd
    <3>2. /\ run.kind = adding.purpose /\ run.pc = "begin" /\ run.app = adding.app
          /\ run.comps = {}
          /\ run.ids = IF adding.purpose = "add" THEN install ELSE {}
      BY <2>2, NewRunFields
    <3> QED  BY <3>1, <3>2
  <2>5. /\ adding'.app = adding.app /\ adding'.purpose = adding.purpose
        /\ adding'.state = "starting" /\ adding'.comps = adding.comps
        /\ adding'.moves = adding.moves
    BY <2>1, <2>3 DEF RetryAdd, Emit, AppAdd
  <2>6. RunIsSound(run)' /\ WorksOnIt(run)'
    BY <1>1, <1>2, <2>3, <2>4, <2>5
       DEF RunIsSound, DeployIsShown, AddingIsWorkedOn, RunHoldsItsAdding,
           LoginIsQuiet, TailIsAMove, WorksOnIt, Purposes, AppAdd
  <2>7. AddingIsSound' /\ HubAgreesWithInstall'
    BY <1>1, <2>5 DEF Bookkeeping, AddingIsSound, HubAgreesWithInstall
  <2> QED  BY <1>2, <1>3, <2>4, <2>6, <2>7, LaunchKeepsBooks
<1> QED  BY <1>4, <1>5, <1>6

(* The requests that start no run. *)
LEMMA QuietRequestKeepsBooks ==
  ASSUME ~SecondTab, TypeOK, OneWorker, Bookkeeping,
         \/ \E a \in App : Disconnect(a)
         \/ ChooseApps \/ ConfirmInWizard \/ AnswerVpnQuestions
         \/ \E S \in WizardChoices : SaveChoices(S)
         \/ ConfirmOnHub \/ UndoConfirmation
  PROVE  Bookkeeping'
<1>1. UNCHANGED <<runs, cancel>>
  BY DEF Disconnect, ChooseApps, ConfirmInWizard, AnswerVpnQuestions, SaveChoices,
         ConfirmOnHub, UndoConfirmation, tasks
<1>2. CASE \E a \in App : Disconnect(a)
  <2>1. PICK a \in App : Disconnect(a)
    BY <1>2
  <2>2. /\ adding = NoAdd /\ adding' = NoAdd /\ phase' = phase /\ ~IsRunning
        /\ install' = install \ {a} /\ apps' = ShownApps \ {a}
    BY <2>1 DEF Disconnect
  <2>3. \A s \in RunId : ~Live(s) /\ ~Live(s)'
    BY <1>1, <2>2, NobodyWorks DEF Live
  <2>4. phase \notin {"running", "wiring"} /\ ~cancel.on
    BY <2>2, <2>3, NothingIsShownIdle
       DEF Bookkeeping, OneWorker, CancelIsAlone
  <2>5. HubAgreesWithInstall'
    BY <2>2 DEF Bookkeeping, HubAgreesWithInstall, ShownApps
  <2> QED  BY <1>1, <2>2, <2>3, <2>4, <2>5
           DEF Bookkeeping, AddingIsSound, WorkHasAWorker, CancelIsSound, NoAdd, Purposes
<1>3. CASE ChooseApps \/ ConfirmInWizard \/ \E S \in WizardChoices : SaveChoices(S)
  <2>1. /\ phase # "finale" /\ ~IsRunning
        /\ UNCHANGED <<phase, adding>> \/ (phase' = "ready" /\ adding' = NoAdd)
    BY <1>3 DEF ChooseApps, ConfirmInWizard, SaveChoices, WizardOpen, Emit, hub
  <2>2. adding = NoAdd /\ adding' = NoAdd /\ ~cancel.on
    BY <2>1 DEF OneWorker, AddingOnAFinale, CancelIsAlone
  <2>3. \A s \in RunId : ~Live(s) /\ ~Live(s)'
    BY <1>1, <2>1, NobodyWorks DEF Live
  <2>4. phase' \notin {"running", "wiring", "finale"}
    BY <2>1, <2>3, NothingIsShownIdle DEF Bookkeeping
  <2> QED  BY <1>1, <2>2, <2>3, <2>4
           DEF Bookkeeping, AddingIsSound, WorkHasAWorker, CancelIsSound, NoAdd, Purposes,
               HubAgreesWithInstall
<1>4. CASE AnswerVpnQuestions
  BY <1>1, <1>4
     DEF AnswerVpnQuestions, Bookkeeping, AddingIsSound, WorkHasAWorker, CancelIsSound,
         HubAgreesWithInstall, RunIsSound, DeployIsShown, AddingIsWorkedOn,
         RunHoldsItsAdding, LoginIsQuiet, TailIsAMove, Live, disk, hub
<1>5. CASE ConfirmOnHub \/ UndoConfirmation
  <2>1. adding = NoAdd /\ UNCHANGED <<install, hub>> /\ ~cancel.on
    BY <1>5 DEF ConfirmOnHub, UndoConfirmation, OneWorker, CancelIsAlone
  <2>2. AddingIsSound' /\ CancelIsSound'
    BY <1>1, <2>1 DEF AddingIsSound, CancelIsSound, NoAdd, Purposes, hub
  <2> QED  BY <1>1, <2>1, <2>2
           DEF Bookkeeping, WorkHasAWorker, HubAgreesWithInstall, RunIsSound, DeployIsShown,
               AddingIsWorkedOn, RunHoldsItsAdding, LoginIsQuiet, TailIsAMove, Live, hub
<1> QED  BY <1>2, <1>3, <1>4, <1>5

(* Cancel puts back the Hub it found, or leaves the downloader to a restore. *)
LEMMA CancelKeepsBooks ==
  ASSUME ~CancelOverlap, TypeOK, OneWorker, Bookkeeping,
         CancelAdd \/ CancelRemove \/ CancelFails \/ CancelFinish
  PROVE  Bookkeeping'
<1>1. /\ noVpn' = noVpn /\ phase' = phase /\ apps' = apps
      /\ ~IsRunning /\ adding.state = "error" /\ adding.purpose = "add"
      /\ phase = "finale" /\ adding \in AppAdd
  <2>1. noVpn' = noVpn /\ phase' = phase /\ apps' = apps
    BY DEF CancelAdd, CancelRemove, CancelFails, CancelFinish, Emit, disk, hub
  <2>2. ~IsRunning /\ adding.state = "error" /\ adding.purpose = "add"
    BY DEF CancelAdd, CancelRemove, CancelFails, CancelFinish, OneWorker, CancelIsAlone,
           Bookkeeping, CancelIsSound
  <2> QED  BY <2>1, <2>2 DEF NoAdd, OneWorker, AddingOnAFinale, TypeOK, HubOK
<1>2. \A s \in RunId : ~Live(s)
  BY <1>1, NobodyWorks
<1>3. CASE CancelAdd \/ CancelRemove
  <2>1. UNCHANGED <<install, adding, runs>>
    BY <1>3 DEF CancelAdd, CancelRemove, disk, hub
  <2>2. CancelIsSound'
    <3>1. CASE CancelAdd
      BY <1>1, <2>1, <3>1 DEF CancelAdd, CancelIsSound, Brought
    <3>2. CASE CancelRemove
      BY <1>1, <2>1, <3>2 DEF CancelRemove, Bookkeeping, CancelIsSound, Brought, TypeOK, CancelOK
    <3> QED  BY <1>3, <3>1, <3>2
  <2> QED  BY <1>1, <1>2, <2>1, <2>2
           DEF Bookkeeping, AddingIsSound, WorkHasAWorker, HubAgreesWithInstall, Live
<1>4. CASE CancelFails
  <2>1. adding' = adding /\ UNCHANGED <<install, runs>> /\ ~cancel'.on
    BY <1>4 DEF CancelFails, Emit, NoCancel, Bookkeeping, CancelIsSound, disk
  <2> QED  BY <1>1, <1>2, <2>1
           DEF Bookkeeping, AddingIsSound, WorkHasAWorker, HubAgreesWithInstall, CancelIsSound, Live
<1>5. CASE CancelFinish
  <2>1. /\ cancel.rec = adding /\ ~cancel'.on /\ install' = install \ Brought(adding)
        /\ adding.moves # {} => noVpn
    BY <1>5 DEF CancelFinish, NoCancel, Bookkeeping, CancelIsSound
  <2>2. install' = apps
    <3>1. apps \subseteq install /\ install \ apps \subseteq adding.comps \cup {adding.app}
      BY <1>1 DEF Bookkeeping, HubAgreesWithInstall
    <3>2. Brought(adding) = adding.comps \cup {adding.app}
      BY <1>1, CatalogAssumption DEF Brought, AppAdd
    <3>3. Brought(adding) \cap apps = {}
      BY <1>1, <3>2 DEF Bookkeeping, AddingIsSound
    <3> QED  BY <2>1, <3>1, <3>2, <3>3
  <2>3. HubAgreesWithInstall' /\ CancelIsSound'
    BY <1>1, <2>1, <2>2 DEF HubAgreesWithInstall, CancelIsSound
  <2>4. CASE adding.moves = {}
    <3>1. adding' = NoAdd /\ UNCHANGED runs
      BY <1>5, <2>1, <2>4 DEF CancelFinish, Emit
    <3> QED  BY <1>1, <1>2, <2>3, <3>1
             DEF Bookkeeping, AddingIsSound, WorkHasAWorker, NoAdd, Purposes, Live
  <2>5. CASE adding.moves # {}
    <3>1. adding.app = Vpn /\ adding.moves = RidersOf(apps) /\ Vpn \notin apps
      BY <1>1, <2>5 DEF Bookkeeping, AddingIsSound
    <3>2. PICK a : a = First(adding.moves)
      OBVIOUS
    <3>3. a \in adding.moves /\ a \in apps
      BY <1>1, <2>5, <3>1, <3>2, FirstIsMember DEF AppAdd, RidersOf
    <3>4. PICK run : run = NewRun("restore", a, {})
      OBVIOUS
    <3>5. Launch(run) /\ adding' = NewAdding(a, "restore", "starting", TRUE, {}, adding.moves)
      BY <1>5, <2>1, <2>5, <3>2, <3>4 DEF CancelFinish, Emit
    <3>6. /\ run.kind = "restore" /\ run.app = a /\ run.pc = "begin" /\ run.comps = {}
      BY <3>4, NewRunFields
    <3>7. /\ adding'.purpose = "restore" /\ adding'.state = "starting" /\ adding'.app = a
          /\ adding'.comps = {} /\ adding'.moves = adding.moves
      BY <3>5 DEF NewAdding
    <3>8. AddingIsSound'
      BY <1>1, <2>1, <2>5, <3>1, <3>3, <3>7 DEF AddingIsSound, Purposes
    <3>9. RunIsSound(run)' /\ WorksOnIt(run)'
      BY <1>1, <2>2, <3>3, <3>6, <3>7
         DEF RunIsSound, DeployIsShown, AddingIsWorkedOn, RunHoldsItsAdding,
             LoginIsQuiet, TailIsAMove, WorksOnIt, Purposes
    <3> QED  BY <1>2, <2>3, <3>5, <3>8, <3>9, LaunchKeepsBooks
  <2> QED  BY <2>4, <2>5
<1> QED  BY <1>3, <1>4, <1>5

(* What was under way when the program went down is taken up again. *)
LEMMA ResumedIsTheSame ==
  ASSUME TypeOK, OneWorker, Bookkeeping
  PROVE  /\ phase \in {"running", "wiring"} => Resumed = NewRun("deploy", NoApp, install)
         /\ adding.state \in {"starting", "wiring"} =>
              /\ Resumed.kind = adding.purpose /\ Resumed.app = adding.app
              /\ Resumed.pc = IF adding.purpose = "reconnect" THEN "wire" ELSE "begin"
              /\ Resumed.comps = {} /\ adding \in AppAdd
              /\ adding.purpose = "add" => Resumed.ids = install
         /\ phase \notin {"running", "wiring"} /\ adding.state \notin {"starting", "wiring"} =>
              Resumed = Idle
         /\ phase \in {"running", "wiring"} => install # {} /\ adding.state = "none"
         /\ adding.state \in {"starting", "wiring"} => install # {} /\ phase = "finale"
<1>1. adding.state \in {"starting", "wiring"} => phase = "finale" /\ adding \in AppAdd
  BY DEF OneWorker, AddingOnAFinale, NoAdd, TypeOK, HubOK
<1>2. phase \in {"running", "wiring"} => adding.state = "none"
  BY DEF OneWorker, AddingOnAFinale, NoAdd
<1>3. phase \in {"running", "wiring"} => install # {}
  BY DEF Bookkeeping, WorkHasAWorker, RunIsSound, DeployIsShown, Live
<1>4. adding.state \in {"starting", "wiring"} => install # {}
  <2> SUFFICES ASSUME adding.state \in {"starting", "wiring"}
               PROVE  install # {}
    OBVIOUS
  <2>1. PICK s \in RunId : runs[s].kind = adding.purpose /\ runs[s].pc \notin {"tail", "end"}
    BY DEF Bookkeeping, WorkHasAWorker
  <2>2. runs[s].kind \in Purposes /\ Live(s)
    BY <1>1, <2>1 DEF AppAdd, Live, Purposes
  <2> QED  BY <2>1, <2>2 DEF Bookkeeping, RunIsSound, AddingIsWorkedOn
<1>5. ASSUME adding.state \in {"starting", "wiring"}
      PROVE  /\ Resumed.kind = adding.purpose /\ Resumed.app = adding.app
             /\ Resumed.pc = IF adding.purpose = "reconnect" THEN "wire" ELSE "begin"
             /\ Resumed.comps = {}
             /\ adding.purpose = "add" => Resumed.ids = install
  <2>1. adding.purpose \in Purposes
    BY <1>1, <1>5 DEF AppAdd
  <2>2. CASE adding.purpose = "add"
    BY <1>1, <1>4, <1>5, <2>2 DEF Resumed, NewRun, Idle
  <2>3. CASE adding.purpose = "reconnect"
    BY <1>1, <1>4, <1>5, <2>3 DEF Resumed, NewRun, Idle
  <2>4. CASE adding.purpose \notin {"add", "reconnect"}
    BY <1>1, <1>4, <1>5, <2>4 DEF Resumed, NewRun, Idle
  <2> QED  BY <2>2, <2>3, <2>4
<1> QED  BY <1>1, <1>2, <1>3, <1>4, <1>5 DEF Resumed

(* A new process finds in the snapshot which run to go on with.               *)
LEMMA RestartKeepsBooks ==
  ASSUME TypeOK, OneWorker, Bookkeeping, Restart
  PROVE  Bookkeeping'
<1> DEFINE first == CHOOSE s \in RunId : TRUE
<1>1. first \in RunId
  BY ManagerAssumption
<1>2. PICK run : run = Resumed
  OBVIOUS
<1>3. /\ runs' = [s \in RunId |-> IF s = first THEN run ELSE Idle] /\ ~cancel'.on
      /\ UNCHANGED <<install, noVpn, phase, apps, adding>>
  BY <1>2 DEF Restart, NoCancel, disk, hub
<1> HIDE DEF first
<1>4. (run.kind # "none" => RunIsSound(run)') /\ WorksOnIt(run)'
  <2>1. CASE phase \in {"running", "wiring"}
    <3>1. /\ run.kind = "deploy" /\ run.pc = "begin" /\ run.ids = install /\ install # {}
          /\ adding.state = "none"
      BY <1>2, <2>1, ResumedIsTheSame, NewRunFields
    <3> QED  BY <1>3, <2>1, <3>1
             DEF RunIsSound, DeployIsShown, AddingIsWorkedOn, RunHoldsItsAdding,
                 LoginIsQuiet, TailIsAMove, WorksOnIt, Purposes
  <2>2. CASE adding.state \in {"starting", "wiring"}
    <3>1. /\ run.kind = adding.purpose /\ run.app = adding.app
          /\ run.pc = IF adding.purpose = "reconnect" THEN "wire" ELSE "begin"
          /\ run.comps = {} /\ adding.purpose \in Purposes
          /\ adding.purpose = "add" => run.ids = install
          /\ install # {} /\ phase = "finale"
      BY <1>2, <2>2, ResumedIsTheSame DEF AppAdd
    <3> QED  BY <1>3, <2>2, <3>1
             DEF RunIsSound, DeployIsShown, AddingIsWorkedOn, RunHoldsItsAdding,
                 LoginIsQuiet, TailIsAMove, WorksOnIt, Purposes
  <2>3. CASE phase \notin {"running", "wiring"} /\ adding.state \notin {"starting", "wiring"}
    BY <1>2, <1>3, <2>3, ResumedIsTheSame DEF WorksOnIt, Idle
  <2> QED  BY <2>1, <2>2, <2>3
<1>5. \A s \in RunId : Live(s)' => RunIsSound(runs[s])'
  BY <1>3, <1>4 DEF Live, Idle
<1>6. WorkHasAWorker'
  BY <1>1, <1>3, <1>4 DEF WorkHasAWorker, WorksOnIt
<1> QED  BY <1>3, <1>5, <1>6
         DEF Bookkeeping, AddingIsSound, HubAgreesWithInstall, CancelIsSound

(* No step breaks the books.                                                  *)
LEMMA BookkeepingStep ==
  ASSUME Orderly, TypeOK, OneWorker, Bookkeeping, [Next]_vars
  PROVE  Bookkeeping'
<1>1. ASSUME NEW r \in RunId, RunStep(r)
      PROVE  Bookkeeping'
  BY <1>1, BeginKeepsBooks, MiddleKeepsBooks, EndKeepsBooks DEF RunStep, Orderly
<1>2. CASE \/ \E a \in App : AddApp(a) \/ Reconnect(a)
           \/ \E changed \in BOOLEAN : ChangeVpn(changed)
  BY <1>2, HubRequestKeepsBooks
<1>3. CASE Start \/ ApplyLogin \/ \E changed \in BOOLEAN : RetryAdd(changed)
  BY <1>3, OtherRunKeepsBooks DEF Orderly
<1>4. CASE \/ \E a \in App : Disconnect(a)
           \/ ChooseApps \/ ConfirmInWizard \/ AnswerVpnQuestions
           \/ \E S \in WizardChoices : SaveChoices(S)
           \/ ConfirmOnHub \/ UndoConfirmation
  BY <1>4, QuietRequestKeepsBooks DEF Orderly
<1>5. CASE CancelAdd \/ CancelRemove \/ CancelFails \/ CancelFinish
  BY <1>5, CancelKeepsBooks DEF Orderly
<1>6. CASE Restart
  BY <1>6, RestartKeepsBooks
<1>7. CASE UNCHANGED vars
  BY <1>7
     DEF vars, disk, hub, tasks, Bookkeeping, AddingIsSound, WorkHasAWorker,
         HubAgreesWithInstall, CancelIsSound, RunIsSound, DeployIsShown, AddingIsWorkedOn,
         RunHoldsItsAdding, LoginIsQuiet, TailIsAMove, Live
<1> QED  BY <1>1, <1>2, <1>3, <1>4, <1>5, <1>6, <1>7 DEF Next

(* So they hold in every state.                                               *)
LEMMA BooksAreKept ==
  ASSUME Orderly
  PROVE  Spec => [](TypeOK /\ OneWorker /\ Bookkeeping)
<1>1. Init => OneWorker
  BY DEF Init, OneWorker, OnlyTheHeldTask, CancelIsAlone, AddingOnAFinale, Live, Idle, NoCancel
<1>2. Init => Bookkeeping
  BY BookkeepingInit
<1>3. TypeOK /\ OneWorker /\ [Next]_vars => OneWorker'
  BY OneWorkerStep DEF Orderly
<1>4. TypeOK /\ OneWorker /\ Bookkeeping /\ [Next]_vars => Bookkeeping'
  BY BookkeepingStep
<1> QED  BY <1>1, <1>2, <1>3, <1>4, TypeCorrect, PTL DEF Spec

(* Whatever the catalog, the snapshot never shows a deploy, an add, a change *)
(* of the VPN, a restore or a reconnect as under way without a task alive    *)
(* that works on it: no failure, no request in between and no restart leaves *)
(* the Hub waiting for nobody.                                               *)
THEOREM WorkIsWorkedOn ==
  ASSUME Orderly
  PROVE  Spec => []WorkHasAWorker
<1>1. Bookkeeping => WorkHasAWorker
  BY DEF Bookkeeping
<1> QED  BY <1>1, BooksAreKept, PTL

(* On a finale the posters are the install but for what the add under way,   *)
(* or failed, brings: after a Cancel, too, install.json is back at the Hub.  *)
THEOREM HubIsTheInstall ==
  ASSUME Orderly
  PROVE  Spec => []HubAgreesWithInstall
<1>1. Bookkeeping => HubAgreesWithInstall
  BY DEF Bookkeeping
<1> QED  BY <1>1, BooksAreKept, PTL

------------------------------------------------------------------------------
(* The catalog's rules.  The Hub keeps them because install.json does: an    *)
(* add only ever saves an install its own check has allowed, a wizard saves  *)
(* one the grid allows, and an app goes only if the rules let it.            *)

Allowed(present) == \A a \in present : ~Unavailable(a, present \ {a})

RulesHold ==
  /\ Allowed(install)
  /\ phase = "finale" => Allowed(apps)
  /\ phase = "error" => Allowed(apps) /\ (install = apps \/ install \subseteq Managed)
  /\ phase = "ready" => install \subseteq Managed
  /\ adding.purpose = "add" => ~Unavailable(adding.app, apps)

(* An app that is available on the Hub may join it, with the VPN for company. *)
LEMMA AllowedGrows ==
  ASSUME NEW present \in SUBSET App, NEW a \in App \ present, NEW comps \in SUBSET {Vpn},
         Allowed(present), ~Unavailable(a, present)
  PROVE  Allowed(present \cup comps \cup {a})
<1> DEFINE grown == present \cup comps \cup {a}
<1> SUFFICES ASSUME NEW b \in grown
             PROVE  ~Unavailable(b, grown \ {b})
  BY DEF Allowed
<1>1. b \in App /\ Vpn \in App
  BY CatalogAssumption
<1>2. CASE b = Vpn
  BY <1>2, RulesAssumption DEF Unavailable
<1>3. CASE b = a /\ a # Vpn
  <2>1. /\ \A rule \in NeedsAny[a] : rule \cap present # {}
        /\ Excludes[a] \cap present = {}
    BY DEF Unavailable
  <2>2. present \subseteq grown \ {a}
    OBVIOUS
  <2>3. Vpn \notin Excludes[a]
    BY <1>1, RulesAssumption
  <2>4. grown \ {a} \subseteq present \cup {Vpn}
    OBVIOUS
  <2> QED  BY <1>3, <2>1, <2>2, <2>3, <2>4 DEF Unavailable
<1>4. CASE b # Vpn /\ b # a
  <2>1. b \in present
    BY <1>4
  <2>2. /\ \A rule \in NeedsAny[b] : rule \cap (present \ {b}) # {}
        /\ Excludes[b] \cap (present \ {b}) = {}
    BY <2>1 DEF Allowed, Unavailable
  <2>3. a \notin Excludes[b]
    <3>1. b \notin Excludes[a]
      BY <2>1 DEF Unavailable
    <3> QED  BY <1>1, <3>1, RulesAssumption
  <2>4. Vpn \notin Excludes[b]
    BY <1>1, RulesAssumption
  <2>5. present \ {b} \subseteq grown \ {b}
    OBVIOUS
  <2>6. grown \ {b} \subseteq (present \ {b}) \cup {Vpn, a}
    OBVIOUS
  <2> QED  BY <2>2, <2>3, <2>4, <2>5, <2>6 DEF Unavailable
<1> QED  BY <1>2, <1>3, <1>4

(* Disconnect asks the rules of the apps that stay among themselves, each     *)
(* with itself: no rule can be met by the app that has it.                   *)
LEMMA NobodyNeedsItself ==
  ASSUME NEW present \in SUBSET App, \A b \in present : ~Unavailable(b, present)
  PROVE  Allowed(present)
<1> SUFFICES ASSUME NEW b \in present
             PROVE  ~Unavailable(b, present \ {b})
  BY DEF Allowed
<1>1. \A rule \in NeedsAny[b] : rule \cap present # {} /\ b \notin rule
  BY RulesAssumption DEF Unavailable
<1> QED  BY <1>1 DEF Unavailable

(* The steps that leave the install and the posters alone. *)
LEMMA RulesUntouched ==
  ASSUME RulesHold, UNCHANGED <<install, apps>>,
         phase' = phase \/ phase' \in {"running", "wiring"},
         adding'.purpose # "add" \/ (adding'.purpose = adding.purpose /\ adding'.app = adding.app)
  PROVE  RulesHold'
BY DEF RulesHold, Allowed

(* A failing run touches neither; a deploy shows the install it failed on. *)
LEMMA FailKeepsRules ==
  ASSUME TypeOK, Bookkeeping, RulesHold, NEW r \in RunId,
         runs[r].kind \in Purposes \cup {"deploy"}, runs[r].pc \notin {"tail", "end"},
         Fail(r), UNCHANGED install
  PROVE  RulesHold'
<1>1. RunIsSound(runs[r])
  BY LiveRunOK DEF Bookkeeping, Live, TypeOK, Purposes
<1>2. CASE runs[r].kind = "deploy"
  <2>1. phase' = "error" /\ apps' = install /\ adding' = NoAdd
    BY <1>1, <1>2 DEF Fail, Emit, RunIsSound, DeployIsShown, Purposes
  <2> QED  BY <2>1 DEF RulesHold, Allowed, NoAdd
<1>3. CASE runs[r].kind \in Purposes
  <2>1. phase' = phase /\ apps' = apps
    BY <1>3 DEF Fail, Emit, Purposes, hub
  <2>2. adding' = adding \/ (adding # NoAdd /\ adding' = [adding EXCEPT !.state = "error"])
    BY <1>3 DEF Fail, Emit, Purposes, hub
  <2>3. adding'.purpose = adding.purpose /\ adding'.app = adding.app
    BY <2>2 DEF TypeOK, HubOK, AppAdd
  <2> QED  BY <2>1, <2>3, RulesUntouched
<1> QED  BY <1>2, <1>3

(* An app that a run puts on the Hub is one the rules allow.                  *)
LEMMA RunKeepsRules ==
  ASSUME ~CancelOverlap, TypeOK, OneWorker, Bookkeeping, RulesHold, NEW r \in RunId, RunStep(r)
  PROVE  RulesHold'
<1>1. /\ runs[r] \in Run /\ runs[r].kind # "none" /\ RunIsSound(runs[r])
  BY StepIsAlone DEF Bookkeeping, Live
<1>2. CASE BeginDeploy(r)
  <2>1. phase' = "running" /\ adding' = NoAdd /\ UNCHANGED install
    BY <1>2 DEF BeginDeploy, Emit, disk
  <2> QED  BY <2>1 DEF RulesHold, Allowed, NoAdd
<1>3. CASE BeginAdd(r)
  <2>1. /\ runs[r].kind = "add" /\ runs[r].pc = "begin" /\ UNCHANGED hub
        /\ install' = runs[r].ids \cup adding.comps \cup {runs[r].app}
    BY <1>3 DEF BeginAdd, At
  <2>2. /\ adding # NoAdd /\ phase = "finale" /\ adding.purpose = "add"
        /\ adding.app = runs[r].app /\ runs[r].ids = install
    BY <1>1, <2>1 DEF RunIsSound, AddingIsWorkedOn, RunHoldsItsAdding, Purposes, NoAdd,
                      OneWorker, AddingOnAFinale
  <2>3. /\ adding.app \in App \ apps /\ adding.comps \in SUBSET {Vpn} /\ apps \in SUBSET App
    BY <2>2 DEF Bookkeeping, AddingIsSound, TypeOK, HubOK, AppAdd
  <2>4. install' = apps \cup adding.comps \cup {adding.app}
    BY <2>1, <2>2 DEF Bookkeeping, HubAgreesWithInstall
  <2>5. Allowed(apps) /\ ~Unavailable(adding.app, apps)
    BY <2>2 DEF RulesHold
  <2>6. Allowed(apps \cup adding.comps \cup {adding.app})
    BY <2>3, <2>5, AllowedGrows
  <2>7. Allowed(install)'
    BY <2>4, <2>6 DEF Allowed
  <2> QED  BY <2>1, <2>2, <2>5, <2>7 DEF RulesHold, Allowed, hub
<1>4. CASE ClashFound(r) \/ Break(r) \/ (Prepare(r) /\ Fail(r)) \/ (BeginFromDisk(r) /\ Fail(r))
  <2>1. /\ Fail(r) /\ UNCHANGED install /\ runs[r].kind \in Purposes \cup {"deploy"}
        /\ runs[r].pc \notin {"tail", "end"}
    BY <1>4 DEF ClashFound, Break, Prepare, BeginFromDisk, At, disk, Purposes
  <2> QED  BY <2>1, FailKeepsRules
<1>5. CASE \/ ApplyLogins(r) \/ Probe(r) \/ Rewrite(r) \/ StopMover(r) \/ RemoveMover(r)
           \/ RemoveVpn(r) \/ Create(r) \/ StartUp(r) \/ Ready(r) \/ BreakLogin(r)
           \/ ClearConfirmation(r) \/ End(r)
           \/ (Prepare(r) /\ UNCHANGED hub) \/ (BeginFromDisk(r) /\ UNCHANGED hub)
  <2>1. UNCHANGED <<install, hub>>
    BY <1>5 DEF ApplyLogins, Probe, Rewrite, StopMover, RemoveMover, RemoveVpn, Create,
                StartUp, Ready, BreakLogin, ClearConfirmation, End, Prepare, BeginFromDisk, disk
  <2> QED  BY <2>1, RulesUntouched DEF hub
<1>6. CASE SelfId(r)
  <2>1. UNCHANGED <<install, phase, apps>>
        /\ (adding' = adding \/ (adding # NoAdd /\ adding' = [adding EXCEPT !.ran = TRUE]))
    BY <1>6 DEF SelfId, disk
  <2>2. adding'.purpose = adding.purpose /\ adding'.app = adding.app
    BY <2>1 DEF TypeOK, HubOK, AppAdd
  <2> QED  BY <2>1, <2>2, RulesUntouched
<1>7. CASE PutLogins(r)
  <2>1. UNCHANGED install
    BY <1>7 DEF PutLogins, disk
  <2>2. CASE runs[r].kind = "deploy"
    <3>1. phase' = "wiring" /\ adding' = NoAdd
      BY <1>7, <2>2 DEF PutLogins, Emit
    <3> QED  BY <2>1, <3>1 DEF RulesHold, Allowed, NoAdd
  <2>3. CASE runs[r].kind # "deploy"
    <3>1. UNCHANGED <<phase, apps>>
          /\ (adding' = adding \/ (adding # NoAdd /\ adding' = [adding EXCEPT !.state = "wiring"]))
      BY <1>7, <2>3 DEF PutLogins, Emit, hub
    <3>2. adding'.purpose = adding.purpose /\ adding'.app = adding.app
      BY <3>1 DEF TypeOK, HubOK, AppAdd
    <3> QED  BY <2>1, <3>1, <3>2, RulesUntouched
  <2> QED  BY <2>2, <2>3
<1>8. CASE Wire(r)
  <2>1. UNCHANGED install /\ adding' = NoAdd /\ runs[r].pc = "wire"
        /\ runs[r].kind \in Purposes \cup {"deploy"}
    BY <1>8 DEF Wire, Emit, At, disk
  <2>2. phase' = "finale"
    BY <1>1, <1>8, <2>1
       DEF Wire, Emit, RunIsSound, AddingIsWorkedOn, NoAdd, OneWorker, AddingOnAFinale, Purposes
  <2>3. Bookkeeping' /\ TypeOK'
    BY <1>8, EndKeepsBooks, RunStepOK DEF RunStep
  <2>4. apps' = install'
    <3>1. HubAgreesWithInstall'
      BY <2>3 DEF Bookkeeping
    <3>2. adding'.app = NoApp /\ adding'.comps = {}
      BY <2>1 DEF NoAdd
    <3>3. install' \subseteq App /\ NoApp \notin App
      BY <2>3, CatalogAssumption DEF TypeOK, DiskOK
    <3> QED  BY <2>2, <3>1, <3>2, <3>3 DEF HubAgreesWithInstall
  <2> QED  BY <2>1, <2>2, <2>4 DEF RulesHold, Allowed, NoAdd
<1>9. BeginFromDisk(r) => Fail(r) \/ UNCHANGED hub
  BY DEF BeginFromDisk
<1>10. Prepare(r) => Fail(r) \/ UNCHANGED hub
  BY DEF Prepare
<1> QED  BY <1>2, <1>3, <1>4, <1>5, <1>6, <1>7, <1>8, <1>9, <1>10 DEF RunStep

(* A request that would break the rules is refused.                           *)
LEMMA RequestKeepsRules ==
  ASSUME Orderly, TypeOK, OneWorker, Bookkeeping, RulesHold,
         \/ Start \/ ApplyLogin
         \/ \E a \in App : AddApp(a) \/ Reconnect(a) \/ Disconnect(a)
         \/ \E changed \in BOOLEAN : RetryAdd(changed) \/ ChangeVpn(changed)
         \/ ChooseApps \/ ConfirmInWizard \/ AnswerVpnQuestions
         \/ \E S \in WizardChoices : SaveChoices(S)
         \/ ConfirmOnHub \/ UndoConfirmation
  PROVE  RulesHold'
<1>1. CASE \/ Start \/ ApplyLogin \/ ChooseApps \/ ConfirmInWizard \/ AnswerVpnQuestions
           \/ ConfirmOnHub \/ UndoConfirmation
  <2>1. UNCHANGED <<install, hub>>
    BY <1>1 DEF Start, ApplyLogin, ChooseApps, ConfirmInWizard, AnswerVpnQuestions,
                ConfirmOnHub, UndoConfirmation, disk
  <2> QED  BY <2>1, RulesUntouched DEF hub
<1>2. ASSUME NEW a \in App, AddApp(a)
      PROVE  RulesHold'
  <2>1. /\ UNCHANGED <<install, phase, apps>> /\ ~Unavailable(a, apps)
        /\ adding'.purpose = "add" /\ adding'.app = a
    BY <1>2 DEF AddApp, Emit, NewAdding, disk
  <2> QED  BY <2>1 DEF RulesHold, Allowed
<1>3. CASE (\E a \in App : Reconnect(a)) \/ \E changed \in BOOLEAN : ChangeVpn(changed)
  <2>1. UNCHANGED <<install, phase, apps>>
    BY <1>3 DEF Reconnect, ChangeVpn, Emit, disk
  <2>2. adding'.purpose # "add"
    <3>1. ASSUME NEW a \in App, Reconnect(a)
          PROVE  adding'.purpose # "add"
      BY <3>1 DEF Reconnect, Emit, NewAdding
    <3>2. ASSUME NEW changed \in BOOLEAN, ChangeVpn(changed)
          PROVE  adding'.purpose # "add"
      BY <3>2 DEF ChangeVpn, Emit, NewAdding
    <3> QED  BY <1>3, <3>1, <3>2
  <2> QED  BY <2>1, <2>2, RulesUntouched
<1>4. ASSUME NEW changed \in BOOLEAN, RetryAdd(changed)
      PROVE  RulesHold'
  <2>1. adding \in AppAdd
    BY <1>4 DEF RetryAdd, TypeOK, HubOK, NoAdd
  <2>2. /\ UNCHANGED <<install, phase, apps>>
        /\ adding'.purpose = adding.purpose /\ adding'.app = adding.app
    BY <1>4, <2>1 DEF RetryAdd, Emit, AppAdd, disk
  <2> QED  BY <2>2, RulesUntouched
<1>5. ASSUME NEW a \in App, Disconnect(a)
      PROVE  RulesHold'
  <2>1. /\ adding = NoAdd /\ adding' = NoAdd /\ phase' = phase /\ ~IsRunning
        /\ install' = install \ {a} /\ apps' = ShownApps \ {a} /\ a \in ShownApps \ Managed
        /\ Allowed(ShownApps \ {a})
    <3>1. \A b \in ShownApps \ {a} : ~Unavailable(b, ShownApps \ {a})
      BY <1>5 DEF Disconnect
    <3>2. ShownApps \subseteq App
      BY DEF ShownApps, TypeOK, DiskOK, HubOK
    <3>3. Allowed(ShownApps \ {a})
      BY <3>1, <3>2, NobodyNeedsItself
    <3> QED  BY <1>5, <3>3 DEF Disconnect
  <2>2. phase \in {"ready", "finale", "error"}
    BY <2>1, NobodyWorks, NothingIsShownIdle DEF Bookkeeping, TypeOK, HubOK, Phases
  <2>3. phase = "finale" => apps = install
    BY <2>1, TheFreeHub DEF Bookkeeping
  <2>4. phase = "ready" => a \in install /\ install \subseteq Managed
    BY <2>1 DEF RulesHold, ShownApps
  <2>5. CASE phase = "finale"
    BY <2>1, <2>3, <2>5 DEF RulesHold, Allowed, ShownApps, NoAdd
  <2>6. CASE phase = "error"
    <3>1. install' = apps' \/ (install' = install /\ install \subseteq Managed)
      BY <2>1, <2>6 DEF RulesHold, ShownApps
    <3>2. apps' = apps \ {a} /\ Allowed(apps \ {a}) /\ Allowed(install)
      BY <2>1, <2>6 DEF ShownApps, RulesHold
    <3>3. Allowed(apps') /\ Allowed(install')
      BY <3>1, <3>2
    <3> QED  BY <2>1, <2>6, <3>1, <3>3 DEF RulesHold, NoAdd, Allowed
  <2> QED  BY <2>1, <2>2, <2>4, <2>5, <2>6
<1>6. ASSUME NEW S \in WizardChoices, SaveChoices(S)
      PROVE  RulesHold'
  <2>1. /\ install' = S /\ S \subseteq Managed /\ Allowed(S) /\ phase # "finale" /\ ~IsRunning
        /\ UNCHANGED hub \/ (phase' = "ready" /\ adding' = NoAdd)
    BY <1>6 DEF SaveChoices, WizardChoices, WizardOpen, Allowed, Emit, Orderly
  <2>2. adding = NoAdd
    BY <2>1 DEF OneWorker, AddingOnAFinale
  <2> QED  BY <2>1, <2>2 DEF RulesHold, Allowed, NoAdd, hub
<1> QED  BY <1>1, <1>2, <1>3, <1>4, <1>5, <1>6

(* A cancelled add takes its companions along.                                *)
LEMMA CancelKeepsRules ==
  ASSUME ~CancelOverlap, TypeOK, OneWorker, Bookkeeping, RulesHold,
         CancelAdd \/ CancelRemove \/ CancelFails \/ CancelFinish
  PROVE  RulesHold'
<1>1. CASE CancelAdd \/ CancelRemove \/ CancelFails
  <2>1. UNCHANGED <<install, hub>>
    BY <1>1 DEF CancelAdd, CancelRemove, CancelFails, Emit, disk, hub, Bookkeeping, CancelIsSound
  <2> QED  BY <2>1, RulesUntouched DEF hub
<1>2. CASE CancelFinish
  <2>1. /\ cancel.rec = adding /\ adding.purpose = "add" /\ cancel.on
        /\ install' = install \ Brought(adding) /\ phase' = phase /\ apps' = apps
    BY <1>2 DEF CancelFinish, Bookkeeping, CancelIsSound, Emit
  <2>2. phase = "finale" /\ adding \in AppAdd
    BY <2>1 DEF NoAdd, OneWorker, AddingOnAFinale, TypeOK, HubOK
  <2>3. install' = apps
    <3>1. apps \subseteq install /\ install \ apps \subseteq adding.comps \cup {adding.app}
      BY <2>2 DEF Bookkeeping, HubAgreesWithInstall
    <3>2. Brought(adding) = adding.comps \cup {adding.app}
      BY <2>2, CatalogAssumption DEF Brought, AppAdd
    <3>3. Brought(adding) \cap apps = {}
      BY <2>1, <3>2 DEF Bookkeeping, AddingIsSound
    <3> QED  BY <2>1, <3>1, <3>2, <3>3
  <2>4. adding'.purpose # "add"
    BY <1>2 DEF CancelFinish, Emit, NoAdd, NewAdding
  <2> QED  BY <2>1, <2>2, <2>3, <2>4 DEF RulesHold, Allowed
<1> QED  BY <1>1, <1>2

(* Whatever the catalog's rules, as long as an exclusion is mutual: no       *)
(* sequence of adds, failed adds, cancels, disconnections and new deploys    *)
(* leaves an app on the Hub without what it needs or beside what it excludes.*)
THEOREM RulesAreKept ==
  ASSUME Orderly
  PROVE  Spec => []HubKeepsTheRules
<1>1. Init => RulesHold
  BY DEF Init, RulesHold, Allowed, NoAdd
<1>2. TypeOK /\ OneWorker /\ Bookkeeping /\ RulesHold /\ [Next]_vars => RulesHold'
  <2> SUFFICES ASSUME TypeOK, OneWorker, Bookkeeping, RulesHold, [Next]_vars
               PROVE  RulesHold'
    OBVIOUS
  <2>1. CASE Restart \/ UNCHANGED vars
    BY <2>1, RulesUntouched DEF Restart, vars, disk, hub
  <2> QED  BY <2>1, RunKeepsRules, RequestKeepsRules, CancelKeepsRules DEF Next, Orderly
<1>3. RulesHold => HubKeepsTheRules
  BY DEF RulesHold, Allowed, HubKeepsTheRules
<1> QED  BY <1>1, <1>2, <1>3, BooksAreKept, PTL DEF Spec

------------------------------------------------------------------------------
(* The containers.  A run that builds goes through the same stages: compose  *)
(* is rewritten, what has to move is taken down, then one app after another  *)
(* is brought up and has to answer.                                          *)

Builders == {"deploy", "add", "change_vpn", "restore"}

Stage == {"self_id", "stop", "remove", "unseat", "up", "start", "ready", "logins", "wire"}

TakeDownIsSound(run) ==
  /\ run.pc \in {"stop", "remove"} =>
       run.kind \in {"add", "change_vpn"} /\ run.todo # {} /\ run.todo \subseteq run.movers
  /\ run.pc = "unseat" => run.unseat /\ run.todo = BringUps(run)

Rewritten(run) ==
  run.kind \in Builders /\ run.pc \in Stage =>
    /\ compose = run.ids
    /\ run.kind \in {"deploy", "add"} => PlanBuilds(run.ids, noVpn)

(* What is not to do any more has answered, the VPN with its tunnel up. *)
BringingUp(run) ==
  run.kind \in Builders /\ run.pc \in {"up", "start", "ready", "logins", "wire"} =>
    /\ run.todo \subseteq BringUps(run)
    /\ run.pc \in {"up", "start", "ready"} <=> run.todo # {}
    /\ \A a \in (BringUps(run) \cap Managed) \ run.todo : Answers(a, run.ids)
    /\ Vpn \in BringUps(run) \ run.todo => tunnel.proven
    /\ run.kind = "change_vpn" => ~tunnel.stale

(* A login run that got past its first phase has an app to make anew. *)
HasWork(run) == run.kind = "login" /\ run.pc # "apply" => run.todo # {}

IsHoused(run) ==
  TakeDownIsSound(run) /\ Rewritten(run) /\ BringingUp(run) /\ HasWork(run)

RidersAreProven ==
  \A a \in Rider : container[a] = "via" => container[Vpn] = "own" /\ tunnel.proven

HubIsUp == RidersAreProven /\ HubAppsAreUp /\ DownloaderIsWhereTheHubSays

Housekeeping == HubIsUp /\ \A r \in RunId : Live(r) => IsHoused(runs[r])

(* The two ends of the catalog's order. *)
LEMMA FirstIsLeast ==
  ASSUME NEW S \in SUBSET App, S # {}
  PROVE  First(S) \in S /\ \A b \in S : Order[First(S)] <= Order[b]
<1> DEFINE Places == {Order[a] : a \in S}
<1>1. Places \in SUBSET Nat /\ Places # {}
  BY CatalogAssumption
<1>2. PICK n \in Places : \A m \in Places : n <= m
  <2> HIDE DEF Places
  <2> QED  BY <1>1, LeastNatural
<1>3. \E a \in S : \A b \in S : Order[a] <= Order[b]
  BY <1>2
<1> QED  BY <1>3 DEF First

(* The later of two apps is one of them.                                      *)
LEMMA LastOfTwo ==
  ASSUME NEW a \in App, NEW b \in App, NEW S \in SUBSET {a, b}, S # {}
  PROVE  Last(S) \in S
<1>1. \E c \in S : \A d \in S : Order[d] <= Order[c]
  <2>1. Order[a] \in Nat /\ Order[b] \in Nat
    BY CatalogAssumption
  <2>2. CASE S = {a, b} /\ Order[a] <= Order[b]
    BY <2>1, <2>2
  <2>3. CASE S = {a, b} /\ Order[b] <= Order[a]
    BY <2>1, <2>3
  <2>4. CASE S = {a} \/ S = {b}
    BY <2>1, <2>4
  <2>5. S = {a, b} \/ S = {a} \/ S = {b}
    OBVIOUS
  <2> QED  BY <2>1, <2>2, <2>3, <2>4, <2>5
<1> QED  BY <1>1 DEF Last

(* Movers are riders, and there is one rider: the last of them is one.       *)
LEMMA LastMover ==
  ASSUME NEW S \in SUBSET Rider, S # {}
  PROVE  Last(S) \in S
<1>1. PICK a \in S : TRUE
  OBVIOUS
<1>2. a \in App /\ S \in SUBSET {a, a}
  BY CatalogAssumption
<1> QED  BY <1>2, LastOfTwo

(* Whoever brings a downloader up behind the VPN brings the VPN up as well.  *)
LEMMA VpnComesAlong ==
  ASSUME TypeOK, OneWorker, AddingIsSound, HubAgreesWithInstall, NEW run \in Run,
         RunIsSound(run), run.kind \in Builders, run.pc \in Stage,
         NEW a \in Rider \cap BringUps(run), Vpn \in run.ids
  PROVE  Vpn \in BringUps(run)
<1>1. CASE run.kind \in {"deploy", "change_vpn"}
  BY <1>1 DEF BringUps
<1>2. run.kind # "deploy" =>
        /\ adding # NoAdd /\ phase = "finale"
        /\ adding.purpose = run.kind /\ adding.app = run.app
  BY DEF Builders, Stage, RunIsSound, AddingIsWorkedOn, Purposes, NoAdd, OneWorker, AddingOnAFinale
<1>3. CASE run.kind = "add"
  <2>1. /\ run.ids = apps \cup run.comps \cup {run.app} /\ run.movers = adding.moves
        /\ run.comps \subseteq {Vpn} /\ (run.movers # {} => run.app = Vpn)
        /\ run.app \in Rider /\ Vpn \in apps => run.unseat
    BY <1>2, <1>3 DEF Stage, RunIsSound, RunHoldsItsAdding, AddingIsSound
  <2>2. a # Vpn
    BY CatalogAssumption
  <2>3. BringUps(run) = (IF run.unseat THEN {Vpn} ELSE run.comps) \cup {run.app} \cup run.movers
    BY <1>3 DEF BringUps
  <2>4. CASE run.app = Vpn
    BY <2>3, <2>4
  <2>5. CASE run.app # Vpn
    <3>1. a = run.app
      BY <2>1, <2>2, <2>3, <2>5
    <3> QED  BY <2>1, <2>3, <2>5, <3>1
  <2> QED  BY <2>4, <2>5
<1>4. CASE run.kind = "restore"
  <2>1. run.ids = install /\ Vpn \notin apps /\ adding.comps = {} /\ adding.app \in apps
    BY <1>2, <1>4 DEF Stage, RunIsSound, RunHoldsItsAdding, AddingIsSound, Purposes
  <2> QED  BY <1>2, <1>4, <2>1 DEF HubAgreesWithInstall
<1> QED  BY <1>1, <1>3, <1>4 DEF Builders

(* The steps that leave Docker and the posters alone. *)
LEMMA HubStaysUp ==
  ASSUME HubIsUp, UNCHANGED <<container, running>>, tunnel'.proven = tunnel.proven,
         phase' = "finale" => /\ phase = "finale"
                              /\ apps' \subseteq apps /\ RidersOf(apps') = RidersOf(apps)
                              /\ Vpn \in apps <=> Vpn \in apps'
                              /\ adding.moves \subseteq adding'.moves
                              /\ noVpn' \/ noVpn' = noVpn \/ Vpn \in apps \/ RidersOf(apps) = {}
  PROVE  HubIsUp'
<1>1. RidersAreProven'
  BY DEF HubIsUp, RidersAreProven
<1>2. HubAppsAreUp'
  <2> SUFFICES ASSUME phase' = "finale"
               PROVE  \A a \in ServedApps' : a \in running'
    BY DEF HubAppsAreUp
  <2>1. ServedApps' \subseteq ServedApps
    BY DEF ServedApps
  <2> QED  BY <2>1 DEF HubIsUp, HubAppsAreUp
<1>3. DownloaderIsWhereTheHubSays'
  <2> SUFFICES ASSUME phase' = "finale", NEW a \in RidersOf(apps') \ adding'.moves
               PROVE  IF Vpn \in apps' THEN container'[a] = "via"
                                       ELSE container'[a] = "own" /\ noVpn'
    BY DEF DownloaderIsWhereTheHubSays
  <2>1. a \in RidersOf(apps) \ adding.moves
    OBVIOUS
  <2> QED  BY <2>1 DEF HubIsUp, DownloaderIsWhereTheHubSays
<1> QED  BY <1>1, <1>2, <1>3 DEF HubIsUp

(* What becomes of the one run decides, together with the Hub. *)
LEMMA HouseGoesOn ==
  ASSUME TypeOK, NEW r \in RunId, \A s \in RunId : Live(s) => s = r,
         NEW new, runs' = [runs EXCEPT ![r] = new],
         new.kind # "none" => IsHoused(new)', HubIsUp'
  PROVE  Housekeeping'
<1>1. runs'[r] = new /\ \A s \in RunId \ {r} : runs'[s] = runs[s]
  BY DEF TypeOK, TasksOK
<1> QED  BY <1>1 DEF Housekeeping, Live

(* What a run has to bring up depends on what it is of, not on how far it is. *)
LEMMA SameBringUps ==
  ASSUME NEW new, NEW old, SameRun(new, old), old.kind \in Builders
  PROVE  BringUps(new) = BringUps(old)
BY DEF SameRun, BringUps, Builders

(* A run that builds has an app to bring up.                                  *)
LEMMA SomethingToBringUp ==
  ASSUME TypeOK, Bookkeeping, NEW run \in Run, RunIsSound(run),
         run.kind \in Builders, run.pc \in Stage
  PROVE  BringUps(run) # {} /\ BringUps(run) \subseteq App
<1>1. BringUps(run) \subseteq App
  BY CatalogAssumption DEF BringUps, Builders, Run
<1>2. CASE run.kind = "deploy"
  <2>1. BringUps(run) # {}
    BY <1>2 DEF BringUps, RunIsSound, DeployIsShown
  <2> QED  BY <1>1, <2>1
<1>3. CASE run.kind \in {"add", "change_vpn"}
  <2>1. BringUps(run) # {}
    BY <1>3 DEF BringUps
  <2> QED  BY <1>1, <2>1
<1>4. CASE run.kind = "restore"
  <2>1. adding.purpose = "restore" /\ run.movers = adding.moves
    BY <1>4 DEF RunIsSound, AddingIsWorkedOn, RunHoldsItsAdding, Purposes, Stage
  <2>2. adding.moves # {}
    BY <2>1 DEF Bookkeeping, AddingIsSound
  <2>3. BringUps(run) # {}
    BY <1>4, <2>1, <2>2 DEF BringUps
  <2> QED  BY <1>1, <2>3
<1> QED  BY <1>2, <1>3, <1>4 DEF Builders

(* A run that goes over to bringing up has everything still to do. *)
LEMMA BringUpStarts ==
  ASSUME TypeOK, Bookkeeping, NEW run \in Run, RunIsSound(run), Rewritten(run),
         run.kind \in Builders, run.pc \in Stage,
         UNCHANGED <<compose, noVpn>>,
         NEW new, SameRun(new, run), new.todo = BringUps(run),
         \/ new.pc = "unseat" /\ run.unseat
         \/ new.pc = "up" /\ (run.kind = "change_vpn" => ~tunnel'.stale)
  PROVE  IsHoused(new)'
<1>1. BringUps(run) # {}
  BY SomethingToBringUp
<1>2. BringUps(new) = BringUps(run)
  BY SameBringUps
<1>3. TakeDownIsSound(new)'
  BY <1>2 DEF TakeDownIsSound, SameRun, BringUps
<1>4. Rewritten(new)'
  BY DEF Rewritten, SameRun
<1>5. BringingUp(new)'
  <2>1. CASE new.pc = "unseat"
    BY <2>1 DEF BringingUp
  <2>2. CASE new.pc = "up"
    <3>1. /\ new.todo = BringUps(new) /\ new.todo # {}
          /\ new.kind = "change_vpn" => ~tunnel'.stale
      BY <1>1, <1>2, <2>2 DEF SameRun
    <3> QED  BY <2>2, <3>1 DEF BringingUp, BringUps
  <2> QED  BY <2>1, <2>2
<1>6. HasWork(new)'
  BY DEF HasWork, SameRun, Builders
<1> QED  BY <1>3, <1>4, <1>5, <1>6 DEF IsHoused

(* Outside the stages, and in a login run, there is nothing to be said. *)
LEMMA NothingHoused ==
  ASSUME NEW new, new.kind \notin Builders \/ new.pc \notin Stage,
         new.pc \notin {"stop", "remove", "unseat"},
         new.kind = "login" => new.todo # {}
  PROVE  IsHoused(new)'
BY DEF IsHoused, TakeDownIsSound, Rewritten, BringingUp, HasWork, Stage

(* A run that fails leaves the Hub's containers as they are.                  *)
LEMMA FailKeepsHouse ==
  ASSUME TypeOK, Housekeeping, NEW r \in RunId, runs[r] \in Run,
         runs[r].kind \in Purposes \cup {"deploy"},
         \A s \in RunId : Live(s) => s = r, Fail(r), UNCHANGED <<noVpn, docker>>
  PROVE  Housekeeping'
<1>1. PICK new : new = [runs[r] EXCEPT !.pc = "end"]
  OBVIOUS
<1>2. runs' = [runs EXCEPT ![r] = new] /\ new.pc = "end"
  BY <1>1 DEF Fail, Goto, Continue, Run
<1>3. IsHoused(new)'
  <2>1. new.kind # "login"
    BY <1>1 DEF Run, Purposes
  <2> QED  BY <1>2, <2>1, NothingHoused DEF Stage
<1>4. phase' = "finale" => phase = "finale" /\ apps' = apps /\ adding'.moves = adding.moves
  <2>1. CASE runs[r].kind = "deploy"
    BY <2>1 DEF Fail, Emit, Purposes
  <2>2. CASE runs[r].kind \in Purposes
    <3>1. /\ phase' = phase /\ apps' = apps
          /\ adding' = adding \/ (adding # NoAdd /\ adding' = [adding EXCEPT !.state = "error"])
      BY <2>2 DEF Fail, Emit, Purposes, hub
    <3> QED  BY <3>1 DEF TypeOK, HubOK, AppAdd
  <2> QED  BY <2>1, <2>2
<1>5. HubIsUp'
  BY <1>4, HubStaysUp DEF Housekeeping, docker
<1> QED  BY <1>2, <1>3, <1>5, HouseGoesOn

(* The steps before anything is taken down, those of a login run that only   *)
(* skip, and the last ones.                                                   *)
LEMMA EarlyStepsKeepHouse ==
  ASSUME ~CancelOverlap, TypeOK, OneWorker, Bookkeeping, Housekeeping, NEW r \in RunId,
         \/ BeginDeploy(r) \/ BeginAdd(r) \/ BeginFromDisk(r) \/ ApplyLogins(r)
         \/ Probe(r) \/ Rewrite(r) \/ ClashFound(r) \/ Prepare(r)
         \/ Break(r) \/ BreakLogin(r) \/ PutLogins(r) \/ ClearConfirmation(r) \/ End(r)
  PROVE  Housekeeping'
<1>1. /\ runs[r] \in Run /\ runs[r].kind # "none" /\ \A s \in RunId : Live(s) => s = r
      /\ RunIsSound(runs[r]) /\ IsHoused(runs[r])
  BY StepIsAlone DEF RunStep, Bookkeeping, Housekeeping, Live
<1>2. UNCHANGED docker
  BY DEF BeginDeploy, BeginAdd, BeginFromDisk, ApplyLogins, Probe, Rewrite, ClashFound,
         Prepare, Break, BreakLogin, PutLogins, ClearConfirmation, End
<1>3. CASE BeginDeploy(r)
  <2>1. PICK new : new = [runs[r] EXCEPT !.pc = "probe"]
    OBVIOUS
  <2>2. runs' = [runs EXCEPT ![r] = new] /\ new.pc = "probe" /\ phase' = "running"
    BY <1>1, <1>3, <2>1 DEF BeginDeploy, Emit, Goto, Continue, Run
  <2>3. IsHoused(new)'
    <3>1. new.kind = "deploy"
      BY <1>1, <1>3, <2>1 DEF BeginDeploy, At, Run
    <3> QED  BY <2>2, <3>1, NothingHoused DEF Stage
  <2>4. HubIsUp'
    BY <1>2, <2>2, HubStaysUp DEF Housekeeping, docker
  <2> QED  BY <1>1, <2>2, <2>3, <2>4, HouseGoesOn
<1>4. CASE BeginAdd(r) \/ (BeginFromDisk(r) /\ UNCHANGED hub) \/ Probe(r)
  <2>1. PICK new : /\ runs' = [runs EXCEPT ![r] = new] /\ new.pc \in {"probe", "clash"}
                   /\ new.kind = runs[r].kind
    <3>1. CASE BeginAdd(r)
      <4>1. PICK new : new = [runs[r] EXCEPT !.pc = "probe",
                                  !.ids = runs[r].ids \cup adding.comps \cup {runs[r].app},
                                  !.comps = adding.comps, !.movers = adding.moves,
                                  !.unseat = runs[r].app \in Rider /\ Vpn \in runs[r].ids]
        OBVIOUS
      <4>2. runs' = [runs EXCEPT ![r] = new]
        BY <3>1, <4>1 DEF BeginAdd, Continue
      <4>3. new.pc = "probe" /\ new.kind = runs[r].kind
        BY <1>1, <4>1 DEF Run
      <4> QED  BY <4>2, <4>3
    <3>2. CASE Probe(r)
      <4>1. PICK new : new = [runs[r] EXCEPT !.pc = "clash"]
        OBVIOUS
      <4>2. runs' = [runs EXCEPT ![r] = new] /\ new.pc = "clash" /\ new.kind = runs[r].kind
        BY <1>1, <3>2, <4>1 DEF Probe, Goto, Continue, Run
      <4> QED  BY <4>2
    <3>3. CASE BeginFromDisk(r) /\ UNCHANGED hub
      <4>1. CASE Fail(r)
        <5>1. adding = NoAdd
          BY <1>1, <3>3, <4>1 DEF Fail, BeginFromDisk, At, Purposes, hub, Emit, NoAdd,
               RunIsSound, AddingIsWorkedOn, TypeOK, HubOK, AppAdd
        <5> QED  BY <1>1, <3>3, <5>1
                 DEF RunIsSound, AddingIsWorkedOn, BeginFromDisk, At, Purposes, NoAdd
      <4>2. CASE ~Fail(r)
        <5>1. PICK new : new = [runs[r] EXCEPT !.pc = "probe", !.ids = install,
                                    !.movers = adding.moves,
                                    !.unseat = runs[r].kind = "change_vpn"]
          OBVIOUS
        <5>2. runs' = [runs EXCEPT ![r] = new] /\ new.pc = "probe" /\ new.kind = runs[r].kind
          BY <1>1, <3>3, <4>2, <5>1 DEF BeginFromDisk, Continue, Run
        <5> QED  BY <5>2
      <4> QED  BY <4>1, <4>2
    <3> QED  BY <1>4, <3>1, <3>2, <3>3
  <2>2. IsHoused(new)'
    <3>1. new.kind # "login"
      BY <1>4, <2>1 DEF BeginAdd, BeginFromDisk, Probe, At
    <3> QED  BY <2>1, <3>1, NothingHoused DEF Stage
  <2>3. UNCHANGED <<noVpn, hub>>
    BY <1>4 DEF BeginAdd, BeginFromDisk, Probe, disk
  <2>4. HubIsUp'
    BY <1>2, <2>3, HubStaysUp DEF Housekeeping, docker, hub
  <2> QED  BY <1>1, <2>1, <2>2, <2>4, HouseGoesOn
<1>5. CASE ClashFound(r) \/ Break(r) \/ (Prepare(r) /\ Fail(r)) \/ (BeginFromDisk(r) /\ Fail(r))
  <2>1. Fail(r) /\ UNCHANGED noVpn /\ runs[r].kind \in Purposes \cup {"deploy"}
    BY <1>5 DEF ClashFound, Break, Prepare, BeginFromDisk, At, disk, Purposes
  <2> QED  BY <1>1, <1>2, <2>1, FailKeepsHouse
<1>6. CASE Rewrite(r) \/ (Prepare(r) /\ ~Fail(r))
  <2>1. PICK new : new = [runs[r] EXCEPT !.pc = "self_id"]
    OBVIOUS
  <2>2. /\ runs' = [runs EXCEPT ![r] = new] /\ SameRun(new, runs[r]) /\ new.pc = "self_id"
        /\ UNCHANGED <<noVpn, hub>> /\ compose' = runs[r].ids
        /\ PlanBuilds(runs[r].ids, noVpn)
    BY <1>1, <1>6, <2>1 DEF Rewrite, Prepare, Goto, Continue, SameRun, Run
  <2>3. IsHoused(new)'
    <3>1. new.todo = runs[r].todo /\ runs[r].pc # "apply"
      BY <1>1, <1>6, <2>1 DEF Run, Rewrite, Prepare, At
    <3> QED  BY <1>1, <2>2, <3>1 DEF IsHoused, TakeDownIsSound, Rewritten, BringingUp, HasWork, SameRun
  <2>4. HubIsUp'
    BY <1>2, <2>2, HubStaysUp DEF Housekeeping, docker, hub
  <2> QED  BY <1>1, <2>2, <2>3, <2>4, HouseGoesOn
<1>7. CASE ApplyLogins(r) \/ BreakLogin(r)
  <2>1. runs[r].kind = "login" /\ UNCHANGED <<noVpn, hub>>
    BY <1>7 DEF ApplyLogins, BreakLogin, At, disk
  <2>2. PICK new : /\ runs' = [runs EXCEPT ![r] = new]
                   /\ new.kind \in {"none", "login"}
                   /\ new.pc \in {"end", "probe", "logins", "up"}
                   /\ new.kind = "login" => new.todo # {}
    <3> DEFINE rest == runs[r].todo \ {First(runs[r].todo)}
    <3>1. CASE Finish(r)
      <4>1. PICK new : new = Idle
        OBVIOUS
      <4>2. runs' = [runs EXCEPT ![r] = new] /\ new.kind = "none" /\ new.pc = "end"
        BY <3>1, <4>1 DEF Finish, Idle
      <4> QED  BY <4>2
    <3>2. CASE ApplyLogins(r) /\ ~Finish(r)
      <4>1. PICK accepted \in SUBSET runs[r].todo :
              /\ accepted # {}
              /\ Continue(r, [runs[r] EXCEPT !.pc = "probe", !.todo = accepted])
        BY <3>2 DEF ApplyLogins
      <4>2. PICK new : new = [runs[r] EXCEPT !.pc = "probe", !.todo = accepted]
        OBVIOUS
      <4>3. /\ runs' = [runs EXCEPT ![r] = new] /\ new.pc = "probe" /\ new.kind = "login"
            /\ new.todo # {}
        BY <1>1, <2>1, <4>1, <4>2 DEF Continue, Run
      <4> QED  BY <4>3
    <3>3. CASE BreakLogin(r) /\ ~Finish(r)
      <4>1. PICK new : new = [runs[r] EXCEPT !.pc = IF rest = {} THEN "logins" ELSE "up",
                                             !.todo = rest]
        OBVIOUS
      <4>2. runs' = [runs EXCEPT ![r] = new]
        BY <3>3, <4>1 DEF BreakLogin, NextBringUp, Continue
      <4>3. new.pc \in {"logins", "up"} /\ new.kind = "login" /\ new.todo = rest
        BY <1>1, <2>1, <4>1 DEF Run
      <4>4. rest # {}
        BY <2>1, <3>3 DEF BreakLogin, NextBringUp
      <4> QED  BY <4>2, <4>3, <4>4
    <3> QED  BY <1>7, <3>1, <3>2, <3>3
  <2>3. IsHoused(new)'
    BY <2>2, NothingHoused DEF Builders
  <2>4. HubIsUp'
    BY <1>2, <2>1, HubStaysUp DEF Housekeeping, docker, hub
  <2> QED  BY <1>1, <2>2, <2>3, <2>4, HouseGoesOn
<1>8. CASE ClearConfirmation(r) \/ End(r)
  <2>1. PICK new : new = Idle
    OBVIOUS
  <2>2. runs' = [runs EXCEPT ![r] = new] /\ new.kind = "none"
    BY <1>8, <2>1 DEF ClearConfirmation, End, Finish, Idle
  <2>3. UNCHANGED hub /\ (noVpn' = noVpn \/ Vpn \in apps)
    BY <1>1, <1>8 DEF ClearConfirmation, End, At, RunIsSound, TailIsAMove, disk
  <2>4. HubIsUp'
    BY <1>2, <2>3, HubStaysUp DEF Housekeeping, docker, hub
  <2> QED  BY <1>1, <2>2, <2>4, HouseGoesOn
<1>9. CASE PutLogins(r)
  <2>1. PICK new : new = [runs[r] EXCEPT !.pc = "wire"]
    OBVIOUS
  <2>2. /\ runs' = [runs EXCEPT ![r] = new] /\ SameRun(new, runs[r]) /\ new.pc = "wire"
        /\ new.todo = runs[r].todo /\ runs[r].pc = "logins" /\ UNCHANGED <<compose, noVpn>>
    BY <1>1, <1>9, <2>1 DEF PutLogins, At, Goto, Continue, SameRun, Run, disk
  <2>3. IsHoused(new)'
    <3>1. CASE new.kind \in Builders
      <4>1. BringUps(new) = BringUps(runs[r])
        BY <2>2, <3>1, SameBringUps DEF SameRun
      <4>2. TakeDownIsSound(new)' /\ Rewritten(new)'
        BY <1>1, <2>2 DEF IsHoused, TakeDownIsSound, Rewritten, SameRun, Stage
      <4>3. BringingUp(new)'
        BY <1>1, <1>2, <2>2, <4>1
           DEF IsHoused, BringingUp, SameRun, BringUps, Answers, docker
      <4> QED  BY <1>1, <2>2, <4>2, <4>3 DEF IsHoused, HasWork, SameRun
    <3>2. CASE new.kind \notin Builders
      <4>1. new.kind # "login"
        BY <1>9, <2>2 DEF PutLogins, At, Purposes, SameRun
      <4> QED  BY <2>2, <3>2, <4>1, NothingHoused
    <3> QED  BY <3>1, <3>2
  <2>4. phase' = "finale" => phase = "finale" /\ apps' = apps /\ adding'.moves = adding.moves
    <3>1. CASE runs[r].kind = "deploy"
      BY <1>9, <3>1 DEF PutLogins, Emit
    <3>2. CASE runs[r].kind # "deploy"
      <4>1. /\ phase' = phase /\ apps' = apps
            /\ adding' = adding \/ (adding # NoAdd /\ adding' = [adding EXCEPT !.state = "wiring"])
        BY <1>9, <3>2 DEF PutLogins, Emit, hub
      <4> QED  BY <4>1 DEF TypeOK, HubOK, AppAdd
    <3> QED  BY <3>1, <3>2
  <2>5. HubIsUp'
    BY <1>2, <2>2, <2>4, HubStaysUp DEF Housekeeping, docker
  <2> QED  BY <1>1, <2>2, <2>3, <2>5, HouseGoesOn
<1>10. BeginFromDisk(r) => Fail(r) \/ UNCHANGED hub
  BY DEF BeginFromDisk
<1> QED  BY <1>3, <1>4, <1>5, <1>6, <1>7, <1>8, <1>9, <1>10

(* What a run that changes the Hub takes from its adding. *)
LEMMA WhatMoves ==
  ASSUME TypeOK, OneWorker, Bookkeeping, NEW run \in Run, RunIsSound(run),
         run.kind \in {"add", "change_vpn", "restore"}, run.pc \in Stage
  PROVE  /\ phase = "finale" /\ adding \in AppAdd /\ adding.purpose = run.kind
         /\ adding.app = run.app /\ run.movers = adding.moves
         /\ run.movers \subseteq RidersOf(apps) /\ run.ids = install
         /\ install = apps \cup run.comps \cup {run.app} /\ run.comps \subseteq {Vpn}
         /\ run.kind = "add" => run.app \notin apps /\ run.comps \cap apps = {}
         /\ run.kind # "add" => run.app \in apps /\ run.comps = {}
<1>1. /\ adding # NoAdd /\ phase = "finale"
      /\ adding.purpose = run.kind /\ adding.app = run.app
  BY DEF Stage, RunIsSound, AddingIsWorkedOn, Purposes, NoAdd, OneWorker, AddingOnAFinale
<1>2. adding \in AppAdd
  BY <1>1 DEF TypeOK, HubOK
<1>3. run.movers = adding.moves /\ run.ids = install
  BY DEF Stage, RunIsSound, RunHoldsItsAdding
<1>4. adding.moves \subseteq RidersOf(apps)
  BY <1>1 DEF Bookkeeping, AddingIsSound
<1>5. CASE run.kind = "add"
  BY <1>1, <1>2, <1>3, <1>4, <1>5
     DEF Stage, RunIsSound, RunHoldsItsAdding, Bookkeeping, AddingIsSound
<1>6. CASE run.kind \in {"change_vpn", "restore"}
  <2>1. run.comps = {} /\ adding.comps = {} /\ adding.app \in apps
    BY <1>1, <1>6 DEF RunIsSound, RunHoldsItsAdding, Bookkeeping, AddingIsSound, Purposes
  <2>2. install = apps
    BY <1>1, <2>1 DEF Bookkeeping, HubAgreesWithInstall
  <2> QED  BY <1>1, <1>2, <1>3, <1>4, <1>6, <2>1, <2>2
<1> QED  BY <1>5, <1>6

(* A container goes that the Hub does not count on. *)
LEMMA HubSparesIt ==
  ASSUME TypeOK, HubIsUp, phase = "finale", UNCHANGED <<hub, noVpn>>,
         NEW a \in App, a \notin ServedApps,
         a \notin RidersOf(apps) \/ a \in adding.moves,
         a = Vpn => RidersOf(apps) \subseteq adding.moves,
         RemoveContainer(a) \/ StopContainer(a)
  PROVE  HubIsUp'
<1>1. running' = running \ {a}
  BY DEF RemoveContainer, StopContainer
<1>2. HubAppsAreUp'
  BY <1>1 DEF HubIsUp, HubAppsAreUp, ServedApps, hub
<1>3. Vpn \notin Rider /\ Rider \subseteq App /\ Vpn \in App
  BY CatalogAssumption
<1>4. CASE StopContainer(a)
  BY <1>2, <1>4 DEF StopContainer, HubIsUp, RidersAreProven, DownloaderIsWhereTheHubSays, hub
<1>5. CASE RemoveContainer(a)
  <2>1. \A b \in App : container'[b] = CASE b = a -> "none"
                                         [] b # a /\ a = Vpn /\ container[b] = "via" -> "orphan"
                                         [] OTHER -> container[b]
    BY <1>5 DEF RemoveContainer
  <2>2. tunnel' = IF a = Vpn THEN NoTunnel ELSE tunnel
    BY <1>5 DEF RemoveContainer
  <2>3. RidersAreProven'
    <3> SUFFICES ASSUME NEW b \in Rider, container'[b] = "via"
                 PROVE  container'[Vpn] = "own" /\ tunnel'.proven
      BY DEF RidersAreProven
    <3>1. b # a /\ a # Vpn /\ container[b] = "via"
      BY <1>3, <2>1
    <3>2. container[Vpn] = "own" /\ tunnel.proven
      BY <3>1 DEF HubIsUp, RidersAreProven
    <3> QED  BY <1>3, <2>1, <2>2, <3>1, <3>2
  <2>4. DownloaderIsWhereTheHubSays'
    <3> SUFFICES ASSUME NEW b \in RidersOf(apps) \ adding.moves
                 PROVE  IF Vpn \in apps THEN container'[b] = "via"
                                        ELSE container'[b] = "own" /\ noVpn
      BY DEF DownloaderIsWhereTheHubSays, hub
    <3>1. b # a /\ a # Vpn /\ b \in App
      BY <1>3 DEF RidersOf
    <3>2. container'[b] = container[b]
      BY <2>1, <3>1
    <3> QED  BY <3>2 DEF HubIsUp, DownloaderIsWhereTheHubSays
  <2> QED  BY <1>2, <2>3, <2>4 DEF HubIsUp
<1> QED  BY <1>4, <1>5

(* self_container_id and _take_down. *)
LEMMA TakeDownKeepsHouse ==
  ASSUME ~CancelOverlap, TypeOK, OneWorker, Bookkeeping, Housekeeping, NEW r \in RunId,
         SelfId(r) \/ StopMover(r) \/ RemoveMover(r) \/ RemoveVpn(r)
  PROVE  Housekeeping'
<1>1. /\ runs[r] \in Run /\ runs[r].kind # "none" /\ \A s \in RunId : Live(s) => s = r
      /\ RunIsSound(runs[r]) /\ IsHoused(runs[r])
  BY StepIsAlone DEF RunStep, Bookkeeping, Housekeeping, Live
<1>2. /\ runs[r].pc \in {"self_id", "stop", "remove", "unseat"} /\ runs[r].kind # "reconnect"
      /\ UNCHANGED <<compose, noVpn>>
  BY <1>1 DEF SelfId, StopMover, RemoveMover, RemoveVpn, At, RunIsSound, RunHoldsItsAdding, disk
<1>3. CASE SelfId(r)
  <2>1. /\ UNCHANGED <<phase, apps, docker>>
        /\ adding' = adding \/ (adding # NoAdd /\ adding' = [adding EXCEPT !.ran = TRUE])
    BY <1>3 DEF SelfId
  <2>2. adding'.moves = adding.moves
    BY <2>1 DEF TypeOK, HubOK, AppAdd
  <2>3. HubIsUp'
    BY <1>2, <2>1, <2>2, HubStaysUp DEF Housekeeping, docker
  <2>4. CASE runs[r].kind \in {"add", "change_vpn"} /\ runs[r].movers # {}
    <3>1. PICK new : new = [runs[r] EXCEPT !.pc = "stop", !.todo = runs[r].movers]
      OBVIOUS
    <3>2. runs' = [runs EXCEPT ![r] = new]
      BY <1>3, <2>4, <3>1 DEF SelfId, Continue, ToTakeDown
    <3>3. SameRun(new, runs[r]) /\ new.pc = "stop" /\ new.todo = runs[r].movers
      BY <1>1, <3>1 DEF SameRun, Run
    <3>4. IsHoused(new)'
      BY <1>1, <1>2, <2>4, <3>3
         DEF IsHoused, TakeDownIsSound, Rewritten, BringingUp, HasWork, SameRun, Stage
    <3> QED  BY <1>1, <2>3, <3>2, <3>4, HouseGoesOn
  <2>5. CASE ~(runs[r].kind \in {"add", "change_vpn"} /\ runs[r].movers # {})
    <3>1. PICK new : new = ToBringUp(runs[r])
      OBVIOUS
    <3>2. runs' = [runs EXCEPT ![r] = new]
      BY <1>3, <2>5, <3>1 DEF SelfId, Continue, ToTakeDown
    <3>3. /\ SameRun(new, runs[r]) /\ new.todo = BringUps(runs[r])
          /\ new.pc = IF runs[r].unseat THEN "unseat" ELSE "up"
      BY <1>1, <3>1 DEF SameRun, Run, ToBringUp
    <3>4. runs[r].kind = "change_vpn" => runs[r].unseat
      BY <1>1, <1>2 DEF RunIsSound, RunHoldsItsAdding
    <3>5. CASE runs[r].kind \in Builders
      <4>1. IsHoused(new)'
        BY <1>1, <1>2, <3>3, <3>4, <3>5, BringUpStarts DEF IsHoused, Stage
      <4> QED  BY <1>1, <2>3, <3>2, <4>1, HouseGoesOn
    <3>6. CASE runs[r].kind \notin Builders
      <4>1. runs[r].kind = "login" /\ ~runs[r].unseat
        BY <1>1, <1>2, <3>6 DEF Builders, Run, Purposes, RunIsSound, LoginIsQuiet
      <4>2. IsHoused(new)'
        BY <1>1, <1>2, <3>3, <3>6, <4>1, NothingHoused DEF SameRun, IsHoused, HasWork, BringUps
      <4> QED  BY <1>1, <2>3, <3>2, <4>2, HouseGoesOn
    <3> QED  BY <3>5, <3>6
  <2> QED  BY <2>4, <2>5
<1>4. ASSUME ~SelfId(r)
      PROVE  /\ runs[r].kind \in {"add", "change_vpn"} /\ UNCHANGED hub
             /\ runs[r].kind \in Builders
  <2>1. runs[r].kind \in Purposes \ {"reconnect"}
    BY <1>2, <1>4 DEF StopMover, RemoveMover, RemoveVpn, At
  <2>2. runs[r].kind # "restore"
    <3>1. runs[r].pc \in {"stop", "remove"} => runs[r].kind # "restore"
      BY <1>1 DEF IsHoused, TakeDownIsSound
    <3>2. runs[r].pc = "unseat" => runs[r].kind # "restore"
      BY <1>1 DEF IsHoused, TakeDownIsSound, RunIsSound, RunHoldsItsAdding
    <3> QED  BY <1>2, <1>4, <3>1, <3>2 DEF StopMover, RemoveMover, RemoveVpn, At
  <2> QED  BY <1>4, <2>1, <2>2 DEF Purposes, StopMover, RemoveMover, RemoveVpn, Builders
<1>5. ASSUME ~SelfId(r)
      PROVE  /\ phase = "finale" /\ adding \in AppAdd /\ adding.purpose = runs[r].kind
             /\ adding.app = runs[r].app
             /\ runs[r].movers = adding.moves /\ runs[r].movers \subseteq RidersOf(apps)
             /\ runs[r].kind = "add" => runs[r].app \notin apps
  BY <1>1, <1>2, <1>4, <1>5, WhatMoves DEF Stage
<1>6. CASE StopMover(r) \/ RemoveMover(r)
  <2>0. ~SelfId(r) /\ runs[r].pc \in {"stop", "remove"}
    BY <1>6 DEF StopMover, RemoveMover, SelfId, At
  <2>1. PICK gone : gone = Last(runs[r].todo)
    OBVIOUS
  <2>2. gone \in runs[r].todo /\ gone \in adding.moves /\ gone \in Rider
    <3>1. runs[r].todo # {} /\ runs[r].todo \subseteq adding.moves /\ adding.moves \subseteq Rider
      BY <1>1, <1>5, <2>0 DEF IsHoused, TakeDownIsSound, RidersOf
    <3> QED  BY <2>1, <3>1, LastMover
  <2>3. HubIsUp'
    <3>1. RemoveContainer(gone) \/ StopContainer(gone) \/ UNCHANGED docker
      BY <1>6, <2>1 DEF StopMover, RemoveMover
    <3>2. CASE UNCHANGED docker
      BY <1>2, <1>4, <2>0, <3>2, HubStaysUp DEF Housekeeping, docker, hub
    <3>3. CASE RemoveContainer(gone) \/ StopContainer(gone)
      <4>1. gone \in App /\ gone # Vpn /\ gone \notin ServedApps
        BY <2>2, CatalogAssumption DEF ServedApps
      <4> QED  BY <1>2, <1>4, <1>5, <2>0, <2>2, <3>3, <4>1, HubSparesIt DEF Housekeeping
    <3> QED  BY <3>1, <3>2, <3>3
  <2>4. CASE StopMover(r)
    <3>1. PICK new : new = [runs[r] EXCEPT !.pc = "remove"]
      OBVIOUS
    <3>2. /\ runs' = [runs EXCEPT ![r] = new] /\ SameRun(new, runs[r]) /\ new.pc = "remove"
          /\ new.todo = runs[r].todo /\ runs[r].pc = "stop"
      BY <1>1, <2>4, <3>1 DEF StopMover, At, Goto, Continue, SameRun, Run
    <3>3. IsHoused(new)'
      BY <1>1, <1>2, <3>2 
         DEF IsHoused, TakeDownIsSound, Rewritten, BringingUp, HasWork, SameRun, Stage
    <3> QED  BY <1>1, <2>3, <3>2, <3>3, HouseGoesOn
  <2>5. CASE RemoveMover(r)
    <3> DEFINE rest == runs[r].todo \ {gone}
    <3>1. runs[r].pc = "remove" /\ rest \subseteq runs[r].movers
      BY <1>1, <2>5 DEF RemoveMover, At, IsHoused, TakeDownIsSound
    <3>2. CASE rest # {}
      <4>1. PICK new : new = [runs[r] EXCEPT !.pc = "stop", !.todo = rest]
        OBVIOUS
      <4>2. runs' = [runs EXCEPT ![r] = new]
        BY <2>1, <2>5, <3>2, <4>1 DEF RemoveMover, Continue
      <4>3. SameRun(new, runs[r]) /\ new.pc = "stop" /\ new.todo = rest
        BY <1>1, <4>1 DEF SameRun, Run
      <4>4. IsHoused(new)'
        BY <1>1, <1>2, <1>4, <2>0, <3>1, <3>2, <4>3
           DEF IsHoused, TakeDownIsSound, Rewritten, BringingUp, HasWork, SameRun, Stage
      <4> QED  BY <1>1, <2>3, <4>2, <4>4, HouseGoesOn
    <3>3. CASE rest = {}
      <4>1. PICK new : new = ToBringUp(runs[r])
        OBVIOUS
      <4>2. runs' = [runs EXCEPT ![r] = new]
        BY <2>1, <2>5, <3>3, <4>1 DEF RemoveMover, Continue
      <4>3. /\ SameRun(new, runs[r]) /\ new.todo = BringUps(runs[r])
            /\ new.pc = IF runs[r].unseat THEN "unseat" ELSE "up"
        BY <1>1, <4>1 DEF SameRun, Run, ToBringUp
      <4>4. runs[r].kind = "change_vpn" => runs[r].unseat
        BY <1>1, <1>2 DEF RunIsSound, RunHoldsItsAdding
      <4>5. IsHoused(new)'
        BY <1>1, <1>2, <1>4, <2>0, <4>3, <4>4, BringUpStarts DEF IsHoused, Stage
      <4> QED  BY <1>1, <2>3, <4>2, <4>5, HouseGoesOn
    <3> QED  BY <3>2, <3>3
  <2> QED  BY <1>6, <2>4, <2>5
<1>7. CASE RemoveVpn(r)
  <2>0. ~SelfId(r) /\ runs[r].pc = "unseat" /\ RemoveContainer(Vpn)
    BY <1>7 DEF RemoveVpn, SelfId, At
  <2>1. runs[r].unseat /\ runs[r].todo = BringUps(runs[r])
    BY <1>1, <2>0 DEF IsHoused, TakeDownIsSound
  <2>2. RidersOf(apps) \subseteq adding.moves
    <3>1. CASE runs[r].kind = "add"
      <4>1. runs[r].app \in Rider /\ runs[r].app \notin apps
        BY <1>1, <1>5, <2>0, <2>1, <3>1 DEF RunIsSound, RunHoldsItsAdding
      <4>2. RidersOf(apps) = {}
        BY <4>1, CatalogAssumption DEF RidersOf
      <4> QED  BY <4>2
    <3>2. CASE runs[r].kind = "change_vpn"
      BY <1>5, <2>0, <3>2 DEF Bookkeeping, AddingIsSound
    <3> QED  BY <1>4, <2>0, <3>1, <3>2
  <2>3. HubIsUp'
    <3>1. Vpn \in App /\ Vpn \notin RidersOf(apps)
      BY CatalogAssumption DEF RidersOf
    <3>2. Vpn \notin ServedApps
      BY <2>2 DEF ServedApps
    <3> QED  BY <1>2, <1>4, <1>5, <2>0, <2>2, <3>1, <3>2, HubSparesIt DEF Housekeeping
  <2>4. PICK new : new = [runs[r] EXCEPT !.pc = "up"]
    OBVIOUS
  <2>5. /\ runs' = [runs EXCEPT ![r] = new] /\ SameRun(new, runs[r]) /\ new.pc = "up"
        /\ new.todo = BringUps(runs[r])
    BY <1>1, <1>7, <2>1, <2>4 DEF RemoveVpn, Goto, Continue, SameRun, Run
  <2>6. ~tunnel'.stale
    BY <2>0 DEF RemoveContainer, NoTunnel
  <2>7. IsHoused(new)'
    BY <1>1, <1>2, <1>4, <2>0, <2>5, <2>6, BringUpStarts DEF IsHoused, Stage
  <2> QED  BY <1>1, <2>3, <2>5, <2>7, HouseGoesOn
<1> QED  BY <1>3, <1>6, <1>7

(* What compose makes leaves alone what has answered, and the VPN's proof. *)
LEMMA AnswersStays ==
  ASSUME TypeOK, NEW a \in App, NEW b \in App, NEW ids, Answers(b, ids),
         \/ ComposeCreate(a, compose) \/ ComposeStart(a, compose) \/ UNCHANGED docker
  PROVE  Answers(b, ids)' /\ (b = Vpn => tunnel' = tunnel)
<1>1. container[b] # "none"
  BY DEF Answers
<1>2. CASE ComposeCreate(a, compose)
  BY <1>1, <1>2 DEF ComposeCreate, Answers, Missing
<1>3. CASE ComposeStart(a, compose) \/ UNCHANGED docker
  BY <1>3 DEF ComposeStart, Answers, docker
<1> QED  BY <1>2, <1>3

(* The app whose turn it is. *)
LEMMA ItsTurn ==
  ASSUME TypeOK, Bookkeeping, NEW run \in Run, RunIsSound(run), IsHoused(run),
         run.kind \in Builders \cup {"login"}, run.pc \in {"up", "start", "ready"}
  PROVE  /\ First(run.todo) \in run.todo
         /\ \A b \in run.todo : Order[First(run.todo)] <= Order[b]
         /\ First(run.todo) \in App
<1>1. run.todo \subseteq App
  BY DEF Run
<1>2. run.todo # {}
  BY DEF IsHoused, BringingUp, HasWork
<1>3. /\ First(run.todo) \in run.todo
      /\ \A b \in run.todo : Order[First(run.todo)] <= Order[b]
  BY <1>1, <1>2, FirstIsLeast
<1> QED  BY <1>1, <1>3

(* The VPN, if it is to be had, has answered before its rider's turn comes. *)
LEMMA VpnIsFirst ==
  ASSUME TypeOK, OneWorker, Bookkeeping, NEW run \in Run, RunIsSound(run), IsHoused(run),
         run.kind \in Builders, run.pc \in {"up", "start", "ready"},
         First(run.todo) \in Rider, Vpn \in run.ids
  PROVE  container[Vpn] = "own" /\ tunnel.proven
<1> DEFINE a == First(run.todo)
<1>1. a \in run.todo /\ \A b \in run.todo : Order[a] <= Order[b]
  BY ItsTurn
<1>2. run.todo \subseteq BringUps(run)
  BY DEF IsHoused, BringingUp
<1>3. Vpn \in BringUps(run)
  BY <1>1, <1>2, VpnComesAlong DEF Stage, Bookkeeping
<1>4. Vpn \notin run.todo
  <2>1. Order[Vpn] < Order[a] /\ Order[Vpn] \in Nat /\ Order[a] \in Nat
    BY CatalogAssumption
  <2> HIDE DEF a
  <2> QED  BY <1>1, <2>1
<1>5. Answers(Vpn, run.ids) /\ tunnel.proven
  BY <1>3, <1>4, CatalogAssumption DEF IsHoused, BringingUp
<1>6. Vpn \notin Rider
  BY CatalogAssumption
<1> QED  BY <1>5, <1>6 DEF Answers

(* docker-compose up of the app whose turn it is. *)
LEMMA CreateKeepsHub ==
  ASSUME TypeOK, OneWorker, Bookkeeping, HubIsUp, NEW run \in Run,
         RunIsSound(run), IsHoused(run), run.kind \in Builders, run.pc = "up",
         ComposeCreate(First(run.todo), compose), UNCHANGED <<hub, noVpn>>
  PROVE  HubIsUp'
<1>1. PICK a \in App : a = First(run.todo)
  BY ItsTurn
<1>2. /\ \A b \in App : container'[b] = IF b \in Missing(a, compose) THEN NetworkOf(b, compose)
                                                                     ELSE container[b]
      /\ tunnel' = IF Vpn \in Missing(a, compose)
                     THEN [NoTunnel EXCEPT !.published = RidersOf(compose) # {}] ELSE tunnel
      /\ running' = running
  BY <1>1 DEF ComposeCreate
<1>3. \A b \in Missing(a, compose) : container[b] = "none" /\ b \in {a, Vpn}
  BY DEF Missing, Services
<1>4. Vpn \in App /\ Vpn \notin Rider /\ Rider \subseteq App
  BY CatalogAssumption
<1>5. compose = run.ids
  BY DEF IsHoused, Rewritten, Stage
<1>6. RidersAreProven'
  <2> SUFFICES ASSUME NEW b \in Rider, container'[b] = "via"
               PROVE  container'[Vpn] = "own" /\ tunnel'.proven
    BY DEF RidersAreProven
  <2>1. container[Vpn] = "own" /\ tunnel.proven
    <3>1. CASE b \in Missing(a, compose)
      <4>1. b = a /\ Vpn \in run.ids
        BY <1>2, <1>3, <1>4, <1>5, <3>1 DEF NetworkOf
      <4> QED  BY <1>1, <4>1, VpnIsFirst
    <3>2. CASE b \notin Missing(a, compose)
      BY <1>2, <1>4, <3>2 DEF HubIsUp, RidersAreProven
    <3> QED  BY <3>1, <3>2
  <2> QED  BY <1>2, <1>3, <1>4, <2>1
<1>7. HubAppsAreUp'
  BY <1>2 DEF HubIsUp, HubAppsAreUp, ServedApps, hub
<1>8. DownloaderIsWhereTheHubSays'
  <2> SUFFICES ASSUME phase = "finale", NEW b \in RidersOf(apps) \ adding.moves
               PROVE  IF Vpn \in apps THEN container'[b] = "via"
                                      ELSE container'[b] = "own" /\ noVpn
    BY DEF DownloaderIsWhereTheHubSays, hub
  <2>1. IF Vpn \in apps THEN container[b] = "via" ELSE container[b] = "own" /\ noVpn
    BY DEF HubIsUp, DownloaderIsWhereTheHubSays
  <2>2. b \in App /\ b \notin Missing(a, compose)
    BY <1>3, <1>4, <2>1 DEF RidersOf
  <2> QED  BY <1>2, <2>1, <2>2
<1> QED  BY <1>6, <1>7, <1>8 DEF HubIsUp

(* A login run's up, without --no-recreate, of an arr app. *)
LEMMA RecreateKeepsHub ==
  ASSUME TypeOK, HubIsUp, NEW a \in Arr, ComposeRecreate(a), UNCHANGED <<hub, noVpn>>
  PROVE  HubIsUp'
<1>1. a \in App /\ a # Vpn /\ a \notin Rider /\ Vpn \in App /\ Rider \subseteq App
  BY CatalogAssumption
<1>2. /\ \A b \in App \ {a} : container'[b] = container[b]
      /\ tunnel' = tunnel /\ running' = running \ {a}
  BY <1>1 DEF ComposeRecreate, TypeOK, DockerTypeOK
<1>3. RidersAreProven'
  BY <1>1, <1>2 DEF HubIsUp, RidersAreProven
<1>4. HubAppsAreUp'
  <2>1. a \notin ServedApps /\ ServedApps' = ServedApps
    BY DEF ServedApps, hub
  <2> QED  BY <1>2, <2>1 DEF HubIsUp, HubAppsAreUp, hub
<1>5. DownloaderIsWhereTheHubSays'
  BY <1>1, <1>2 DEF HubIsUp, DownloaderIsWhereTheHubSays, RidersOf, hub
<1> QED  BY <1>3, <1>4, <1>5 DEF HubIsUp

(* Starting one container leaves the others up.                               *)
LEMMA StartKeepsHub ==
  ASSUME HubIsUp, NEW a, ComposeStart(a, compose), UNCHANGED <<hub, noVpn>>
  PROVE  HubIsUp'
<1>1. UNCHANGED <<container, tunnel>> /\ running \subseteq running'
  BY DEF ComposeStart
<1>2. RidersAreProven' /\ DownloaderIsWhereTheHubSays'
  BY <1>1 DEF HubIsUp, RidersAreProven, DownloaderIsWhereTheHubSays, hub
<1>3. HubAppsAreUp'
  BY <1>1 DEF HubIsUp, HubAppsAreUp, ServedApps, hub
<1> QED  BY <1>2, <1>3 DEF HubIsUp

(* _bring_up_app up to its readiness loop. *)
LEMMA CreateAndStartKeepHouse ==
  ASSUME ~CancelOverlap, TypeOK, OneWorker, Bookkeeping, Housekeeping, NEW r \in RunId,
         Create(r) \/ StartUp(r)
  PROVE  Housekeeping'
<1>1. /\ runs[r] \in Run /\ runs[r].kind # "none" /\ \A s \in RunId : Live(s) => s = r
      /\ RunIsSound(runs[r]) /\ IsHoused(runs[r])
  BY StepIsAlone DEF RunStep, Bookkeeping, Housekeeping, Live
<1>2. /\ runs[r].pc \in {"up", "start"} /\ UNCHANGED <<compose, noVpn, hub>>
      /\ runs[r].kind \in Builders \cup {"login"}
  BY <1>1 DEF Create, StartUp, At, disk, Purposes, Builders, RunIsSound, RunHoldsItsAdding
<1>3. PICK a \in App : a = First(runs[r].todo)
  BY <1>1, <1>2, ItsTurn
<1>4. PICK pc \in {"start", "ready"} : Goto(r, pc)
  BY DEF Create, StartUp
<1>5. PICK new : new = [runs[r] EXCEPT !.pc = pc]
  OBVIOUS
<1>6. /\ runs' = [runs EXCEPT ![r] = new] /\ SameRun(new, runs[r])
      /\ new.pc = pc /\ new.todo = runs[r].todo
  BY <1>1, <1>4, <1>5 DEF Goto, Continue, SameRun, Run
<1>7. CASE runs[r].kind \in Builders
  <2>1. ComposeCreate(a, compose) \/ ComposeStart(a, compose) \/ UNCHANGED docker
    BY <1>3, <1>7 DEF Create, StartUp, Builders
  <2>2. HubIsUp'
    <3>1. CASE ComposeCreate(a, compose) /\ runs[r].pc = "up"
      BY <1>1, <1>2, <1>3, <1>7, <3>1, CreateKeepsHub DEF Housekeeping
    <3>2. CASE ComposeStart(a, compose)
      BY <1>2, <3>2, StartKeepsHub DEF Housekeeping
    <3>3. CASE UNCHANGED docker
      BY <1>2, <3>3, HubStaysUp DEF Housekeeping, docker, hub
    <3>4. runs[r].pc # "up" => ComposeStart(a, compose)
      BY <1>3 DEF Create, StartUp, At
    <3> QED  BY <2>1, <3>1, <3>2, <3>3, <3>4
  <2>3. BringUps(new) = BringUps(runs[r])
    BY <1>6, <1>7, SameBringUps
  <2>4. TakeDownIsSound(new)' /\ Rewritten(new)' /\ HasWork(new)'
    BY <1>1, <1>2, <1>6, <1>7
       DEF IsHoused, TakeDownIsSound, Rewritten, HasWork, SameRun, Stage, Builders
  <2>5. BringingUp(new)'
    <3>1. /\ runs[r].todo \subseteq BringUps(runs[r]) /\ runs[r].todo # {}
          /\ \A b \in (BringUps(runs[r]) \cap Managed) \ runs[r].todo : Answers(b, runs[r].ids)
          /\ Vpn \in BringUps(runs[r]) \ runs[r].todo => tunnel.proven
          /\ runs[r].kind = "change_vpn" => ~tunnel.stale
      BY <1>1, <1>2, <1>7 DEF IsHoused, BringingUp
    <3>2. ASSUME NEW b \in (BringUps(new) \cap Managed) \ new.todo
          PROVE  Answers(b, new.ids)'
      <4>1. Answers(b, new.ids) /\ b \in App
        BY <1>6, <2>3, <3>1, CatalogAssumption DEF SameRun
      <4> QED  BY <1>3, <2>1, <4>1, AnswersStays
    <3>3. Vpn \in BringUps(runs[r]) \ runs[r].todo => tunnel'.proven
      BY <1>3, <2>1, <3>1, AnswersStays, CatalogAssumption
    <3>4. runs[r].kind = "change_vpn" => ~tunnel'.stale
      <4>1. tunnel' = tunnel \/ tunnel' = [NoTunnel EXCEPT !.published = RidersOf(compose) # {}]
        BY <2>1 DEF ComposeCreate, ComposeStart, docker
      <4>2. ~[NoTunnel EXCEPT !.published = RidersOf(compose) # {}].stale
        BY DEF NoTunnel
      <4> QED  BY <3>1, <4>1, <4>2
    <3>5. BringUps(new)' = BringUps(new)
      BY DEF BringUps
    <3>6. /\ new.todo \subseteq BringUps(new) /\ new.todo # {} /\ new.pc \in {"up", "start", "ready"}
          /\ Vpn \in BringUps(new) \ new.todo => tunnel'.proven
          /\ new.kind = "change_vpn" => ~tunnel'.stale
      BY <1>6, <2>3, <3>1, <3>3, <3>4 DEF SameRun
    <3> QED  BY <3>2, <3>5, <3>6 DEF BringingUp
  <2> QED  BY <1>1, <1>6, <2>2, <2>4, <2>5, HouseGoesOn DEF IsHoused
<1>8. CASE runs[r].kind = "login"
  <2>1. a \in Arr
    BY <1>1, <1>2, <1>3, <1>8, ItsTurn DEF RunIsSound, LoginIsQuiet
  <2>2. ComposeRecreate(a) \/ ComposeStart(a, compose) \/ UNCHANGED docker
    BY <1>3, <1>8 DEF Create, StartUp
  <2>3. HubIsUp'
    <3>1. CASE ComposeRecreate(a)
      BY <1>2, <2>1, <3>1, RecreateKeepsHub DEF Housekeeping
    <3>2. CASE ComposeStart(a, compose)
      BY <1>2, <3>2, StartKeepsHub DEF Housekeeping
    <3>3. CASE UNCHANGED docker
      BY <1>2, <3>3, HubStaysUp DEF Housekeeping, docker, hub
    <3> QED  BY <2>2, <3>1, <3>2, <3>3
  <2>4. IsHoused(new)'
    BY <1>1, <1>2, <1>6, <1>8, NothingHoused DEF SameRun, IsHoused, HasWork, Builders
  <2> QED  BY <1>1, <1>6, <2>3, <2>4, HouseGoesOn
<1> QED  BY <1>2, <1>7, <1>8

(* The app whose turn it was has answered. *)
LEMMA ReadyKeepsHouse ==
  ASSUME ~CancelOverlap, TypeOK, OneWorker, Bookkeeping, Housekeeping, NEW r \in RunId,
         Ready(r)
  PROVE  Housekeeping'
<1>1. /\ runs[r] \in Run /\ runs[r].kind # "none" /\ \A s \in RunId : Live(s) => s = r
      /\ RunIsSound(runs[r]) /\ IsHoused(runs[r])
  BY StepIsAlone DEF RunStep, Bookkeeping, Housekeeping, Live
<1>2. /\ runs[r].pc = "ready" /\ UNCHANGED <<compose, noVpn, hub, container, running>>
      /\ runs[r].kind \in Builders \cup {"login"}
  BY <1>1 DEF Ready, At, disk, Purposes, Builders, RunIsSound, RunHoldsItsAdding
<1>3. PICK a \in App : a = First(runs[r].todo)
  BY <1>1, <1>2, ItsTurn
<1>4. /\ a \in Managed => Answers(a, runs[r].ids)
      /\ tunnel' = IF a = Vpn THEN [tunnel EXCEPT !.proven = TRUE] ELSE tunnel
      /\ NextBringUp(r)
  BY <1>3 DEF Ready
<1>5. /\ tunnel.proven => tunnel'.proven
      /\ a = Vpn => tunnel'.proven
      /\ tunnel'.stale = tunnel.stale
  BY <1>4 DEF TypeOK, DockerTypeOK, Tunnel
<1>6. HubIsUp'
  BY <1>2, <1>5 DEF Housekeeping, HubIsUp, RidersAreProven, HubAppsAreUp, ServedApps,
                    DownloaderIsWhereTheHubSays, hub
<1>7. PICK rest : rest = runs[r].todo \ {a}
  OBVIOUS
<1>8. CASE rest = {} /\ runs[r].kind = "login"
  <2>1. PICK new : new = Idle
    OBVIOUS
  <2>2. runs' = [runs EXCEPT ![r] = new] /\ new.kind = "none"
    BY <1>3, <1>4, <1>7, <1>8, <2>1 DEF NextBringUp, Finish, Idle
  <2> QED  BY <1>1, <1>6, <2>2, HouseGoesOn
<1>9. CASE ~(rest = {} /\ runs[r].kind = "login")
  <2>1. PICK new : new = [runs[r] EXCEPT !.pc = IF rest = {} THEN "logins" ELSE "up",
                                         !.todo = rest]
    OBVIOUS
  <2>2. runs' = [runs EXCEPT ![r] = new]
    BY <1>3, <1>4, <1>7, <1>9, <2>1 DEF NextBringUp, Continue
  <2>3. /\ SameRun(new, runs[r]) /\ new.todo = rest
        /\ new.pc = IF rest = {} THEN "logins" ELSE "up"
    BY <1>1, <2>1 DEF SameRun, Run
  <2>4. CASE runs[r].kind \in Builders
    <3>1. BringUps(new) = BringUps(runs[r])
      BY <2>3, <2>4, SameBringUps
    <3>2. TakeDownIsSound(new)' /\ Rewritten(new)' /\ HasWork(new)'
      BY <1>1, <1>2, <2>3, <2>4
         DEF IsHoused, TakeDownIsSound, Rewritten, HasWork, SameRun, Stage, Builders
    <3>3. /\ runs[r].todo \subseteq BringUps(runs[r])
          /\ \A b \in (BringUps(runs[r]) \cap Managed) \ runs[r].todo : Answers(b, runs[r].ids)
          /\ Vpn \in BringUps(runs[r]) \ runs[r].todo => tunnel.proven
          /\ runs[r].kind = "change_vpn" => ~tunnel.stale
      BY <1>1, <1>2, <2>4 DEF IsHoused, BringingUp
    <3>4. ASSUME NEW b \in (BringUps(new) \cap Managed) \ rest
          PROVE  Answers(b, new.ids)'
      <4>1. Answers(b, runs[r].ids) /\ new.ids = runs[r].ids
        <5>1. CASE b = a
          BY <1>4, <2>3, <3>4, <5>1 DEF SameRun
        <5>2. CASE b # a
          <6>1. b \in (BringUps(runs[r]) \cap Managed) \ runs[r].todo
            BY <1>7, <3>1, <5>2
          <6> QED  BY <2>3, <3>3, <6>1 DEF SameRun
        <5> QED  BY <5>1, <5>2
      <4> QED  BY <1>2, <4>1 DEF Answers
    <3>5. Vpn \in BringUps(runs[r]) \ rest => tunnel'.proven
      BY <1>5, <1>7, <3>3
    <3>6. BringingUp(new)'
      <4>1. BringUps(new)' = BringUps(new)
        BY DEF BringUps
      <4>3. new.todo \subseteq BringUps(new) /\ (new.pc \in {"up", "start", "ready"} <=> new.todo # {})
        BY <1>7, <2>3, <3>1, <3>3
      <4>4. new.kind = "change_vpn" => ~tunnel'.stale
        BY <1>5, <2>3, <3>3 DEF SameRun
      <4>5. Vpn \in BringUps(new) \ new.todo => tunnel'.proven
        BY <2>3, <3>1, <3>5
      <4> QED  BY <2>3, <3>4, <4>1, <4>3, <4>4, <4>5 DEF BringingUp
    <3> QED  BY <1>1, <1>6, <2>2, <3>2, <3>6, HouseGoesOn DEF IsHoused
  <2>5. CASE runs[r].kind = "login"
    <3>1. IsHoused(new)'
      BY <1>9, <2>3, <2>5, NothingHoused DEF SameRun, Builders
    <3> QED  BY <1>1, <1>6, <2>2, <3>1, HouseGoesOn
  <2> QED  BY <1>2, <2>4, <2>5
<1> QED  BY <1>8, <1>9


(* What a run brings up is all it owes: what it adds and what it moved. *)
LEMMA NothingElseIsOwed ==
  ASSUME TypeOK, OneWorker, Bookkeeping, NEW run \in Run, RunIsSound(run),
         run.kind \in {"add", "change_vpn", "restore"}, run.pc \in Stage
  PROVE  /\ run.movers \subseteq BringUps(run) /\ run.ids \ apps \subseteq BringUps(run)
         /\ run.movers # {} /\ Vpn \in run.ids => Vpn \in BringUps(run)
         /\ Vpn \in run.ids \ BringUps(run) => RidersOf(run.ids) = RidersOf(apps)
         /\ Vpn \in run.ids \ apps => RidersOf(apps) \subseteq BringUps(run)
<1>1. /\ adding.purpose = run.kind /\ adding.app = run.app /\ run.movers = adding.moves
      /\ run.ids = apps \cup run.comps \cup {run.app} /\ run.comps \subseteq {Vpn}
      /\ run.kind = "add" => run.app \notin apps
      /\ run.kind # "add" => run.app \in apps /\ run.comps = {}
      /\ phase = "finale" /\ run.movers \subseteq RidersOf(apps)
  BY WhatMoves
<1>2. CASE run.kind = "add"
  <2>1. BringUps(run) = (IF run.unseat THEN {Vpn} ELSE run.comps) \cup {run.app} \cup run.movers
    BY <1>2 DEF BringUps
  <2>2. /\ run.movers = IF run.app = Vpn THEN RidersOf(apps) ELSE {}
        /\ run.comps # {} => run.app \in Rider
    BY <1>1, <1>2
       DEF Bookkeeping, AddingIsSound, RunIsSound, RunHoldsItsAdding, Stage
  <2>3. run.app \in Rider /\ Vpn \in apps => run.unseat
    BY <1>2 DEF RunIsSound, RunHoldsItsAdding, Stage
  <2>4. Vpn \notin Rider /\ \A a, b \in Rider : a = b
    BY CatalogAssumption
  <2>5. run.movers \subseteq BringUps(run) /\ run.ids \ apps \subseteq BringUps(run)
    BY <1>1, <2>1
  <2>6. run.movers # {} => Vpn \in BringUps(run)
    BY <2>1, <2>2
  <2>7. ASSUME Vpn \in run.ids \ BringUps(run)
        PROVE  RidersOf(run.ids) = RidersOf(apps)
    <3>1. run.app # Vpn /\ run.comps = {} /\ run.app \notin Rider
      BY <1>1, <2>1, <2>3, <2>5, <2>7
    <3> QED  BY <1>1, <3>1 DEF RidersOf
  <2>8. ASSUME Vpn \in run.ids \ apps
        PROVE  RidersOf(apps) \subseteq BringUps(run)
    <3>1. CASE run.app = Vpn
      BY <2>2, <2>5, <3>1
    <3>2. CASE run.app # Vpn
      <4>1. run.app \in Rider
        BY <1>1, <2>2, <2>8, <3>2
      <4>2. RidersOf(apps) = {}
        BY <1>1, <1>2, <2>4, <4>1 DEF RidersOf
      <4> QED  BY <4>2
    <3> QED  BY <3>1, <3>2
  <2> QED  BY <2>5, <2>6, <2>7, <2>8
<1>3. CASE run.kind = "change_vpn"
  <2>1. BringUps(run) = {Vpn} \cup run.movers /\ run.ids = apps
    BY <1>1, <1>3 DEF BringUps
  <2> QED  BY <2>1
<1>4. CASE run.kind = "restore"
  <2>1. BringUps(run) = run.movers /\ run.ids = apps
    BY <1>1, <1>4 DEF BringUps
  <2>2. Vpn \notin apps
    BY <1>1, <1>4 DEF Bookkeeping, AddingIsSound
  <2> QED  BY <2>1, <2>2
<1> QED  BY <1>2, <1>3, <1>4

(* Wiring: the apps of the run become those of the Hub. *)
LEMMA WireKeepsHouse ==
  ASSUME ~CancelOverlap, TypeOK, OneWorker, Bookkeeping, Housekeeping, NEW r \in RunId,
         Wire(r)
  PROVE  Housekeeping'
<1>1. /\ runs[r] \in Run /\ runs[r].kind # "none" /\ \A s \in RunId : Live(s) => s = r
      /\ RunIsSound(runs[r]) /\ IsHoused(runs[r])
  BY StepIsAlone DEF RunStep, Bookkeeping, Housekeeping, Live
<1>2. /\ runs[r].pc = "wire" /\ runs[r].kind \in Purposes \cup {"deploy"}
      /\ UNCHANGED <<noVpn, docker>>
  BY DEF Wire, At, disk
<1>3. PICK pc \in {"tail", "end"} : Goto(r, pc)
  BY DEF Wire
<1>4. PICK new : new = [runs[r] EXCEPT !.pc = pc]
  OBVIOUS
<1>5. runs' = [runs EXCEPT ![r] = new] /\ new.pc = pc /\ new.kind = runs[r].kind
  BY <1>1, <1>3, <1>4 DEF Goto, Continue, Run
<1>6. IsHoused(new)'
  <2>1. new.kind # "login"
    BY <1>2, <1>5 DEF Purposes
  <2> QED  BY <1>5, <2>1, NothingHoused DEF Stage
<1>7. RidersAreProven'
  BY <1>2 DEF Housekeeping, HubIsUp, RidersAreProven, docker
<1>8. adding' = NoAdd /\ adding'.moves = {}
  BY DEF Wire, Emit, NoAdd
<1>9. runs[r].kind \in Builders =>
        /\ \A a \in BringUps(runs[r]) \cap Managed : Answers(a, runs[r].ids)
        /\ runs[r].kind \in {"deploy", "add"} => PlanBuilds(runs[r].ids, noVpn)
  BY <1>1, <1>2 DEF IsHoused, Rewritten, BringingUp, Stage
<1>10. Rider \subseteq Managed
  BY CatalogAssumption
<1>11. CASE runs[r].kind = "deploy"
  <2>1. /\ phase' = "finale" /\ apps' = runs[r].ids /\ BringUps(runs[r]) = runs[r].ids
        /\ \A a \in runs[r].ids \cap Managed : Answers(a, runs[r].ids)
        /\ PlanBuilds(runs[r].ids, noVpn)
    BY <1>9, <1>11 DEF Wire, Emit, BringUps, Builders
  <2>2. HubAppsAreUp'
    BY <1>2, <2>1 DEF HubAppsAreUp, ServedApps, Answers, docker
  <2>3. DownloaderIsWhereTheHubSays'
    <3> SUFFICES ASSUME NEW a \in RidersOf(apps')
                 PROVE  IF Vpn \in apps' THEN container'[a] = "via"
                                         ELSE container'[a] = "own" /\ noVpn'
      BY DEF DownloaderIsWhereTheHubSays
    <3>1. a \in Rider /\ Answers(a, runs[r].ids)
      BY <1>10, <2>1 DEF RidersOf
    <3>2. Vpn \in apps' \/ noVpn
      BY <2>1 DEF PlanBuilds
    <3> QED  BY <1>2, <2>1, <3>1, <3>2 DEF Answers, docker
  <2> QED  BY <1>1, <1>5, <1>6, <1>7, <2>2, <2>3, HouseGoesOn DEF HubIsUp
<1>12. CASE runs[r].kind \in {"add", "change_vpn", "restore"}
  <2> DEFINE run == runs[r]
             brought == BringUps(run)
  <2>1. run.pc \in Stage
    BY <1>2 DEF Stage
  <2>2. /\ phase = "finale" /\ phase' = "finale" /\ apps' = run.ids /\ apps \subseteq run.ids
        /\ run.movers = adding.moves /\ adding.purpose = run.kind
        /\ run.kind # "add" => run.app \in apps /\ run.ids = apps
    <3>1. phase' = phase /\ apps' = apps \cup run.comps \cup {run.app}
      BY <1>12 DEF Wire, Emit
    <3>2. /\ phase = "finale" /\ run.ids = apps \cup run.comps \cup {run.app}
          /\ run.movers = adding.moves /\ adding.purpose = run.kind
          /\ run.kind # "add" => run.app \in apps /\ run.comps = {}
      BY <1>1, <1>12, <2>1, WhatMoves
    <3> QED  BY <3>1, <3>2
  <2>3. /\ run.movers \subseteq brought /\ run.ids \ apps \subseteq brought
        /\ run.movers # {} /\ Vpn \in run.ids => Vpn \in brought
        /\ Vpn \in run.ids \ brought => RidersOf(run.ids) = RidersOf(apps)
        /\ Vpn \in run.ids \ apps => RidersOf(apps) \subseteq brought
    BY <1>1, <1>12, <2>1, NothingElseIsOwed
  <2>4. \A a \in brought \cap Managed : Answers(a, run.ids)
    BY <1>9, <1>12 DEF Builders
  <2> HIDE DEF brought
  <2>5. HubAppsAreUp'
    <3> SUFFICES ASSUME NEW a \in ServedApps'
                 PROVE  a \in running'
      BY DEF HubAppsAreUp
    <3>1. a \in run.ids /\ a \in Managed /\ a \notin Arr /\ (a = Vpn => RidersOf(run.ids) # {})
      BY <2>2 DEF ServedApps
    <3>2. CASE a \in brought
      BY <1>2, <2>4, <3>1, <3>2 DEF Answers, docker
    <3>3. CASE a \notin brought
      <4>1. a \in apps /\ a \notin adding.moves
        BY <2>2, <2>3, <3>1, <3>3
      <4>2. a = Vpn => RidersOf(apps) # {} /\ adding.moves = {}
        BY <2>2, <2>3, <3>1, <3>3
      <4>3. a \in ServedApps
        BY <3>1, <4>1, <4>2 DEF ServedApps
      <4> QED  BY <1>2, <2>2, <4>3 DEF Housekeeping, HubIsUp, HubAppsAreUp, docker
    <3> QED  BY <3>2, <3>3
  <2>6. DownloaderIsWhereTheHubSays'
    <3> SUFFICES ASSUME NEW a \in RidersOf(apps')
                 PROVE  IF Vpn \in apps' THEN container'[a] = "via"
                                         ELSE container'[a] = "own" /\ noVpn'
      BY DEF DownloaderIsWhereTheHubSays
    <3>1. a \in Rider /\ a \in Managed /\ a \in run.ids
      BY <1>10, <2>2 DEF RidersOf
    <3>2. CASE a \in brought
      <4>1. Answers(a, run.ids)
        BY <2>4, <3>1, <3>2
      <4>2. Vpn \in run.ids \/ noVpn
        <5>1. CASE run.kind = "add"
          BY <1>9, <3>1, <5>1 DEF PlanBuilds, RidersOf, Builders
        <5>2. CASE run.kind = "change_vpn"
          BY <2>2, <5>2 DEF Bookkeeping, AddingIsSound, Purposes
        <5>3. CASE run.kind = "restore"
          BY <2>2, <5>3 DEF Bookkeeping, AddingIsSound, Purposes
        <5> QED  BY <1>12, <5>1, <5>2, <5>3
      <4> QED  BY <1>2, <2>2, <3>1, <4>1, <4>2 DEF Answers, docker
    <3>3. CASE a \notin brought
      <4>1. a \in RidersOf(apps) /\ a \notin adding.moves
        BY <2>2, <2>3, <3>1, <3>3 DEF RidersOf
      <4>2. Vpn \in run.ids <=> Vpn \in apps
        BY <2>2, <2>3, <3>3, <4>1
      <4> QED  BY <1>2, <2>2, <4>1, <4>2
               DEF Housekeeping, HubIsUp, DownloaderIsWhereTheHubSays, docker
    <3> QED  BY <3>2, <3>3
  <2> QED  BY <1>1, <1>5, <1>6, <1>7, <2>5, <2>6, HouseGoesOn DEF HubIsUp
<1>13. CASE runs[r].kind = "reconnect"
  <2>1. /\ adding.purpose = "reconnect" /\ adding.app = runs[r].app /\ runs[r].comps = {}
    BY <1>1, <1>2, <1>13 DEF RunIsSound, AddingIsWorkedOn, RunHoldsItsAdding, Purposes
  <2>2. runs[r].app \in apps /\ adding.moves = {}
    BY <2>1 DEF Bookkeeping, AddingIsSound, Purposes
  <2>3. phase' = phase /\ apps' = apps
    BY <1>13, <2>1, <2>2 DEF Wire, Emit
  <2>4. HubIsUp'
    BY <1>2, <2>2, <2>3, HubStaysUp DEF Housekeeping, docker
  <2> QED  BY <1>1, <1>5, <1>6, <2>4, HouseGoesOn
<1> QED  BY <1>2, <1>11, <1>12, <1>13 DEF Purposes

(* A run that has not begun has made nothing yet. *)
LEMMA FreshIsHoused ==
  ASSUME NEW run,
         \/ run.kind # "login" /\ run.pc = "begin"
         \/ run.kind = "login" /\ run.pc = "apply"
         \/ run.kind = "reconnect" /\ run.pc = "wire"
         \/ run.kind = "none" /\ run.pc = "end"
  PROVE  IsHoused(run)'
BY DEF IsHoused, TakeDownIsSound, Rewritten, BringingUp, HasWork, Builders, Stage

(* A run that begins has nothing up yet that it has to keep up.               *)
LEMMA LaunchKeepsHouse ==
  ASSUME TypeOK, NEW run, Launch(run), \A s \in RunId : ~Live(s), HubIsUp',
         \/ run.kind # "login" /\ run.pc = "begin"
         \/ run.kind = "login" /\ run.pc = "apply"
         \/ run.kind = "reconnect" /\ run.pc = "wire"
  PROVE  Housekeeping'
<1> DEFINE free == CHOOSE s \in RunId : ~Live(s)
<1>1. PICK r \in RunId : r = free
  BY DEF Launch
<1>2. runs' = [runs EXCEPT ![r] = run]
  BY <1>1 DEF Launch
<1>3. IsHoused(run)'
  BY FreshIsHoused
<1> QED  BY <1>2, <1>3, HouseGoesOn DEF Live

(* The requests that start a run. *)
LEMMA LaunchesKeepHouse ==
  ASSUME TypeOK, OneWorker, Housekeeping,
         \/ Start \/ ApplyLogin
         \/ \E a \in App : AddApp(a) \/ Reconnect(a)
         \/ \E changed \in BOOLEAN : RetryAdd(changed) \/ ChangeVpn(changed)
  PROVE  Housekeeping'
<1>1. /\ ~IsRunning /\ UNCHANGED <<noVpn, phase, apps, container, running>>
      /\ tunnel'.proven = tunnel.proven
  <2>1. ~IsRunning /\ UNCHANGED <<noVpn, phase, apps>>
    BY DEF Start, ApplyLogin, AddApp, Reconnect, RetryAdd, ChangeVpn, HubIsFree, Emit, disk, hub
  <2>2. UNCHANGED docker \/ \E changed \in BOOLEAN : SaveVpnAnswers(changed)
    BY DEF Start, ApplyLogin, AddApp, Reconnect, RetryAdd, ChangeVpn
  <2> QED  BY <2>1, <2>2 DEF SaveVpnAnswers, docker, TypeOK, DockerTypeOK, Tunnel
<1>2. \A s \in RunId : ~Live(s)
  BY <1>1, NobodyWorks
<1>3. adding.moves \subseteq adding'.moves
  <2>1. CASE Start \/ ApplyLogin
    BY <2>1 DEF Start, ApplyLogin, hub
  <2>2. CASE (\E a \in App : AddApp(a) \/ Reconnect(a)) \/ \E changed \in BOOLEAN : ChangeVpn(changed)
    <3>1. adding = NoAdd
      BY <2>2 DEF AddApp, Reconnect, ChangeVpn, HubIsFree
    <3> QED  BY <3>1 DEF NoAdd
  <2>3. CASE \E changed \in BOOLEAN : RetryAdd(changed)
    <3>1. adding' = [adding EXCEPT !.state = "starting"] /\ adding \in AppAdd
      BY <2>3 DEF RetryAdd, Emit, TypeOK, HubOK, NoAdd
    <3> QED  BY <3>1 DEF AppAdd
  <2> QED  BY <2>1, <2>2, <2>3
<1>4. HubIsUp'
  BY <1>1, <1>3, HubStaysUp DEF Housekeeping
<1>5. PICK run : /\ Launch(run)
                 /\ \/ run.kind # "login" /\ run.pc = "begin"
                    \/ run.kind = "login" /\ run.pc = "apply"
                    \/ run.kind = "reconnect" /\ run.pc = "wire"
  <2>1. CASE Start
    <3>1. PICK run : run = NewRun("deploy", NoApp, install)
      OBVIOUS
    <3>2. Launch(run) /\ run.kind = "deploy" /\ run.pc = "begin"
      BY <2>1, <3>1, NewRunFields DEF Start
    <3> QED  BY <3>2
  <2>2. CASE ApplyLogin
    <3>1. PICK targets \in SUBSET (apps \cap Arr) :
            Launch([NewRun("login", NoApp, install) EXCEPT !.pc = "apply", !.todo = targets])
      BY <2>2 DEF ApplyLogin
    <3>2. PICK run : run = [NewRun("login", NoApp, install) EXCEPT !.pc = "apply", !.todo = targets]
      OBVIOUS
    <3>3. Launch(run) /\ run.kind = "login" /\ run.pc = "apply"
      BY <3>1, <3>2 DEF NewRun, Idle
    <3> QED  BY <3>3
  <2>3. ASSUME NEW a \in App, AddApp(a)
        PROVE  \E run : Launch(run) /\ run.kind # "login" /\ run.pc = "begin"
    <3>1. PICK run : run = NewRun("add", a, install)
      OBVIOUS
    <3>2. Launch(run) /\ run.kind = "add" /\ run.pc = "begin"
      BY <2>3, <3>1, NewRunFields DEF AddApp
    <3> QED  BY <3>2
  <2>4. ASSUME NEW a \in App, Reconnect(a)
        PROVE  \E run : Launch(run) /\ run.kind = "reconnect" /\ run.pc = "wire"
    <3>1. PICK run : run = [NewRun("reconnect", a, install) EXCEPT !.pc = "wire"]
      OBVIOUS
    <3>2. Launch(run) /\ run.kind = "reconnect" /\ run.pc = "wire"
      BY <2>4, <3>1 DEF Reconnect, NewRun, Idle
    <3> QED  BY <3>2
  <2>5. ASSUME NEW changed \in BOOLEAN, RetryAdd(changed)
        PROVE  \E run : Launch(run) /\ run.kind # "login" /\ run.pc = "begin"
    <3>1. PICK run : run = NewRun(adding.purpose, adding.app,
                                  IF adding.purpose = "add" THEN install ELSE {})
      OBVIOUS
    <3>2. adding.purpose # "login"
      BY <2>5 DEF RetryAdd, TypeOK, HubOK, NoAdd, AppAdd, Purposes
    <3>3. Launch(run) /\ run.kind = adding.purpose /\ run.pc = "begin"
      BY <2>5, <3>1, NewRunFields DEF RetryAdd
    <3> QED  BY <3>2, <3>3
  <2>6. ASSUME NEW changed \in BOOLEAN, ChangeVpn(changed)
        PROVE  \E run : Launch(run) /\ run.kind # "login" /\ run.pc = "begin"
    <3>1. PICK run : run = NewRun("change_vpn", Vpn, {})
      OBVIOUS
    <3>2. Launch(run) /\ run.kind = "change_vpn" /\ run.pc = "begin"
      BY <2>6, <3>1, NewRunFields DEF ChangeVpn
    <3> QED  BY <3>2
  <2> QED  BY <2>1, <2>2, <2>3, <2>4, <2>5, <2>6
<1> QED  BY <1>2, <1>4, <1>5, LaunchKeepsHouse

(* The requests that start none.  Three of them may come while a run is at   *)
(* work: they save VPN answers, or touch the confirmation.                   *)
LEMMA QuietRequestsKeepHouse ==
  ASSUME ~SecondTab, TypeOK, OneWorker, Bookkeeping, Housekeeping,
         \/ \E a \in App : Disconnect(a)
         \/ ChooseApps \/ ConfirmInWizard \/ AnswerVpnQuestions
         \/ \E S \in WizardChoices : SaveChoices(S)
         \/ ConfirmOnHub \/ UndoConfirmation
  PROVE  Housekeeping'
<1>1. UNCHANGED <<runs, container, running>> /\ tunnel'.proven = tunnel.proven
  <2>1. UNCHANGED runs
    BY DEF Disconnect, ChooseApps, ConfirmInWizard, AnswerVpnQuestions, SaveChoices,
           ConfirmOnHub, UndoConfirmation, tasks
  <2>2. UNCHANGED docker \/ SaveVpnAnswers(TRUE)
    BY DEF Disconnect, ChooseApps, ConfirmInWizard, AnswerVpnQuestions, SaveChoices,
           ConfirmOnHub, UndoConfirmation
  <2> QED  BY <2>1, <2>2 DEF SaveVpnAnswers, docker, TypeOK, DockerTypeOK, Tunnel
<1>2. CASE \E a \in App : Disconnect(a)
  <2>1. PICK a \in App : Disconnect(a)
    BY <1>2
  <2>2. /\ ~IsRunning /\ apps' = ShownApps \ {a} /\ a \notin Managed
        /\ UNCHANGED <<noVpn, phase, adding>>
    BY <2>1 DEF Disconnect
  <2>3. \A s \in RunId : ~Live(s)'
    BY <1>1, <2>2, NobodyWorks DEF Live
  <2>4. a # Vpn /\ a \notin Rider
    BY <2>2, CatalogAssumption
  <2>5. phase' = "finale" => /\ apps' \subseteq apps /\ RidersOf(apps') = RidersOf(apps)
                             /\ Vpn \in apps <=> Vpn \in apps'
    BY <2>2, <2>4 DEF ShownApps, RidersOf
  <2>6. HubIsUp'
    BY <1>1, <2>2, <2>5, HubStaysUp DEF Housekeeping
  <2> QED  BY <2>3, <2>6 DEF Housekeeping
<1>3. CASE ChooseApps \/ ConfirmInWizard \/ \E S \in WizardChoices : SaveChoices(S)
  <2>1. ~IsRunning /\ phase' # "finale"
    BY <1>3 DEF ChooseApps, ConfirmInWizard, SaveChoices, WizardOpen, Emit, hub
  <2>2. \A s \in RunId : ~Live(s)'
    BY <1>1, <2>1, NobodyWorks DEF Live
  <2>3. HubIsUp'
    BY <1>1, <2>1, HubStaysUp DEF Housekeeping
  <2> QED  BY <2>2, <2>3 DEF Housekeeping
<1>4. CASE AnswerVpnQuestions
  <2>1. UNCHANGED <<compose, noVpn, hub>> /\ (~IsRunning \/ (phase = "finale" /\ Vpn \notin apps))
    BY <1>4 DEF AnswerVpnQuestions, WizardOpen, disk
  <2>2. HubIsUp'
    BY <1>1, <2>1, HubStaysUp DEF Housekeeping, hub
  <2>3. ASSUME NEW r \in RunId, Live(r)'
        PROVE  IsHoused(runs[r])'
    <3>1. /\ runs' = runs /\ runs[r] \in Run /\ RunIsSound(runs[r]) /\ IsHoused(runs[r])
      BY <1>1, <2>3, LiveRunOK DEF Bookkeeping, Housekeeping, Live, TypeOK
    <3>2. PICK run : run = runs[r]
      OBVIOUS
    <3>3. IsRunning
      BY <1>1, <2>3, NobodyWorks DEF Live
    <3>4. run.kind = "change_vpn" => run.pc \notin Stage
      <4>1. ASSUME run.kind = "change_vpn", run.pc \in Stage
            PROVE  FALSE
        <5>1. adding.purpose = "change_vpn" /\ adding.app \in apps
          BY <3>1, <3>2, <4>1, WhatMoves
        <5> QED  BY <2>1, <3>3, <5>1 DEF Bookkeeping, AddingIsSound
      <4> QED  BY <4>1
    <3>5. TakeDownIsSound(run)' /\ Rewritten(run)' /\ HasWork(run)'
      BY <2>1, <3>1, <3>2 DEF IsHoused, TakeDownIsSound, Rewritten, HasWork, BringUps
    <3>6. BringingUp(run)'
      BY <1>1, <3>1, <3>2, <3>4 DEF IsHoused, BringingUp, BringUps, Answers, Stage
    <3> QED  BY <3>1, <3>2, <3>5, <3>6 DEF IsHoused
  <2> QED  BY <2>2, <2>3 DEF Housekeeping
<1>5. CASE ConfirmOnHub \/ UndoConfirmation
  <2>1. /\ UNCHANGED <<compose, hub, docker>> /\ adding = NoAdd
        /\ noVpn' \/ RidersOf(ShownApps) = {}
    BY <1>5 DEF ConfirmOnHub, UndoConfirmation
  <2>2. HubIsUp'
    BY <1>1, <2>1, HubStaysUp DEF Housekeeping, hub, ShownApps
  <2>3. ASSUME NEW r \in RunId, Live(r)'
        PROVE  IsHoused(runs[r])'
    <3>1. /\ runs' = runs /\ runs[r] \in Run /\ RunIsSound(runs[r]) /\ IsHoused(runs[r])
      BY <1>1, <2>3, LiveRunOK DEF Bookkeeping, Housekeeping, Live, TypeOK
    <3>2. PICK run : run = runs[r]
      OBVIOUS
    <3>3. TakeDownIsSound(run)' /\ HasWork(run)' /\ BringingUp(run)'
      BY <2>1, <3>1, <3>2
         DEF IsHoused, TakeDownIsSound, HasWork, BringingUp, BringUps, Answers, docker
    <3>4. ASSUME run.kind \in {"deploy", "add"}, run.pc \in Stage
          PROVE  PlanBuilds(run.ids, noVpn')
      <4>1. run.kind = "deploy" /\ phase \in {"running", "wiring"} /\ apps = run.ids
        BY <2>1, <3>1, <3>2, <3>4
           DEF RunIsSound, DeployIsShown, AddingIsWorkedOn, NoAdd, Stage, Purposes
      <4> QED  BY <2>1, <4>1 DEF PlanBuilds, ShownApps
    <3>5. Rewritten(run)'
      BY <2>1, <3>1, <3>2, <3>4 DEF IsHoused, Rewritten
    <3> QED  BY <3>1, <3>2, <3>3, <3>5 DEF IsHoused
  <2> QED  BY <2>2, <2>3 DEF Housekeeping
<1> QED  BY <1>2, <1>3, <1>4, <1>5

(* What a failed add brought, the Hub does not count on. *)
LEMMA CancelTakesItsOwn ==
  ASSUME ~CancelOverlap, TypeOK, OneWorker, Bookkeeping, cancel.on
  PROVE  /\ phase = "finale" /\ adding \in AppAdd /\ cancel.rec = adding
         /\ \A s \in RunId : ~Live(s)
         /\ Brought(adding) \subseteq App \ apps
         /\ Vpn \in Brought(adding) => RidersOf(apps) \subseteq adding.moves
         /\ cancel.left # {} => Last(cancel.left) \in Brought(adding)
<1>1. /\ ~IsRunning /\ adding.state = "error" /\ adding.purpose = "add"
      /\ cancel.rec = adding /\ cancel.left \subseteq Brought(adding)
  BY DEF OneWorker, CancelIsAlone, Bookkeeping, CancelIsSound
<1>2. phase = "finale" /\ adding \in AppAdd
  BY <1>1 DEF NoAdd, OneWorker, AddingOnAFinale, TypeOK, HubOK
<1>3. Brought(adding) = adding.comps \cup {adding.app} /\ adding.app \in App
  BY <1>2, CatalogAssumption DEF Brought, AppAdd
<1>4. /\ adding.app \notin apps /\ adding.comps \cap apps = {} /\ adding.comps \subseteq {Vpn}
      /\ adding.comps # {} => adding.app \in Rider
      /\ adding.moves = IF adding.app = Vpn THEN RidersOf(apps) ELSE {}
  BY <1>1 DEF Bookkeeping, AddingIsSound
<1>5. Vpn \in App /\ \A a, b \in Rider : a = b
  BY CatalogAssumption
<1>6. ASSUME Vpn \in Brought(adding), adding.app # Vpn
      PROVE  RidersOf(apps) = {}
  BY <1>3, <1>4, <1>5, <1>6 DEF RidersOf
<1>7. ASSUME cancel.left # {}
      PROVE  Last(cancel.left) \in Brought(adding)
  <2>1. cancel.left \in SUBSET {Vpn, adding.app}
    BY <1>1, <1>3, <1>4
  <2>2. Last(cancel.left) \in cancel.left
    BY <1>3, <1>5, <1>7, <2>1, LastOfTwo
  <2> QED  BY <1>1, <2>2
<1>8. \A s \in RunId : ~Live(s)
  BY <1>1, NobodyWorks
<1> QED  BY <1>1, <1>2, <1>3, <1>4, <1>5, <1>6, <1>7, <1>8

(* A cancelled add takes down only what it started.                           *)
LEMMA CancelKeepsHouse ==
  ASSUME ~CancelOverlap, TypeOK, OneWorker, Bookkeeping, Housekeeping,
         CancelAdd \/ CancelRemove \/ CancelFails \/ CancelFinish
  PROVE  Housekeeping'
<1>1. \A s \in RunId : ~Live(s)
  <2>1. ~IsRunning
    BY DEF CancelAdd, CancelRemove, CancelFails, CancelFinish, OneWorker, CancelIsAlone
  <2> QED  BY <2>1, NobodyWorks
<1>2. UNCHANGED <<noVpn, phase, apps>>
  BY DEF CancelAdd, CancelRemove, CancelFails, CancelFinish, Emit, disk, hub
<1>3. CASE CancelAdd
  <2>1. HubIsUp'
    BY <1>2, <1>3, HubStaysUp DEF CancelAdd, Housekeeping, docker, hub
  <2> QED  BY <1>1, <1>3, <2>1 DEF CancelAdd, Housekeeping, Live
<1>4. CASE CancelRemove
  <2>1. PICK a : a = Last(cancel.left)
    OBVIOUS
  <2>2. cancel.on /\ cancel.left # {} /\ RemoveContainer(a) /\ UNCHANGED <<hub, runs>>
    BY <1>4, <2>1 DEF CancelRemove
  <2>3. /\ phase = "finale" /\ a \in App \ apps
        /\ a = Vpn => RidersOf(apps) \subseteq adding.moves
    BY <2>1, <2>2, CancelTakesItsOwn
  <2>4. a \notin ServedApps /\ a \notin RidersOf(apps)
    BY <2>3 DEF ServedApps, RidersOf
  <2>5. HubIsUp'
    BY <1>2, <2>2, <2>3, <2>4, HubSparesIt DEF Housekeeping
  <2> QED  BY <1>1, <2>2, <2>5 DEF Housekeeping, Live
<1>5. CASE CancelFails
  <2>1. adding' = adding /\ UNCHANGED <<runs, docker>>
    BY <1>5, CancelTakesItsOwn DEF CancelFails, Emit
  <2>2. HubIsUp'
    BY <1>2, <2>1, HubStaysUp DEF Housekeeping, docker
  <2> QED  BY <1>1, <2>1, <2>2 DEF Housekeeping, Live
<1>6. CASE CancelFinish
  <2>1. cancel.rec = adding /\ UNCHANGED docker
    BY <1>6, CancelTakesItsOwn DEF CancelFinish
  <2>2. CASE adding.moves = {}
    <3>1. HubIsUp'
      BY <1>2, <2>1, <2>2, HubStaysUp DEF Housekeeping, docker
    <3> QED  BY <1>1, <1>6, <2>1, <2>2, <3>1 DEF CancelFinish, Housekeeping, Live
  <2>3. CASE adding.moves # {}
    <3>1. PICK run : run = NewRun("restore", First(adding.moves), {})
      OBVIOUS
    <3>2. Launch(run) /\ adding'.moves = adding.moves
      BY <1>6, <2>1, <2>3, <3>1 DEF CancelFinish, Emit, NewAdding
    <3>3. run.kind = "restore" /\ run.pc = "begin"
      BY <3>1, NewRunFields
    <3>4. HubIsUp'
      BY <1>2, <2>1, <3>2, HubStaysUp DEF Housekeeping, docker
    <3> QED  BY <1>1, <3>2, <3>3, <3>4, LaunchKeepsHouse
  <2> QED  BY <2>2, <2>3
<1> QED  BY <1>3, <1>4, <1>5, <1>6

(* A restart touches no container, and a run taken up has done nothing yet.   *)
LEMMA RestartKeepsHouse ==
  ASSUME TypeOK, OneWorker, Bookkeeping, Housekeeping, Restart
  PROVE  Housekeeping'
<1> DEFINE first == CHOOSE s \in RunId : TRUE
<1>1. PICK run : run = Resumed
  OBVIOUS
<1>2. /\ runs' = [s \in RunId |-> IF s = first THEN run ELSE Idle]
      /\ UNCHANGED <<noVpn, hub, docker>>
  BY <1>1 DEF Restart, disk
<1> HIDE DEF first
<1>3. IsHoused(run)'
  <2>1. CASE phase \in {"running", "wiring"}
    <3>1. run.kind = "deploy" /\ run.pc = "begin"
      BY <1>1, <2>1, ResumedIsTheSame, NewRunFields
    <3> QED  BY <3>1, FreshIsHoused
  <2>2. CASE adding.state \in {"starting", "wiring"}
    <3>1. /\ run.kind = adding.purpose /\ adding.purpose \in Purposes
          /\ run.pc = IF adding.purpose = "reconnect" THEN "wire" ELSE "begin"
      BY <1>1, <2>2, ResumedIsTheSame DEF AppAdd
    <3> QED  BY <3>1, FreshIsHoused DEF Purposes
  <2>3. CASE phase \notin {"running", "wiring"} /\ adding.state \notin {"starting", "wiring"}
    <3>1. run.kind = "none" /\ run.pc = "end"
      BY <1>1, <2>3, ResumedIsTheSame DEF Idle
    <3> QED  BY <3>1, FreshIsHoused
  <2> QED  BY <2>1, <2>2, <2>3
<1>4. HubIsUp'
  BY <1>2, HubStaysUp DEF Housekeeping, docker, hub
<1>5. ASSUME NEW s \in RunId, Live(s)'
      PROVE  IsHoused(runs[s])'
  <2>1. runs'[s] = run
    BY <1>2, <1>5 DEF Live, Idle
  <2> QED  BY <1>3, <2>1
<1> QED  BY <1>4, <1>5 DEF Housekeeping

(* A new Hub has no apps that could be down.                                  *)
LEMMA HousekeepingInit == Init => Housekeeping
<1> SUFFICES ASSUME Init
             PROVE  Housekeeping
  OBVIOUS
<1>1. \A a \in App : container[a] # "via"
  BY DEF Init
<1>2. Rider \subseteq App
  BY CatalogAssumption
<1> QED  BY <1>1, <1>2
         DEF Init, Housekeeping, HubIsUp, RidersAreProven, HubAppsAreUp,
             DownloaderIsWhereTheHubSays, Live, Idle

(* No step breaks the housekeeping.                                           *)
LEMMA HousekeepingStep ==
  ASSUME Orderly, TypeOK, OneWorker, Bookkeeping, Housekeeping, [Next]_vars
  PROVE  Housekeeping'
<1>1. ASSUME NEW r \in RunId, RunStep(r)
      PROVE  Housekeeping'
  BY <1>1, EarlyStepsKeepHouse, TakeDownKeepsHouse, CreateAndStartKeepHouse, ReadyKeepsHouse,
     WireKeepsHouse DEF RunStep, Orderly
<1>2. CASE \/ Start \/ ApplyLogin
           \/ \E a \in App : AddApp(a) \/ Reconnect(a)
           \/ \E changed \in BOOLEAN : RetryAdd(changed) \/ ChangeVpn(changed)
  BY <1>2, LaunchesKeepHouse
<1>3. CASE \/ \E a \in App : Disconnect(a)
           \/ ChooseApps \/ ConfirmInWizard \/ AnswerVpnQuestions
           \/ \E S \in WizardChoices : SaveChoices(S)
           \/ ConfirmOnHub \/ UndoConfirmation
  BY <1>3, QuietRequestsKeepHouse DEF Orderly
<1>4. CASE CancelAdd \/ CancelRemove \/ CancelFails \/ CancelFinish
  BY <1>4, CancelKeepsHouse DEF Orderly
<1>5. CASE Restart
  BY <1>5, RestartKeepsHouse
<1>6. CASE UNCHANGED vars
  <2>1. HubIsUp'
    BY <1>6, HubStaysUp DEF Housekeeping, vars, disk, hub, docker
  <2>2. ASSUME NEW r \in RunId, Live(r)'
        PROVE  IsHoused(runs[r])'
    <3>1. PICK run : run = runs[r]
      OBVIOUS
    <3>2. IsHoused(run) /\ runs'[r] = run
      BY <1>6, <2>2, <3>1 DEF Housekeeping, Live, vars, tasks
    <3>3. IsHoused(run)'
      BY <1>6, <3>2
         DEF vars, disk, docker, IsHoused, TakeDownIsSound, Rewritten, BringingUp, HasWork,
             BringUps, Answers
    <3> QED  BY <3>2, <3>3
  <2> QED  BY <2>1, <2>2 DEF Housekeeping
<1> QED  BY <1>1, <1>2, <1>3, <1>4, <1>5, <1>6 DEF Next

(* So it holds in every state.                                                *)
LEMMA HouseIsKept ==
  ASSUME Orderly
  PROVE  Spec => [](TypeOK /\ OneWorker /\ Bookkeeping /\ Housekeeping)
<1>1. TypeOK /\ OneWorker /\ Bookkeeping /\ Housekeeping /\ [Next]_vars => Housekeeping'
  BY HousekeepingStep
<1> QED  BY <1>1, HousekeepingInit, BooksAreKept, PTL DEF Spec

(* Every app the Hub shows is up, unless a run at work or failed says in     *)
(* adding that it owes it back: through a move of the downloader behind the  *)
(* VPN, its failure, a restart in the middle and the restore after a Cancel. *)
THEOREM TheHubIsUp ==
  ASSUME Orderly
  PROVE  Spec => []HubAppsAreUp
<1>1. Housekeeping => HubAppsAreUp
  BY DEF Housekeeping, HubIsUp
<1> QED  BY <1>1, HouseIsKept, PTL

(* The downloader is behind the VPN whenever the VPN is a poster, and on its *)
(* own network only with the owner's confirmation still standing.            *)
THEOREM DownloaderIsInItsPlace ==
  ASSUME Orderly
  PROVE  Spec => []DownloaderIsWhereTheHubSays
<1>1. Housekeeping => DownloaderIsWhereTheHubSays
  BY DEF Housekeeping, HubIsUp
<1> QED  BY <1>1, HouseIsKept, PTL

(* A downloader's container is never made on the VPN's network before a run  *)
(* has seen that very VPN container's tunnel up, although compose would      *)
(* start the VPN for it: of the apps of a run, the VPN comes before those    *)
(* that ride it.                                                             *)
THEOREM TunnelBeforeDownloader ==
  ASSUME Orderly
  PROVE  Spec => []TunnelIsProvenFirst
<1>1. Housekeeping => TunnelIsProvenFirst
  BY DEF Housekeeping, HubIsUp, RidersAreProven, TunnelIsProvenFirst
<1> QED  BY <1>1, HouseIsKept, PTL

(* A container changes hands only in a run's step or in a Cancel's. *)
LEMMA WhoTouchesContainers ==
  ASSUME [Next]_vars, container' # container
  PROVE  (\E r \in RunId : RunStep(r)) \/ CancelRemove
BY DEF Next, vars, docker, Start, ApplyLogin, AddApp, Reconnect, Disconnect, RetryAdd,
       ChangeVpn, SaveVpnAnswers, CancelAdd, CancelFails, CancelFinish, ChooseApps,
       ConfirmInWizard, AnswerVpnQuestions, SaveChoices, ConfirmOnHub, UndoConfirmation, Restart

(* Cancel removes the containers of the add it takes back, one await after   *)
(* another, and not one of them is a poster's.                               *)
THEOREM CancelSparesIt ==
  ASSUME Orderly
  PROVE  Spec => CancelSparesTheHub
<1> DEFINE Spares ==
      cancel.on => \A a \in apps : container'[a] = "none" => container[a] = "none"
<1>1. TypeOK /\ OneWorker /\ Bookkeeping /\ [Next]_vars => [Spares]_vars
  <2> SUFFICES ASSUME TypeOK, OneWorker, Bookkeeping, [Next]_vars, cancel.on,
                      NEW a \in apps, container'[a] = "none", container[a] # "none"
               PROVE  FALSE
    OBVIOUS
  <2>1. ~CancelOverlap
    BY DEF Orderly
  <2>2. CancelRemove
    <3>1. \A r \in RunId : ~RunStep(r)
      BY <2>1, CancelTakesItsOwn, RunStepShape
    <3> QED  BY <3>1, WhoTouchesContainers
  <2>3. PICK gone : gone = Last(cancel.left)
    OBVIOUS
  <2>4. gone \in App \ apps /\ RemoveContainer(gone)
    BY <2>1, <2>2, <2>3, CancelTakesItsOwn DEF CancelRemove
  <2>5. a \in App /\ a # gone
    BY <2>4 DEF TypeOK, HubOK
  <2> QED  BY <2>4, <2>5 DEF RemoveContainer
<1> QED  BY <1>1, BooksAreKept, PTL DEF CancelSparesTheHub, Spec

(* Only its own wiring step folds a change of the VPN in. *)
LEMMA WhoEndsTheChange ==
  ASSUME ~CancelOverlap, TypeOK, OneWorker, Bookkeeping, [Next]_vars,
         adding.purpose = "change_vpn", adding' = NoAdd, phase' = "finale"
  PROVE  \E r \in RunId : Wire(r) /\ runs[r].kind = "change_vpn"
<1>1. adding # NoAdd /\ adding \in AppAdd /\ phase = "finale"
  BY DEF NoAdd, TypeOK, HubOK, OneWorker, AddingOnAFinale
<1>2. ~UNCHANGED hub
  BY <1>1 DEF hub
<1>3. NoAdd.state = "none" /\ NoAdd.purpose = "none"
  BY DEF NoAdd
<1>4. ASSUME NEW r \in RunId, RunStep(r)
      PROVE  Wire(r) /\ runs[r].kind = "change_vpn"
  <2>1. runs[r] \in Run /\ RunIsSound(runs[r])
    BY <1>4, StepIsAlone DEF Bookkeeping, Live
  <2>2. ~Fail(r)
    <3>1. [adding EXCEPT !.state = "error"] # NoAdd
      BY <1>1, <1>3 DEF AppAdd
    <3> QED  BY <1>1, <1>2, <3>1 DEF Fail, Emit, Purposes
  <2>3. ~PutLogins(r) /\ ~BeginDeploy(r) /\ ~SelfId(r)
    <3>1. [adding EXCEPT !.state = "wiring"].purpose = "change_vpn"
      BY <1>1 DEF AppAdd
    <3>2. ~PutLogins(r) /\ ~BeginDeploy(r)
      BY <1>2, <1>3, <3>1 DEF PutLogins, BeginDeploy, Emit
    <3>3. [adding EXCEPT !.ran = TRUE].purpose = "change_vpn"
      BY <1>1 DEF AppAdd
    <3> QED  BY <1>1, <1>3, <3>2, <3>3 DEF SelfId
  <2>4. Wire(r)
    BY <1>2, <1>4, <2>2, <2>3
       DEF RunStep, BeginAdd, BeginFromDisk, ApplyLogins, Probe, Rewrite, ClashFound, Prepare,
           StopMover, RemoveMover, RemoveVpn, Create, StartUp, Ready, Break, BreakLogin,
           ClearConfirmation, End
  <2>5. runs[r].kind = "change_vpn"
    <3>1. runs[r].pc = "wire" /\ runs[r].kind \in Purposes \cup {"deploy"}
      BY <2>4 DEF Wire, At
    <3> QED  BY <1>1, <2>1, <3>1 DEF RunIsSound, DeployIsShown, AddingIsWorkedOn
  <2> QED  BY <2>4, <2>5
<1>5. ~\E a \in App : AddApp(a) \/ Reconnect(a) \/ Disconnect(a)
  BY <1>1 DEF AddApp, Reconnect, HubIsFree, Disconnect
<1>6. ~\E changed \in BOOLEAN : RetryAdd(changed) \/ ChangeVpn(changed)
  <2>1. [adding EXCEPT !.state = "starting"].purpose = "change_vpn"
    BY <1>1 DEF AppAdd
  <2> QED  BY <1>1, <1>3, <2>1 DEF RetryAdd, ChangeVpn, HubIsFree, Emit
<1>7. ~(CancelAdd \/ CancelRemove \/ CancelFails \/ CancelFinish)
  BY DEF CancelAdd, CancelRemove, CancelFails, CancelFinish, Bookkeeping, CancelIsSound
<1>8. ~(\/ Start \/ ApplyLogin \/ ChooseApps \/ ConfirmInWizard \/ AnswerVpnQuestions
        \/ ConfirmOnHub \/ UndoConfirmation \/ Restart \/ UNCHANGED vars)
  BY <1>2 DEF Start, ApplyLogin, ChooseApps, ConfirmInWizard, AnswerVpnQuestions,
              ConfirmOnHub, UndoConfirmation, Restart, vars
<1>9. ~\E S \in WizardChoices : SaveChoices(S)
  BY <1>1 DEF SaveChoices, WizardOpen
<1> QED  BY <1>4, <1>5, <1>6, <1>7, <1>8, <1>9 DEF Next

(* A change of the VPN that ends well ends on a container made after the     *)
(* answers saved with it, retries and restarts on the way included.          *)
THEOREM TheChangeTakesEffect ==
  ASSUME Orderly
  PROVE  Spec => ChangeVpnTakesEffect
<1> DEFINE Effect ==
      adding.purpose = "change_vpn" /\ adding' = NoAdd /\ phase' = "finale"
        => container'[Vpn] = "own" /\ ~tunnel'.stale
<1>1. TypeOK /\ OneWorker /\ Bookkeeping /\ Housekeeping /\ [Next]_vars => [Effect]_vars
  <2> SUFFICES ASSUME TypeOK, OneWorker, Bookkeeping, Housekeeping, [Next]_vars,
                      adding.purpose = "change_vpn", adding' = NoAdd, phase' = "finale"
               PROVE  container'[Vpn] = "own" /\ ~tunnel'.stale
    OBVIOUS
  <2>1. PICK r \in RunId : Wire(r) /\ runs[r].kind = "change_vpn"
    BY WhoEndsTheChange DEF Orderly
  <2>2. runs[r].pc = "wire" /\ UNCHANGED docker /\ IsHoused(runs[r])
    BY <2>1 DEF Wire, At, Housekeeping, Live
  <2>3. /\ \A a \in (BringUps(runs[r]) \cap Managed) \ runs[r].todo : Answers(a, runs[r].ids)
        /\ runs[r].todo = {} /\ ~tunnel.stale
    BY <2>1, <2>2 DEF IsHoused, BringingUp, Builders
  <2>4. Vpn \in (BringUps(runs[r]) \cap Managed) /\ Vpn \notin Rider
    BY <2>1, CatalogAssumption DEF BringUps
  <2> QED  BY <2>2, <2>3, <2>4 DEF Answers, docker
<1> QED  BY <1>1, HouseIsKept, PTL DEF ChangeVpnTakesEffect, Spec

------------------------------------------------------------------------------
(* Other people's containers.  compose never replaces one, so what matters   *)
(* is what a run or a Cancel removes: it is of an app that is on the Hub, or *)
(* of one the run's own look for a name clash found free.                    *)

Mine(S) == \A a \in S : container[a] # "foreign"

MineNext(S) == \A a \in S : container'[a] # "foreign"

OnlyNamesAreTaken == \A a \in App : container[a] = "foreign" => a \in Managed

HubIsMine == phase = "finale" => Mine(apps \cup marker)

AddIsMine == adding.purpose = "add" /\ adding.ran => Mine(Brought(adding))

(* Once a deploy or an add is past its look, the marker names its install.   *)
RunIsMine(run) ==
  run.kind \in {"deploy", "add"} /\ run.pc \in Stage =>
    marker = run.ids /\ (run.kind = "add" => Mine(run.ids))

OthersContainers ==
  /\ OnlyNamesAreTaken /\ HubIsMine /\ AddIsMine
  /\ \A r \in RunId : Live(r) => RunIsMine(runs[r])

NoneTurnsForeign == \A a \in App : container'[a] = "foreign" => container[a] = "foreign"

(* What Marrquee starts or makes anew is its own.                             *)
LEMMA NothingTurnsForeign ==
  ASSUME TypeOK, [Next]_vars
  PROVE  NoneTurnsForeign
<1>1. ASSUME NEW a, ComposeCreate(a, compose)
      PROVE  NoneTurnsForeign
  BY <1>1 DEF ComposeCreate, NetworkOf, NoneTurnsForeign
<1>2. ASSUME NEW a, ComposeRecreate(a)
      PROVE  NoneTurnsForeign
  BY <1>2 DEF ComposeRecreate, TypeOK, DockerTypeOK, NoneTurnsForeign
<1>3. ASSUME NEW a, RemoveContainer(a)
      PROVE  NoneTurnsForeign
  BY <1>3 DEF RemoveContainer, NoneTurnsForeign
<1>4. CASE container' = container
  BY <1>4 DEF NoneTurnsForeign
<1>5. CASE CancelRemove
  BY <1>3, <1>5 DEF CancelRemove
<1>6. ASSUME NEW r \in RunId, RunStep(r)
      PROVE  NoneTurnsForeign
  <2>1. CASE Create(r)
    BY <1>1, <1>2, <1>4, <2>1 DEF Create, docker
  <2>2. CASE RemoveMover(r) \/ RemoveVpn(r)
    BY <1>3, <2>2 DEF RemoveMover, RemoveVpn
  <2>3. CASE ~(Create(r) \/ RemoveMover(r) \/ RemoveVpn(r))
    <3>1. container' = container
      BY <1>6, <2>3
         DEF RunStep, BeginDeploy, BeginAdd, BeginFromDisk, ApplyLogins, Probe, Rewrite,
             ClashFound, Prepare, SelfId, StopMover, StopContainer, StartUp, ComposeStart,
             Ready, Break, BreakLogin, PutLogins, Wire, ClearConfirmation, End, docker
    <3> QED  BY <1>4, <3>1
  <2> QED  BY <2>1, <2>2, <2>3
<1> QED  BY <1>4, <1>5, <1>6, WhoTouchesContainers

(* A run of a deploy or an add enters its stages through its look alone. *)
LEMMA WhereAStepLeads ==
  ASSUME NEW r \in RunId, runs[r] \in Run, RunStep(r)
  PROVE  \E new :
           /\ runs' = [runs EXCEPT ![r] = new]
           /\ new.kind \in {"deploy", "add"} /\ new.pc \in Stage =>
                /\ new.kind = runs[r].kind /\ new.ids = runs[r].ids
                /\ runs[r].pc \in Stage \/ Prepare(r)
<1> DEFINE Leads(new) ==
      new.kind \in {"deploy", "add"} /\ new.pc \in Stage =>
        /\ new.kind = runs[r].kind /\ new.ids = runs[r].ids
        /\ runs[r].pc \in Stage \/ Prepare(r)
<1>1. ASSUME NEW pc, Goto(r, pc),
             runs[r].kind \in {"deploy", "add"} /\ pc \in Stage => runs[r].pc \in Stage \/ Prepare(r)
      PROVE  \E new : runs' = [runs EXCEPT ![r] = new] /\ Leads(new)
  <2>1. PICK new : new = [runs[r] EXCEPT !.pc = pc]
    OBVIOUS
  <2>2. /\ runs' = [runs EXCEPT ![r] = new] /\ new.pc = pc /\ new.kind = runs[r].kind
        /\ new.ids = runs[r].ids
    BY <1>1, <2>1 DEF Goto, Continue, Run
  <2> QED  BY <1>1, <2>2
<1>2. ASSUME NEW pc, NEW todo, Continue(r, [runs[r] EXCEPT !.pc = pc, !.todo = todo]),
             runs[r].kind \in {"deploy", "add"} => runs[r].pc \in Stage
      PROVE  \E new : runs' = [runs EXCEPT ![r] = new] /\ Leads(new)
  <2>1. PICK new : new = [runs[r] EXCEPT !.pc = pc, !.todo = todo]
    OBVIOUS
  <2>2. /\ runs' = [runs EXCEPT ![r] = new] /\ new.kind = runs[r].kind
        /\ new.ids = runs[r].ids
    BY <1>2, <2>1 DEF Continue, Run
  <2> QED  BY <1>2, <2>2
<1>3. ASSUME Finish(r)
      PROVE  \E new : runs' = [runs EXCEPT ![r] = new] /\ Leads(new)
  <2>1. PICK new : new = Idle
    OBVIOUS
  <2>2. runs' = [runs EXCEPT ![r] = new] /\ new.kind = "none"
    BY <1>3, <2>1 DEF Finish, Idle
  <2> QED  BY <2>2
<1>4. ASSUME NextBringUp(r), runs[r].kind \in {"deploy", "add"} => runs[r].pc \in Stage
      PROVE  \E new : runs' = [runs EXCEPT ![r] = new] /\ Leads(new)
  BY <1>2, <1>3, <1>4 DEF NextBringUp
<1>5. ASSUME Fail(r)
      PROVE  \E new : runs' = [runs EXCEPT ![r] = new] /\ Leads(new)
  BY <1>1, <1>5 DEF Fail, Stage
<1>6. CASE \/ BeginDeploy(r) \/ Probe(r) \/ Rewrite(r) \/ StopMover(r) \/ RemoveVpn(r)
           \/ Create(r) \/ StartUp(r) \/ PutLogins(r) \/ Wire(r)
  BY <1>1, <1>6 DEF BeginDeploy, Probe, Rewrite, StopMover, RemoveVpn, Create, StartUp,
                    PutLogins, Wire, At, Stage
<1>7. CASE Prepare(r)
  BY <1>1, <1>5, <1>7 DEF Prepare
<1>8. CASE ClashFound(r) \/ Break(r)
  BY <1>5, <1>8 DEF ClashFound, Break
<1>9. CASE Ready(r) \/ BreakLogin(r)
  BY <1>3, <1>4, <1>9 DEF Ready, BreakLogin, At, Stage
<1>10. CASE ApplyLogins(r)
  <2>1. runs[r].kind = "login"
    BY <1>10 DEF ApplyLogins, At
  <2>2. PICK accepted \in SUBSET runs[r].todo :
          IF accepted = {} THEN Finish(r)
          ELSE Continue(r, [runs[r] EXCEPT !.pc = "probe", !.todo = accepted])
    BY <1>10 DEF ApplyLogins
  <2> QED  BY <1>2, <1>3, <2>1, <2>2
<1>11. CASE ClearConfirmation(r) \/ End(r)
  BY <1>3, <1>11 DEF ClearConfirmation, End
<1>12. CASE BeginAdd(r)
  <2>1. PICK new : new = [runs[r] EXCEPT !.pc = "probe",
                              !.ids = runs[r].ids \cup adding.comps \cup {runs[r].app},
                              !.comps = adding.comps, !.movers = adding.moves,
                              !.unseat = runs[r].app \in Rider /\ Vpn \in runs[r].ids]
    OBVIOUS
  <2>2. runs' = [runs EXCEPT ![r] = new]
    BY <1>12, <2>1 DEF BeginAdd, Continue
  <2>3. new.pc = "probe"
    BY <2>1 DEF Run
  <2> QED  BY <2>2, <2>3 DEF Stage
<1>13. CASE BeginFromDisk(r)
  <2>1. CASE Fail(r)
    BY <1>5, <2>1
  <2>2. CASE ~Fail(r)
    <3>1. PICK new : new = [runs[r] EXCEPT !.pc = "probe", !.ids = install,
                                !.movers = adding.moves,
                                !.unseat = runs[r].kind = "change_vpn"]
      OBVIOUS
    <3>2. runs' = [runs EXCEPT ![r] = new] /\ new.pc = "probe"
      BY <1>13, <2>2, <3>1 DEF BeginFromDisk, Continue, Run
    <3> QED  BY <3>2 DEF Stage
  <2> QED  BY <2>1, <2>2
<1>14. ASSUME NEW new, new = ToBringUp(runs[r]), runs' = [runs EXCEPT ![r] = new],
              runs[r].pc \in Stage
       PROVE  \E next : runs' = [runs EXCEPT ![r] = next] /\ Leads(next)
  <2>1. new.kind = runs[r].kind /\ new.ids = runs[r].ids
    BY <1>14 DEF ToBringUp, Run
  <2> QED  BY <1>14, <2>1
<1>15. CASE SelfId(r)
  <2>1. runs[r].pc \in Stage /\ Continue(r, ToTakeDown(runs[r]))
    BY <1>15 DEF SelfId, At, Stage
  <2>2. PICK new : new = ToTakeDown(runs[r])
    OBVIOUS
  <2>3. runs' = [runs EXCEPT ![r] = new]
    BY <2>1, <2>2 DEF Continue
  <2>4. new.kind = runs[r].kind /\ new.ids = runs[r].ids
    BY <2>2 DEF ToTakeDown, ToBringUp, Run
  <2> QED  BY <2>1, <2>3, <2>4
<1>16. CASE RemoveMover(r)
  <2> DEFINE rest == runs[r].todo \ {Last(runs[r].todo)}
  <2>1. runs[r].pc \in Stage
    BY <1>16 DEF RemoveMover, At, Stage
  <2>2. CASE rest = {}
    <3>1. PICK new : new = ToBringUp(runs[r])
      OBVIOUS
    <3>2. runs' = [runs EXCEPT ![r] = new]
      BY <1>16, <2>2, <3>1 DEF RemoveMover, Continue
    <3> QED  BY <1>14, <2>1, <3>1, <3>2
  <2>3. CASE rest # {}
    <3>1. Continue(r, [runs[r] EXCEPT !.pc = "stop", !.todo = rest])
      BY <1>16, <2>3 DEF RemoveMover
    <3> QED  BY <1>2, <2>1, <3>1
  <2> QED  BY <2>2, <2>3
<1> QED  BY <1>6, <1>7, <1>8, <1>9, <1>10, <1>11, <1>12, <1>13, <1>15, <1>16 DEF RunStep

(* What a step of a run may change of the Hub, wiring aside.                  *)
LEMMA WhatAStepShows ==
  ASSUME TypeOK, NEW r \in RunId, RunStep(r), ~Wire(r)
  PROVE  /\ phase' = "finale" => phase = "finale" /\ apps' = apps
         /\ marker' = marker \/ Prepare(r)
         /\ \/ adding'.purpose = "add" /\ adding'.ran =>
                 adding.purpose = "add" /\ adding.ran /\ Brought(adding') = Brought(adding)
            \/ SelfId(r) /\ adding # NoAdd
<1>1. marker' = marker \/ Prepare(r)
  BY DEF RunStep, BeginDeploy, BeginAdd, BeginFromDisk, ApplyLogins, Probe, Rewrite, ClashFound,
         SelfId, StopMover, RemoveMover, RemoveVpn, Create, StartUp, Ready, Break, BreakLogin,
         PutLogins, ClearConfirmation, End, disk
<1>2. CASE UNCHANGED hub
  BY <1>1, <1>2 DEF hub
<1>3. ASSUME NEW state, adding # NoAdd, phase' = phase, apps' = apps,
             adding' = [adding EXCEPT !.state = state]
      PROVE  /\ phase' = "finale" => phase = "finale" /\ apps' = apps
             /\ adding'.purpose = "add" /\ adding'.ran =>
                  adding.purpose = "add" /\ adding.ran /\ Brought(adding') = Brought(adding)
  BY <1>3 DEF TypeOK, HubOK, AppAdd, Brought
<1>4. NoAdd.purpose # "add"
  BY DEF NoAdd
<1>5. CASE Fail(r)
  <2>1. CASE runs[r].kind = "deploy"
    BY <1>1, <1>4, <1>5, <2>1 DEF Fail, Emit, Purposes
  <2>2. CASE runs[r].kind # "deploy"
    BY <1>1, <1>2, <1>3, <1>5, <2>2 DEF Fail, Emit
  <2> QED  BY <2>1, <2>2
<1>6. CASE BeginDeploy(r)
  BY <1>1, <1>4, <1>6 DEF BeginDeploy, Emit
<1>7. CASE PutLogins(r)
  <2>1. CASE runs[r].kind = "deploy"
    BY <1>1, <1>4, <1>7, <2>1 DEF PutLogins, Emit
  <2>2. CASE runs[r].kind # "deploy"
    BY <1>1, <1>2, <1>3, <1>7, <2>2 DEF PutLogins, Emit
  <2> QED  BY <2>1, <2>2
<1>8. CASE SelfId(r)
  BY <1>1, <1>8 DEF SelfId
<1> QED  BY <1>2, <1>5, <1>6, <1>7, <1>8
         DEF RunStep, BeginAdd, BeginFromDisk, ApplyLogins, Probe, Rewrite, ClashFound, Prepare,
             StopMover, RemoveMover, RemoveVpn, Create, StartUp, Ready, Break, BreakLogin,
             ClearConfirmation, End

(* Containers that are ours stay ours.                                        *)
LEMMA MineStays ==
  ASSUME NoneTurnsForeign, NEW S \in SUBSET App, Mine(S)
  PROVE  MineNext(S)
BY DEF NoneTurnsForeign, Mine, MineNext

(* _find_name_clash looks at the apps an add brings; the others are on the   *)
(* Hub.                                                                      *)
LEMMA TheLookFindsAll ==
  ASSUME ~MissedLooks, TypeOK, OneWorker, Bookkeeping, OthersContainers,
         NEW r \in RunId, Prepare(r), runs[r] \in Run, RunIsSound(runs[r]), runs[r].kind = "add"
  PROVE  phase = "finale" /\ apps \subseteq runs[r].ids /\ Mine(runs[r].ids)
<1>1. runs[r].pc = "clash" /\ ~NameClash(r)
  BY DEF Prepare, At, Prepared
<1>2. /\ runs[r].ids = apps \cup runs[r].comps \cup {runs[r].app} /\ adding # NoAdd
  BY <1>1 DEF RunIsSound, AddingIsWorkedOn, RunHoldsItsAdding, Purposes, NoAdd
<1>3. phase = "finale" /\ Mine(apps \cup marker)
  BY <1>2 DEF OneWorker, AddingOnAFinale, OthersContainers, HubIsMine
<1>4. ASSUME NEW a \in runs[r].ids, container[a] = "foreign"
      PROVE  FALSE
  <2>1. a \in Managed
    BY <1>4 DEF OthersContainers, OnlyNamesAreTaken, Run
  <2>2. a \notin apps /\ a \notin marker
    BY <1>3, <1>4 DEF Mine
  <2>3. a \in ((runs[r].comps \cup {runs[r].app}) \cap Managed) \ marker
    BY <1>2, <1>4, <2>1, <2>2
  <2> QED  BY <1>1, <1>4, <2>3 DEF NameClash
<1> QED  BY <1>2, <1>3, <1>4 DEF Mine

(* A run works on apps whose containers it has looked at.                     *)
LEMMA RunKeepsOthers ==
  ASSUME ~CancelOverlap, ~MissedLooks, TypeOK, OneWorker, Bookkeeping, Housekeeping,
         OthersContainers, NEW r \in RunId, RunStep(r), NoneTurnsForeign
  PROVE  OthersContainers'
<1>1. /\ runs[r] \in Run /\ runs[r].kind # "none" /\ \A s \in RunId : Live(s) => s = r
      /\ RunIsSound(runs[r]) /\ IsHoused(runs[r]) /\ RunIsMine(runs[r])
  BY StepIsAlone DEF Bookkeeping, Housekeeping, OthersContainers, Live
<1>2. runs[r].ids \subseteq App /\ apps \subseteq App /\ marker \subseteq App
  BY <1>1 DEF Run, TypeOK, HubOK, DiskOK
<1>3. PICK new :
        /\ runs' = [runs EXCEPT ![r] = new]
        /\ new.kind \in {"deploy", "add"} /\ new.pc \in Stage =>
             /\ new.kind = runs[r].kind /\ new.ids = runs[r].ids
             /\ runs[r].pc \in Stage \/ Prepare(r)
  BY <1>1, WhereAStepLeads
<1>4. marker' = marker \/ Prepare(r)
  BY WhatAStepShows DEF Wire, disk
<1>5. OnlyNamesAreTaken'
  BY DEF OthersContainers, OnlyNamesAreTaken, NoneTurnsForeign
<1>6. Prepare(r) => marker' = runs[r].ids /\ ~Wire(r) /\ ~SelfId(r) /\ runs[r].pc = "clash"
  BY DEF Prepare, Wire, SelfId, At
<1>7. RunIsMine(new)'
  <2> SUFFICES ASSUME new.kind \in {"deploy", "add"}, new.pc \in Stage
               PROVE  marker' = new.ids /\ (new.kind = "add" => MineNext(new.ids))
    BY DEF RunIsMine, Mine, MineNext
  <2>1. CASE Prepare(r)
    <3>1. new.kind = "add" => Mine(new.ids)
      BY <1>1, <1>3, <2>1, TheLookFindsAll
    <3> QED  BY <1>2, <1>3, <1>6, <2>1, <3>1, MineStays
  <2>2. CASE ~Prepare(r)
    <3>1. marker = new.ids /\ (new.kind = "add" => Mine(new.ids))
      BY <1>1, <1>3, <2>2 DEF RunIsMine
    <3> QED  BY <1>2, <1>3, <1>4, <2>2, <3>1, MineStays
  <2> QED  BY <2>1, <2>2
<1>8. HubIsMine'
  <2> SUFFICES ASSUME phase' = "finale"
               PROVE  MineNext(apps' \cup marker')
    BY DEF HubIsMine, Mine, MineNext
  <2>1. CASE Prepare(r)
    <3>1. phase = "finale" /\ apps' = apps
      BY <1>6, <2>1, WhatAStepShows
    <3>2. runs[r].kind = "add"
      BY <1>1, <1>6, <2>1, <3>1 DEF Prepare, At, RunIsSound, DeployIsShown
    <3>3. apps \subseteq runs[r].ids /\ Mine(runs[r].ids)
      BY <1>1, <2>1, <3>2, TheLookFindsAll
    <3> QED  BY <1>2, <1>6, <2>1, <3>1, <3>3, MineStays DEF Mine, MineNext
  <2>2. CASE Wire(r)
    <3>0. runs[r].pc = "wire" /\ marker' = marker /\ runs[r].pc \in Stage
      BY <2>2 DEF Wire, At, disk, Stage
    <3>1. CASE runs[r].kind = "deploy"
      <4>1. apps' = runs[r].ids /\ marker' = runs[r].ids
        BY <1>1, <2>2, <3>0, <3>1 DEF Wire, Emit, RunIsMine
      <4>2. \A a \in runs[r].ids \cap Managed : Answers(a, runs[r].ids)
        BY <1>1, <3>0, <3>1 DEF IsHoused, BringingUp, Builders, BringUps
      <4>3. Mine(runs[r].ids)
        BY <1>2, <4>2 DEF Mine, Answers, OthersContainers, OnlyNamesAreTaken
      <4> QED  BY <1>2, <4>1, <4>3, MineStays
    <3>2. CASE runs[r].kind = "add"
      <4>1. apps' = apps \cup runs[r].comps \cup {runs[r].app} /\ marker' = runs[r].ids
        BY <1>1, <2>2, <3>0, <3>2 DEF Wire, Emit, RunIsMine
      <4>2. runs[r].ids = apps \cup runs[r].comps \cup {runs[r].app} /\ Mine(runs[r].ids)
        BY <1>1, <3>0, <3>2 DEF RunIsSound, RunHoldsItsAdding, RunIsMine
      <4> QED  BY <1>2, <4>1, <4>2, MineStays
    <3>3. CASE runs[r].kind \notin {"deploy", "add"}
      <4>1. runs[r].kind \in Purposes /\ runs[r].comps = {} /\ runs[r].app \in apps
        <5>1. runs[r].kind \in {"change_vpn", "restore", "reconnect"} /\ runs[r].kind \in Purposes
          BY <2>2, <3>3 DEF Wire, At, Purposes
        <5>2. runs[r].comps = {} /\ adding.purpose = runs[r].kind /\ adding.app = runs[r].app
          BY <1>1, <3>0, <5>1 DEF RunIsSound, RunHoldsItsAdding, AddingIsWorkedOn
        <5> QED  BY <3>3, <5>1, <5>2 DEF Bookkeeping, AddingIsSound
      <4>2. apps' = apps /\ phase = "finale"
        BY <2>2, <3>3, <4>1 DEF Wire, Emit
      <4>3. Mine(apps \cup marker)
        BY <4>2 DEF OthersContainers, HubIsMine
      <4> QED  BY <1>2, <3>0, <4>2, <4>3, MineStays
    <3> QED  BY <3>1, <3>2, <3>3
  <2>3. CASE ~Prepare(r) /\ ~Wire(r)
    <3>1. phase = "finale" /\ apps' = apps /\ marker' = marker
      BY <2>3, WhatAStepShows
    <3>2. Mine(apps \cup marker)
      BY <3>1 DEF OthersContainers, HubIsMine
    <3> QED  BY <1>2, <3>1, <3>2, MineStays
  <2> QED  BY <2>1, <2>2, <2>3
<1>9. AddIsMine'
  <2> SUFFICES ASSUME adding'.purpose = "add", adding'.ran
               PROVE  MineNext(Brought(adding'))
    BY DEF AddIsMine, Mine, MineNext, Brought
  <2>1. ~Wire(r)
    BY DEF Wire, Emit, NoAdd
  <2>2. ASSUME adding \in AppAdd
        PROVE  Brought(adding) \subseteq App
    BY <2>2, CatalogAssumption DEF Brought, AppAdd
  <2>3. CASE adding.purpose = "add" /\ adding.ran /\ Brought(adding') = Brought(adding)
    <3>1. adding \in AppAdd /\ Mine(Brought(adding))
      BY <2>3 DEF OthersContainers, AddIsMine, TypeOK, HubOK, NoAdd
    <3> QED  BY <2>2, <2>3, <3>1, MineStays
  <2>4. CASE SelfId(r) /\ adding # NoAdd
    <3>1. adding \in AppAdd
      BY <2>4 DEF TypeOK, HubOK
    <3>2. CASE adding' = adding
      BY <2>2, <2>3, <3>1, <3>2
    <3>3. CASE adding' # adding
      <4>1. /\ runs[r].kind = "add" /\ runs[r].pc = "self_id"
            /\ adding' = [adding EXCEPT !.ran = TRUE]
        BY <2>4, <3>3 DEF SelfId, At
      <4>2. Brought(adding') = Brought(adding)
        BY <3>1, <4>1 DEF AppAdd, Brought
      <4>3. /\ runs[r].ids = apps \cup runs[r].comps \cup {runs[r].app}
            /\ runs[r].comps = adding.comps /\ runs[r].app = adding.app /\ Mine(runs[r].ids)
        BY <1>1, <4>1
           DEF RunIsSound, RunHoldsItsAdding, AddingIsWorkedOn, Purposes, RunIsMine, Stage
      <4>4. Mine(Brought(adding))
        BY <4>3 DEF Mine, Brought
      <4> QED  BY <2>2, <3>1, <4>2, <4>4, MineStays
    <3> QED  BY <3>2, <3>3
  <2> QED  BY <2>1, <2>3, <2>4, WhatAStepShows
<1>10. runs'[r] = new /\ \A s \in RunId \ {r} : runs'[s] = runs[s]
  BY <1>3 DEF TypeOK, TasksOK
<1>11. \A s \in RunId : Live(s)' => RunIsMine(runs[s])'
  BY <1>1, <1>7, <1>10 DEF Live
<1> QED  BY <1>5, <1>8, <1>9, <1>11 DEF OthersContainers

(* The requests write the marker only for apps that are on the Hub. *)
LEMMA RequestKeepsOthers ==
  ASSUME Orderly, TypeOK, OneWorker, Bookkeeping, OthersContainers, NoneTurnsForeign,
         [Next]_vars, \A r \in RunId : ~RunStep(r)
  PROVE  HubIsMine' /\ AddIsMine' /\ (marker' = marker \/ ~IsRunning)
<1>0. apps \subseteq App /\ marker \subseteq App /\ apps \cup marker \subseteq App
  BY DEF TypeOK, HubOK, DiskOK
<1>1. ASSUME adding \in AppAdd
      PROVE  Brought(adding) \subseteq App
  BY <1>1, CatalogAssumption DEF Brought, AppAdd
<1>2. ASSUME phase' = "finale" => phase = "finale" /\ apps' = apps, marker' = marker
      PROVE  HubIsMine'
  <2> SUFFICES ASSUME phase' = "finale"
               PROVE  MineNext(apps' \cup marker')
    BY DEF HubIsMine, Mine, MineNext
  <2>1. Mine(apps \cup marker)
    BY <1>2 DEF OthersContainers, HubIsMine
  <2> QED  BY <1>0, <1>2, <2>1, MineStays
<1>3. ASSUME adding'.purpose = "add" /\ adding'.ran =>
               adding.purpose = "add" /\ adding.ran /\ Brought(adding') = Brought(adding)
      PROVE  AddIsMine'
  <2> SUFFICES ASSUME adding'.purpose = "add", adding'.ran
               PROVE  MineNext(Brought(adding'))
    BY DEF AddIsMine, Mine, MineNext, Brought
  <2>1. adding \in AppAdd /\ Mine(Brought(adding))
    BY <1>3 DEF OthersContainers, AddIsMine, TypeOK, HubOK, NoAdd
  <2> QED  BY <1>1, <1>3, <2>1, MineStays
<1>4. NoAdd.purpose # "add"
  BY DEF NoAdd
<1>5. ASSUME NEW a \in App, AddApp(a) \/ Reconnect(a)
      PROVE  HubIsMine' /\ AddIsMine' /\ marker' = marker
  <2>1. UNCHANGED <<marker, phase, apps>>
    BY <1>5 DEF AddApp, Reconnect, Emit, disk
  <2>2. adding'.purpose = "add" => ~adding'.ran
    BY <1>5 DEF AddApp, Reconnect, Emit, NewAdding
  <2> QED  BY <1>2, <1>3, <2>1, <2>2
<1>6. ASSUME NEW a \in App, Disconnect(a)
      PROVE  HubIsMine' /\ AddIsMine' /\ ~IsRunning
  <2>1. /\ ~IsRunning /\ adding = NoAdd /\ UNCHANGED <<phase, adding>>
        /\ marker' = install \ {a} /\ apps' = ShownApps \ {a}
    BY <1>6 DEF Disconnect
  <2>2. HubIsMine'
    <3> SUFFICES ASSUME phase' = "finale"
                 PROVE  MineNext(apps' \cup marker')
      BY DEF HubIsMine, Mine, MineNext
    <3>1. phase = "finale" /\ apps = install /\ Mine(apps)
      BY <2>1, TheFreeHub DEF Bookkeeping, OthersContainers, HubIsMine, Mine
    <3>2. MineNext(apps)
      BY <1>0, <3>1, MineStays
    <3> QED  BY <2>1, <3>1, <3>2 DEF MineNext, ShownApps
  <2> QED  BY <1>3, <2>1, <2>2
<1>7. ASSUME NEW changed \in BOOLEAN, RetryAdd(changed) \/ ChangeVpn(changed)
      PROVE  HubIsMine' /\ AddIsMine' /\ marker' = marker
  <2>1. UNCHANGED <<marker, phase, apps>>
    BY <1>7 DEF RetryAdd, ChangeVpn, Emit, disk
  <2>2. CASE RetryAdd(changed)
    <3>1. adding \in AppAdd /\ adding' = [adding EXCEPT !.state = "starting"]
      BY <2>2 DEF RetryAdd, Emit, TypeOK, HubOK, NoAdd
    <3>2. adding'.purpose = adding.purpose /\ adding'.ran = adding.ran /\ Brought(adding') = Brought(adding)
      BY <3>1 DEF AppAdd, Brought
    <3> QED  BY <1>2, <1>3, <2>1, <3>2
  <2>3. CASE ChangeVpn(changed)
    <3>1. adding'.purpose # "add"
      BY <2>3 DEF ChangeVpn, Emit, NewAdding
    <3> QED  BY <1>2, <1>3, <2>1, <3>1
  <2> QED  BY <1>7, <2>2, <2>3
<1>8. CASE CancelAdd \/ CancelRemove \/ CancelFails
  <2>1. UNCHANGED <<marker, hub>>
    BY <1>8 DEF CancelAdd, CancelRemove, CancelFails, Emit, disk, hub, Bookkeeping, CancelIsSound
  <2> QED  BY <1>2, <1>3, <2>1 DEF hub
<1>9. CASE CancelFinish
  <2>1. /\ cancel.on /\ ~IsRunning /\ phase = "finale" /\ adding \in AppAdd
        /\ cancel.rec = adding /\ adding.purpose = "add"
    BY <1>9, CancelTakesItsOwn
       DEF CancelFinish, Orderly, OneWorker, CancelIsAlone, Bookkeeping, CancelIsSound
  <2>2. marker' = install \ Brought(adding) /\ UNCHANGED <<phase, apps>>
    BY <1>9, <2>1 DEF CancelFinish, Emit
  <2>3. install \ Brought(adding) \subseteq apps
    BY <2>1, CatalogAssumption DEF Bookkeeping, HubAgreesWithInstall, Brought, AppAdd
  <2>4. MineNext(apps)
    <3>1. Mine(apps)
      BY <2>1 DEF OthersContainers, HubIsMine, Mine
    <3> QED  BY <1>0, <3>1, MineStays
  <2>5. HubIsMine'
    BY <2>2, <2>3, <2>4 DEF HubIsMine, Mine, MineNext
  <2>6. adding'.purpose # "add"
    BY <1>4, <1>9, <2>1 DEF CancelFinish, Emit, NewAdding
  <2> QED  BY <1>3, <2>1, <2>5, <2>6
<1>10. ASSUME NEW S \in WizardChoices, SaveChoices(S)
       PROVE  HubIsMine' /\ AddIsMine' /\ marker' = marker
  <2>1. UNCHANGED hub \/ (phase' = "ready" /\ adding' = NoAdd)
    BY <1>10 DEF SaveChoices, Emit
  <2>2. marker' = marker
    BY <1>10 DEF SaveChoices
  <2> QED  BY <1>2, <1>3, <1>4, <2>1, <2>2 DEF hub
<1>11. CASE \/ Start \/ ApplyLogin \/ ChooseApps \/ ConfirmInWizard \/ AnswerVpnQuestions
            \/ ConfirmOnHub \/ UndoConfirmation \/ Restart \/ UNCHANGED vars
  <2>1. UNCHANGED <<marker, hub>>
    BY <1>11 DEF Start, ApplyLogin, ChooseApps, ConfirmInWizard, AnswerVpnQuestions,
                 ConfirmOnHub, UndoConfirmation, Restart, vars, disk
  <2> QED  BY <1>2, <1>3, <2>1 DEF hub
<1> QED  BY <1>5, <1>6, <1>7, <1>8, <1>9, <1>10, <1>11 DEF Next

(* Nor does a request put a run of a deploy or an add into its stages. *)
LEMMA RequestRunsAreFresh ==
  ASSUME TypeOK, OneWorker, Bookkeeping, [Next]_vars, \A r \in RunId : ~RunStep(r),
         NEW s \in RunId, Live(s)', runs'[s].kind \in {"deploy", "add"}, runs'[s].pc \in Stage
  PROVE  runs'[s] = runs[s] /\ Live(s)
<1>1. ASSUME NEW run, Launch(run), run.pc \notin Stage \/ run.kind \notin {"deploy", "add"}
      PROVE  runs'[s] = runs[s]
  <2> DEFINE free == CHOOSE r \in RunId : ~Live(r)
  <2>1. runs' = [runs EXCEPT ![free] = run] /\ free \in RunId
    BY <1>1 DEF Launch
  <2> HIDE DEF free
  <2> QED  BY <1>1, <2>1 DEF TypeOK, TasksOK
<1>2. ASSUME NEW kind, NEW a, NEW ids, Launch(NewRun(kind, a, ids))
      PROVE  runs'[s] = runs[s]
  <2>1. NewRun(kind, a, ids).pc \notin Stage
    BY DEF NewRun, Idle, Stage
  <2> QED  BY <1>1, <1>2, <2>1
<1>3. ASSUME Start
      PROVE  runs'[s] = runs[s]
  <2>1. Launch(NewRun("deploy", NoApp, install))
    BY <1>3 DEF Start
  <2> QED  BY <1>2, <2>1
<1>4. ASSUME ApplyLogin
      PROVE  runs'[s] = runs[s]
  <2>1. PICK targets \in SUBSET (apps \cap Arr) :
          Launch([NewRun("login", NoApp, install) EXCEPT !.pc = "apply", !.todo = targets])
    BY <1>4 DEF ApplyLogin
  <2>2. PICK run : run = [NewRun("login", NoApp, install) EXCEPT !.pc = "apply", !.todo = targets]
    OBVIOUS
  <2>3. run.pc = "apply"
    BY <2>2 DEF NewRun, Idle
  <2>4. Launch(run) /\ run.pc \notin Stage
    BY <2>1, <2>2, <2>3 DEF Stage
  <2> QED  BY <1>1, <2>4
<1>5. ASSUME NEW a \in App, AddApp(a) \/ Reconnect(a) \/ Disconnect(a)
      PROVE  runs'[s] = runs[s]
  <2>1. CASE AddApp(a)
    BY <1>2, <2>1 DEF AddApp
  <2>2. CASE Reconnect(a)
    <3>1. [NewRun("reconnect", a, install) EXCEPT !.pc = "wire"].kind \notin {"deploy", "add"}
      BY DEF NewRun, Idle
    <3> QED  BY <1>1, <2>2, <3>1 DEF Reconnect
  <2>3. CASE Disconnect(a)
    BY <2>3 DEF Disconnect, tasks
  <2> QED  BY <1>5, <2>1, <2>2, <2>3
<1>6. ASSUME NEW changed \in BOOLEAN, RetryAdd(changed) \/ ChangeVpn(changed)
      PROVE  runs'[s] = runs[s]
  BY <1>2, <1>6 DEF RetryAdd, ChangeVpn
<1>7. ASSUME CancelFinish
      PROVE  runs'[s] = runs[s]
  <2>1. UNCHANGED runs \/ Launch(NewRun("restore", First(cancel.rec.moves), {}))
    BY <1>7 DEF CancelFinish
  <2> QED  BY <1>2, <2>1
<1>8. ASSUME Restart
      PROVE  runs'[s] = runs[s]
  <2> DEFINE first == CHOOSE q \in RunId : TRUE
  <2>1. PICK run : run = Resumed
    OBVIOUS
  <2>2. runs'[s] = run \/ runs'[s] = Idle
    BY <1>8, <2>1 DEF Restart
  <2>3. run.pc = "begin" \/ run = Idle \/ run.kind \notin {"deploy", "add"}
    <3>1. CASE phase \in {"running", "wiring"}
      BY <2>1, <3>1, ResumedIsTheSame, NewRunFields
    <3>2. CASE adding.state \in {"starting", "wiring"}
      BY <2>1, <3>2, ResumedIsTheSame
    <3>3. CASE phase \notin {"running", "wiring"} /\ adding.state \notin {"starting", "wiring"}
      BY <2>1, <3>3, ResumedIsTheSame
    <3> QED  BY <3>1, <3>2, <3>3
  <2> QED  BY <2>2, <2>3 DEF Idle, Stage
<1>9. ASSUME \/ CancelAdd \/ CancelRemove \/ CancelFails \/ ChooseApps \/ ConfirmInWizard
             \/ AnswerVpnQuestions \/ ConfirmOnHub \/ UndoConfirmation \/ UNCHANGED vars
             \/ \E S \in WizardChoices : SaveChoices(S)
      PROVE  runs'[s] = runs[s]
  <2>1. UNCHANGED runs
    BY <1>9 DEF CancelAdd, CancelRemove, CancelFails, ChooseApps, ConfirmInWizard,
                AnswerVpnQuestions, ConfirmOnHub, UndoConfirmation, SaveChoices, vars, tasks
  <2> QED  BY <2>1
<1>10. runs'[s] = runs[s]
  BY <1>3, <1>4, <1>5, <1>6, <1>7, <1>8, <1>9 DEF Next
<1> QED  BY <1>10 DEF Live

(* No step comes near a container of someone else's.                          *)
LEMMA OthersStep ==
  ASSUME Orderly, ~MissedLooks, TypeOK, TypeOK', OneWorker, Bookkeeping, Housekeeping,
         OthersContainers, [Next]_vars
  PROVE  OthersContainers'
<1>1. NoneTurnsForeign
  BY NothingTurnsForeign
<1>2. ASSUME NEW r \in RunId, RunStep(r)
      PROVE  OthersContainers'
  BY <1>1, <1>2, RunKeepsOthers DEF Orderly
<1>3. ASSUME \A r \in RunId : ~RunStep(r)
      PROVE  OthersContainers'
  <2>1. HubIsMine' /\ AddIsMine' /\ (marker' = marker \/ ~IsRunning)
    BY <1>1, <1>3, RequestKeepsOthers
  <2>2. OnlyNamesAreTaken'
    BY <1>1 DEF OthersContainers, OnlyNamesAreTaken, NoneTurnsForeign
  <2>3. ASSUME NEW s \in RunId, Live(s)'
        PROVE  RunIsMine(runs[s])'
    <3> SUFFICES ASSUME runs'[s].kind \in {"deploy", "add"}, runs'[s].pc \in Stage
                 PROVE  marker' = runs'[s].ids /\ (runs'[s].kind = "add" => MineNext(runs'[s].ids))
      BY DEF RunIsMine, Mine, MineNext
    <3>1. runs'[s] = runs[s] /\ Live(s)
      BY <1>3, <2>3, RequestRunsAreFresh
    <3>2. marker' = marker
      BY <2>1, <3>1, NobodyWorks
    <3>3. marker = runs[s].ids /\ (runs[s].kind = "add" => Mine(runs[s].ids))
      BY <3>1 DEF OthersContainers, RunIsMine
    <3>4. runs[s].ids \subseteq App
      BY <3>1, LiveRunOK DEF TypeOK, Live, Run
    <3> QED  BY <1>1, <3>1, <3>2, <3>3, <3>4, MineStays
  <2> QED  BY <2>1, <2>2, <2>3 DEF OthersContainers
<1> QED  BY <1>2, <1>3

(* So such a container stays what it is.                                      *)
LEMMA ForeignStays ==
  ASSUME Orderly, TypeOK, OneWorker, Bookkeeping, Housekeeping, OthersContainers, [Next]_vars,
         NEW a \in App, container[a] = "foreign"
  PROVE  container'[a] = "foreign"
<1>1. ASSUME NEW gone \in App, RemoveContainer(gone), gone # a
      PROVE  container'[a] = "foreign"
  BY <1>1 DEF RemoveContainer
<1>2. CASE container' = container
  BY <1>2
<1>3. CASE CancelRemove
  <2>1. PICK gone : gone = Last(cancel.left)
    OBVIOUS
  <2>2. cancel.on /\ cancel.left # {} /\ RemoveContainer(gone)
    BY <1>3, <2>1 DEF CancelRemove
  <2>3. gone \in App /\ gone \in Brought(adding)
    BY <2>1, <2>2, CancelTakesItsOwn DEF Orderly
  <2>4. Mine(Brought(adding))
    BY <2>2 DEF Bookkeeping, CancelIsSound, OthersContainers, AddIsMine
  <2> QED  BY <1>1, <2>2, <2>3, <2>4 DEF Mine
<1>4. ASSUME NEW r \in RunId, RunStep(r)
      PROVE  container'[a] = "foreign"
  <2>1. /\ runs[r] \in Run /\ runs[r].kind # "none" /\ RunIsSound(runs[r])
        /\ IsHoused(runs[r]) /\ RunIsMine(runs[r])
    BY <1>4, StepIsAlone DEF Orderly, Bookkeeping, Housekeeping, OthersContainers, Live
  <2>2. CASE Create(r)
    BY <2>2 DEF Create, ComposeCreate, ComposeRecreate, Missing, docker, TypeOK, DockerTypeOK
  <2>3. CASE RemoveMover(r) \/ RemoveVpn(r)
    <3>1. runs[r].pc \in {"remove", "unseat"} /\ runs[r].kind \in Purposes
      BY <2>3 DEF RemoveMover, RemoveVpn, At
    <3>2. runs[r].kind \in {"add", "change_vpn"}
      <4>1. CASE runs[r].pc = "remove"
        BY <2>1, <4>1 DEF IsHoused, TakeDownIsSound
      <4>2. CASE runs[r].pc = "unseat"
        BY <2>1, <3>1, <4>2
           DEF IsHoused, TakeDownIsSound, RunIsSound, RunHoldsItsAdding, Purposes
      <4> QED  BY <3>1, <4>1, <4>2
    <3>3. /\ phase = "finale" /\ runs[r].movers \subseteq RidersOf(apps)
          /\ adding.purpose = runs[r].kind /\ adding.app = runs[r].app
          /\ runs[r].kind = "change_vpn" => runs[r].app \in apps
      BY <2>1, <3>1, <3>2, WhatMoves DEF Orderly, Stage
    <3>4. Mine(apps)
      BY <3>3 DEF OthersContainers, HubIsMine, Mine
    <3>5. CASE RemoveMover(r)
      <4>1. PICK gone : gone = Last(runs[r].todo)
        OBVIOUS
      <4>2. runs[r].todo # {} /\ runs[r].todo \subseteq Rider /\ runs[r].todo \subseteq apps
        BY <2>1, <3>3, <3>5 DEF RemoveMover, At, IsHoused, TakeDownIsSound, RidersOf
      <4>3. gone \in apps /\ gone \in App
        BY <4>1, <4>2, LastMover DEF TypeOK, HubOK
      <4> QED  BY <1>1, <3>4, <3>5, <4>1, <4>3 DEF RemoveMover, Mine
    <3>6. CASE RemoveVpn(r)
      <4>1. runs[r].pc = "unseat" /\ runs[r].unseat
        BY <2>1, <3>6 DEF RemoveVpn, At, IsHoused, TakeDownIsSound
      <4>2. container[Vpn] # "foreign"
        <5>1. CASE runs[r].kind = "add"
          <6>1. Mine(runs[r].ids) /\ Vpn \in runs[r].ids
            BY <2>1, <4>1, <5>1 DEF RunIsMine, RunIsSound, RunHoldsItsAdding, Stage
          <6> QED  BY <6>1 DEF Mine
        <5>2. CASE runs[r].kind = "change_vpn"
          <6>1. Vpn \in apps
            BY <3>3, <5>2 DEF Bookkeeping, AddingIsSound
          <6> QED  BY <3>4, <6>1 DEF Mine
        <5> QED  BY <3>2, <5>1, <5>2
      <4> QED  BY <1>1, <3>6, <4>2, CatalogAssumption DEF RemoveVpn
    <3> QED  BY <2>3, <3>5, <3>6
  <2>4. CASE ~(Create(r) \/ RemoveMover(r) \/ RemoveVpn(r))
    <3>1. container' = container
      BY <1>4, <2>4
         DEF RunStep, BeginDeploy, BeginAdd, BeginFromDisk, ApplyLogins, Probe, Rewrite,
             ClashFound, Prepare, SelfId, StopMover, StopContainer, StartUp, ComposeStart,
             Ready, Break, BreakLogin, PutLogins, Wire, ClearConfirmation, End, docker
    <3> QED  BY <3>1
  <2> QED  BY <2>2, <2>3, <2>4
<1> QED  BY <1>2, <1>3, <1>4, WhoTouchesContainers

(* Whatever stood on the machine before, and whatever the catalog: as long   *)
(* as Docker answers the look for a name clash, no container of somebody     *)
(* else's is replaced, moved off its network or removed, through any failed  *)
(* adds, retries, moves behind the VPN, cancels and restarts.                *)
THEOREM ForeignIsSpared ==
  ASSUME Orderly, ~MissedLooks
  PROVE  Spec => NeverTouchesForeign
<1> DEFINE Spared == \A a \in App : container[a] = "foreign" => container'[a] = "foreign"
<1>1. Init => OthersContainers
  <2> SUFFICES ASSUME Init
               PROVE  OthersContainers
    OBVIOUS
  <2>1. OnlyNamesAreTaken
    BY ManagerAssumption DEF Init, OnlyNamesAreTaken
  <2> QED  BY <2>1 DEF Init, OthersContainers, HubIsMine, AddIsMine, NoAdd, Live, Idle
<1>2. TypeOK /\ OneWorker /\ Bookkeeping /\ Housekeeping /\ TypeOK' /\ OthersContainers
        /\ [Next]_vars => OthersContainers'
  <2> SUFFICES ASSUME TypeOK, OneWorker, Bookkeeping, Housekeeping, TypeOK', OthersContainers,
                      [Next]_vars
               PROVE  OthersContainers'
    OBVIOUS
  <2> QED  BY OthersStep
<1>3. TypeOK /\ OneWorker /\ Bookkeeping /\ Housekeeping /\ OthersContainers
        /\ [Next]_vars => [Spared]_vars
  <2> SUFFICES ASSUME TypeOK, OneWorker, Bookkeeping, Housekeeping, OthersContainers,
                      [Next]_vars, NEW a \in App, container[a] = "foreign"
               PROVE  container'[a] = "foreign"
    OBVIOUS
  <2> QED  BY ForeignStays
<1> QED  BY <1>1, <1>2, <1>3, HouseIsKept, PTL DEF NeverTouchesForeign, Spec
==============================================================================
