-------------------------------- MODULE Login --------------------------------
(***************************************************************************)
(* The one saved login (login.py), putting it on an app (login_apply.py) and *)
(* the runs that do so (deploy.py): a deploy or an add reads the login anew  *)
(* for each app, a login run keeps to the one it was started with.           *)
(*                                                                           *)
(* A login is its generation, 0 for none.  A step is the code between two    *)
(* awaits; of a request to an app that takes several calls, the outcomes.    *)
(***************************************************************************)
EXTENDS Naturals

CONSTANTS
  LoginApp,   \* apps whose login_kind is not "none"
  ArrApp,     \* those of kind "arr", which a login run recreates
  Jellyfin,   \* those of kind "jellyfin", which takes name and password apart
  MaxLogins   \* bound: how often a login is saved

ASSUME LoginAssumption ==
  /\ ArrApp \subseteq LoginApp /\ Jellyfin \subseteq LoginApp \ ArrApp
  /\ MaxLogins \in Nat

VARIABLES
  login,    \* generation in login.json
  applied,  \* applied in login.json: for each app a generation, 0 for none
  carries,  \* the login each app really asks for, 0 for some other
  finale,   \* whether the Hub exists
  run,      \* the run under way
  posting   \* a wizard page got past the guard and waits for its form

loginVars == <<login, applied, carries, finale, run, posting>>

Generation == 0 .. MaxLogins

NoRun == [kind |-> "none", pc |-> "next", gen |-> 0, todo |-> {}, accepted |-> {}]

Run ==
  [kind : {"none", "deploy", "add", "login"}, pc : {"next", "put", "check", "restart"},
   gen : Generation, todo : SUBSET LoginApp, accepted : SUBSET LoginApp]

(* Each variable has its type, and no run and no app is ahead of what is     *)
(* saved.                                                                    *)
LoginTypeOK ==
  /\ login \in Generation
  /\ applied \in [LoginApp -> 0 .. login]
  /\ carries \in [LoginApp -> 0 .. login]
  /\ finale \in BOOLEAN /\ posting \in BOOLEAN
  /\ run \in Run /\ run.gen <= login

LoginInit ==
  /\ login = 0
  /\ applied = [a \in LoginApp |-> 0] /\ carries = [a \in LoginApp |-> 0]
  /\ finale = FALSE /\ posting = FALSE
  /\ run = NoRun

Pending == {a \in LoginApp : applied[a] # login \/ login = 0}

------------------------------------------------------------------------------
(* login.json *)

(* Mutant: whatever was put on the app is recorded. *)
RecordRegardless(S, gen) ==
  applied' = [a \in LoginApp |-> IF a \in S THEN login ELSE applied[a]]

(* record_applied, app by app: only for the generation that is still the     *)
(* saved one, and not where the file cannot be written.                      *)
RecordApplied(S, gen) ==
  \E written \in SUBSET S :
    applied' = [a \in LoginApp |->
                  IF a \in written /\ login = gen THEN gen ELSE applied[a]]

(* save_login: the apps recorded for the login before become pending. *)
SaveLogin ==
  /\ login < MaxLogins
  /\ login' = login + 1
  /\ UNCHANGED applied

(* The applier never raises.  One that fails may have done its work and lost *)
(* the answer; Jellyfin's may have changed the name and not the password.    *)
Accepts(a, gen) == carries' = [carries EXCEPT ![a] = gen]

Refuses(a, gen) ==
  \/ UNCHANGED carries
  \/ Accepts(a, gen)
  \/ a \in Jellyfin /\ carries[a] # gen /\ Accepts(a, 0)

------------------------------------------------------------------------------
(* Deploys and adds *)

StartRun(kind) ==
  /\ run = NoRun
  /\ kind = "add" => finale
  /\ \E S \in SUBSET LoginApp : run' = [NoRun EXCEPT !.kind = kind, !.todo = S]
  /\ finale' = (finale /\ kind = "add")
  /\ UNCHANGED <<login, applied, carries, posting>>

(* _put_login begins: the login is read for each app. *)
ReadLogin ==
  /\ run.kind \in {"deploy", "add"} /\ run.pc = "next" /\ run.todo # {}
  /\ run' = IF login = 0 THEN [run EXCEPT !.todo = {}]
            ELSE [run EXCEPT !.pc = "put", !.gen = login]
  /\ UNCHANGED <<login, applied, carries, finale, posting>>

PutLogin ==
  /\ run.kind \in {"deploy", "add"} /\ run.pc = "put"
  /\ \E a \in run.todo :
       /\ \/ Accepts(a, run.gen) /\ RecordApplied({a}, run.gen)
          \/ Refuses(a, run.gen) /\ UNCHANGED applied
       /\ run' = [run EXCEPT !.pc = "next", !.todo = @ \ {a}]
  /\ UNCHANGED <<login, finale, posting>>

(* A deploy reaches its finale; any run may fail on the way. *)
EndRun ==
  /\ run.kind \in {"deploy", "add"} /\ run.pc = "next"
  /\ finale' \in {finale, finale \/ run.todo = {}}
  /\ run' = NoRun
  /\ UNCHANGED <<login, applied, carries, posting>>

------------------------------------------------------------------------------
(* The login run *)

(* apply_login, for whichever apps the Hub shows. *)
ApplyLogin(gen, pending) ==
  \E shown \in SUBSET LoginApp :
    run' = IF shown \cap pending = {} THEN run
           ELSE [NoRun EXCEPT !.kind = "login", !.pc = "put", !.gen = gen,
                              !.todo = shown \cap pending]

(* Mutant: phase 2 recreates the arr apps, whatever they answered. *)
RestartTheArrs(after, accepted) ==
  /\ RecordApplied(accepted \ ArrApp, after.gen)
  /\ run' = [after EXCEPT !.pc = "check", !.todo = ArrApp]

(* With the last answer of phase 1, the apps that need no restart are        *)
(* recorded; phase 2 takes the arr apps that accepted.                       *)
PhaseTwo(after, accepted) ==
  /\ RecordApplied(accepted \ ArrApp, after.gen)
  /\ run' = IF accepted \cap ArrApp = {} THEN NoRun
            ELSE [after EXCEPT !.pc = "check", !.todo = accepted \cap ArrApp]

PutInLoginRun ==
  /\ run.kind = "login" /\ run.pc = "put"
  /\ \E a \in run.todo, ok \in BOOLEAN :
       LET accepted == IF ok THEN run.accepted \cup {a} ELSE run.accepted
           after    == [run EXCEPT !.todo = @ \ {a}, !.accepted = accepted]
       IN  /\ IF ok THEN Accepts(a, run.gen) ELSE Refuses(a, run.gen)
           /\ IF after.todo = {} THEN PhaseTwo(after, accepted)
              ELSE run' = after /\ UNCHANGED applied
  /\ UNCHANGED <<login, finale, posting>>

(* Docker answers, the VPN answers and the own container are in order. *)
CheckDocker ==
  /\ run.kind = "login" /\ run.pc = "check"
  /\ run' \in {NoRun, [run EXCEPT !.pc = "restart"]}
  /\ UNCHANGED <<login, applied, carries, finale, posting>>

(* A restarted app is recorded, one that could not be restarted is not; a    *)
(* reply of Docker's that breaks off ends the run.                           *)
RestartApp ==
  /\ run.kind = "login" /\ run.pc = "restart"
  /\ \/ \E a \in run.todo :
          /\ RecordApplied({a}, run.gen)
          /\ run' = IF run.todo = {a} THEN NoRun ELSE [run EXCEPT !.todo = @ \ {a}]
     \/ run' = NoRun /\ UNCHANGED applied
  /\ UNCHANGED <<login, carries, finale, posting>>

------------------------------------------------------------------------------
(* The owner *)

(* post_setup_login asks for the Hub before it awaits the form. *)
PostWizardLogin ==
  /\ ~finale /\ ~posting
  /\ posting' = TRUE
  /\ UNCHANGED <<login, applied, carries, finale, run>>

WizardSaves ==
  /\ posting
  /\ posting' = FALSE
  /\ SaveLogin \/ UNCHANGED <<login, applied>>
  /\ UNCHANGED <<carries, finale, run>>

(* Choose, answer a reset, or change: refused while the manager is busy, and *)
(* followed by apply_login in the same step, which needs the finale.         *)
SaveOnHub ==
  /\ run = NoRun
  /\ SaveLogin
  /\ IF finale THEN ApplyLogin(login', LoginApp) ELSE UNCHANGED run
  /\ UNCHANGED <<carries, finale, posting>>

RetryLogin ==
  /\ run = NoRun /\ finale /\ login # 0
  /\ ApplyLogin(login, Pending)
  /\ UNCHANGED <<login, applied, carries, finale, posting>>

(* A login run is not resumed; a deploy or an add starts anew. *)
LoginRestart ==
  /\ run' = NoRun /\ posting' = FALSE
  /\ UNCHANGED <<login, applied, carries, finale>>

LoginNext ==
  \/ \E kind \in {"deploy", "add"} : StartRun(kind)
  \/ ReadLogin \/ PutLogin \/ EndRun
  \/ PutInLoginRun \/ CheckDocker \/ RestartApp
  \/ PostWizardLogin \/ WizardSaves \/ SaveOnHub \/ RetryLogin
  \/ LoginRestart

LoginSpec == LoginInit /\ [][LoginNext]_loginVars

------------------------------------------------------------------------------
(* "a stale run can never mark a newer login as applied": an app the Hub     *)
(* does not name as pending asks for the login that is saved.                *)
MarkedIsCarried == \A a \in LoginApp \ Pending : carries[a] = login

(* "an app that refused the login is never left asking for one it doesn't    *)
(* have": what a login run restarts has the login the run brought.           *)
OnlyAcceptedAreRestarted ==
  run.kind = "login" /\ run.pc \in {"check", "restart"} =>
    \A a \in run.todo : carries[a] = run.gen
==============================================================================
