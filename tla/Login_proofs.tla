----------------------------- MODULE Login_proofs -----------------------------
(***************************************************************************)
(* Proofs about Login: for any apps and any number of logins saved, also in  *)
(* the middle of runs, an app that is not named as pending has the login.    *)
(***************************************************************************)
EXTENDS Login, TLAPS

(* While a run holds a login that is no longer the saved one, no app is      *)
(* recorded for the saved one: what such a run still does cannot touch one.  *)
StaleRunFindsNoneMarked ==
  run.kind # "none" /\ run.pc # "next" /\ run.gen # login =>
    \A a \in LoginApp : applied[a] # login

(* What a login run keeps as accepted has the login of the run. *)
AcceptedCarry == run.kind = "login" => \A a \in run.accepted : carries[a] = run.gen

(* A login run restarts only what accepted. *)
RestartsAccepted ==
  run.kind = "login" /\ run.pc \in {"check", "restart"} => run.todo \subseteq run.accepted

(* Pending written out: an app recorded for the saved login carries it. *)
MarkedCarry == login # 0 => \A a \in LoginApp : applied[a] = login => carries[a] = login

Inv == LoginTypeOK /\ StaleRunFindsNoneMarked /\ AcceptedCarry /\ RestartsAccepted /\ MarkedCarry

USE LoginAssumption DEF LoginAssumption

(* NoRun is a run. *)
LEMMA NoRunIsRun == NoRun \in Run /\ NoRun.gen = 0
  BY DEF NoRun, Run, Generation

(* What the types say of the numbers: a run is not ahead of what is saved.   *)
LEMMA RunIsNotAhead ==
  ASSUME LoginTypeOK
  PROVE  login \in Nat /\ login <= MaxLogins /\ run.gen \in Nat /\ run.gen \in 0 .. login
<1>1. login \in Generation /\ run \in Run /\ run.gen <= login
  BY DEF LoginTypeOK
<1>2. run.gen \in Generation
  BY <1>1 DEF Run
<1> QED BY <1>1, <1>2 DEF Generation

(* Before anything is saved, the invariant holds.                            *)
LEMMA InitInv == LoginInit => Inv
<1> SUFFICES ASSUME LoginInit PROVE Inv
  OBVIOUS
<1>1. login = 0 /\ 0 \in Generation /\ run = NoRun
  BY DEF LoginInit, Generation
<1>2. LoginTypeOK
  <2>1. applied \in [LoginApp -> 0 .. login] /\ carries \in [LoginApp -> 0 .. login]
    BY <1>1 DEF LoginInit
  <2>2. run \in Run /\ run.gen <= login
    BY <1>1, NoRunIsRun
  <2>3. finale \in BOOLEAN /\ posting \in BOOLEAN
    BY DEF LoginInit
  <2> QED BY <1>1, <2>1, <2>2, <2>3 DEF LoginTypeOK
<1>3. StaleRunFindsNoneMarked /\ AcceptedCarry /\ RestartsAccepted /\ MarkedCarry
  BY <1>1 DEF NoRun, StaleRunFindsNoneMarked, AcceptedCarry, RestartsAccepted, MarkedCarry
<1> QED BY <1>2, <1>3 DEF Inv

(* The end of a run leaves the files and the apps alone. *)
LEMMA RunGoneInv ==
  ASSUME Inv, run' = NoRun, UNCHANGED <<login, applied, carries>>,
         finale' \in BOOLEAN, posting' \in BOOLEAN
  PROVE  Inv'
<1>1. LoginTypeOK'
  BY NoRunIsRun DEF Inv, LoginTypeOK, Generation
<1>2. StaleRunFindsNoneMarked' /\ AcceptedCarry' /\ RestartsAccepted' /\ MarkedCarry'
  BY DEF Inv, NoRun, StaleRunFindsNoneMarked, AcceptedCarry, RestartsAccepted, MarkedCarry
<1> QED BY <1>1, <1>2 DEF Inv

(* Recording an app that carries the login of the run keeps what is recorded *)
(* true, whether or not that login is still the saved one.                   *)
LEMMA RecordKeepsMarks ==
  ASSUME Inv, NEW S \in SUBSET LoginApp, NEW gen \in 0 .. login,
         \A a \in S : carries'[a] = gen,
         \A a \in LoginApp : applied[a] = login /\ login # 0 => carries'[a] = login,
         RecordApplied(S, gen), login' = login
  PROVE  /\ applied' \in [LoginApp -> 0 .. login']
         /\ MarkedCarry'
         /\ gen # login => applied' = applied
<1>1. PICK written \in SUBSET S :
        applied' = [a \in LoginApp |->
                      IF a \in written /\ login = gen THEN gen ELSE applied[a]]
  BY DEF RecordApplied
<1>2. applied \in [LoginApp -> 0 .. login]
  BY DEF Inv, LoginTypeOK
<1>3. applied' \in [LoginApp -> 0 .. login']
  BY <1>1, <1>2
<1>4. MarkedCarry'
  BY <1>1, <1>2 DEF MarkedCarry
<1>5. gen # login => applied' = applied
  BY <1>1, <1>2
<1> QED BY <1>3, <1>4, <1>5

(* Whatever becomes of a request to put a login on an app, no other app      *)
(* changes, and one that has that login keeps it.                            *)
LEMMA PutTouchesOne ==
  ASSUME Inv, NEW a \in LoginApp, NEW gen \in 0 .. login,
         Accepts(a, gen) \/ Refuses(a, gen)
  PROVE  /\ carries' \in [LoginApp -> 0 .. login]
         /\ \A b \in LoginApp : b # a => carries'[b] = carries[b]
         /\ carries[a] = gen => carries'[a] = gen
         /\ Accepts(a, gen) => carries'[a] = gen
<1>1. carries \in [LoginApp -> 0 .. login] /\ 0 \in 0 .. login
  BY DEF Inv, LoginTypeOK, Generation
<1> QED BY <1>1 DEF Accepts, Refuses

(* A put keeps what is recorded true: a run with the saved login leaves it   *)
(* in place, and with another login on its hands nothing is recorded.        *)
LEMMA PutKeepsMarks ==
  ASSUME Inv, NEW a \in LoginApp, run.kind # "none", run.pc = "put",
         Accepts(a, run.gen) \/ Refuses(a, run.gen)
  PROVE  \A b \in LoginApp : applied[b] = login /\ login # 0 => carries'[b] = login
<1>1. run.gen \in 0 .. login
  BY DEF Inv, LoginTypeOK, Run, Generation
<1>2. SUFFICES ASSUME NEW b \in LoginApp, applied[b] = login, login # 0
               PROVE  carries'[b] = login
  OBVIOUS
<1>3. carries[b] = login
  BY <1>2 DEF Inv, MarkedCarry
<1>4. run.gen = login
  BY <1>2 DEF Inv, StaleRunFindsNoneMarked
<1> QED BY <1>1, <1>3, <1>4, PutTouchesOne

(* The steps of a deploy or an add. *)
LEMMA DeployStepInv ==
  ASSUME Inv, (\E kind \in {"deploy", "add"} : StartRun(kind)) \/ ReadLogin \/ PutLogin \/ EndRun
  PROVE  Inv'
<1>1. ASSUME NEW kind \in {"deploy", "add"}, StartRun(kind)
      PROVE  Inv'
  <2>1. PICK S \in SUBSET LoginApp : run' = [NoRun EXCEPT !.kind = kind, !.todo = S]
    BY <1>1 DEF StartRun
  <2>2. /\ run'.kind = kind /\ run'.pc = "next" /\ run'.gen = 0
        /\ run' \in Run
    <3>1. NoRun \in Run /\ NoRun.pc = "next" /\ NoRun.gen = 0
      BY NoRunIsRun DEF NoRun
    <3> QED BY <2>1, <3>1 DEF Run
  <2>3. LoginTypeOK'
    <3>1. run'.gen <= login'
      <4>1. login \in Nat /\ login' = login
        BY <1>1, RunIsNotAhead DEF StartRun, Inv
      <4> QED BY <2>2, <4>1
    <3>2. finale' \in BOOLEAN /\ posting' \in BOOLEAN
      BY <1>1 DEF StartRun, Inv, LoginTypeOK
    <3> QED BY <1>1, <2>2, <3>1, <3>2 DEF StartRun, Inv, LoginTypeOK
  <2>4. StaleRunFindsNoneMarked' /\ AcceptedCarry' /\ RestartsAccepted' /\ MarkedCarry'
    BY <1>1, <2>2 DEF StartRun, Inv, StaleRunFindsNoneMarked, AcceptedCarry,
                      RestartsAccepted, MarkedCarry
  <2> QED BY <2>3, <2>4 DEF Inv
<1>2. CASE ReadLogin
  <2>1. /\ run \in Run /\ login \in Generation /\ run.kind \in {"deploy", "add"}
        /\ run.pc = "next" /\ UNCHANGED <<login, applied, carries, finale, posting>>
    BY <1>2 DEF ReadLogin, Inv, LoginTypeOK
  <2>2. /\ run' \in Run /\ run'.kind = run.kind /\ run'.gen <= login
        /\ run'.pc = "next" \/ run'.gen = login
    <3>1. run.gen <= login /\ login <= login
      BY RunIsNotAhead DEF Inv
    <3>2. CASE run' = [run EXCEPT !.todo = {}]
      BY <2>1, <3>1, <3>2 DEF Run
    <3>3. CASE run' = [run EXCEPT !.pc = "put", !.gen = login]
      BY <2>1, <3>1, <3>3 DEF Run
    <3> QED BY <1>2, <3>2, <3>3 DEF ReadLogin
  <2>3. LoginTypeOK'
    BY <2>1, <2>2 DEF Inv, LoginTypeOK
  <2>4. StaleRunFindsNoneMarked' /\ AcceptedCarry' /\ RestartsAccepted' /\ MarkedCarry'
    BY <2>1, <2>2 DEF Inv, StaleRunFindsNoneMarked, AcceptedCarry, RestartsAccepted, MarkedCarry
  <2> QED BY <2>3, <2>4 DEF Inv
<1>3. CASE PutLogin
  <2>1. PICK a \in run.todo :
          /\ \/ Accepts(a, run.gen) /\ RecordApplied({a}, run.gen)
             \/ Refuses(a, run.gen) /\ UNCHANGED applied
          /\ run' = [run EXCEPT !.pc = "next", !.todo = @ \ {a}]
    BY <1>3 DEF PutLogin
  <2>2. /\ run \in Run /\ run.gen \in 0 .. login /\ a \in LoginApp
        /\ run.kind \in {"deploy", "add"} /\ run.pc = "put"
        /\ UNCHANGED <<login, finale, posting>>
    <3>1. run \in Run
      BY DEF Inv, LoginTypeOK
    <3> QED BY <1>3, <3>1, RunIsNotAhead DEF PutLogin, Inv, Run
  <2>3. /\ run' \in Run /\ run'.kind = run.kind /\ run'.gen = run.gen /\ run'.pc = "next"
    BY <2>1, <2>2 DEF Run
  <2>4. /\ carries' \in [LoginApp -> 0 .. login]
        /\ Accepts(a, run.gen) => carries'[a] = run.gen
    BY <2>1, <2>2, PutTouchesOne
  <2>5. \A b \in LoginApp : applied[b] = login /\ login # 0 => carries'[b] = login
    BY <2>1, <2>2, PutKeepsMarks
  <2>6. applied' \in [LoginApp -> 0 .. login'] /\ MarkedCarry'
    <3>1. CASE Accepts(a, run.gen) /\ RecordApplied({a}, run.gen)
      BY <2>2, <2>4, <2>5, <3>1, RecordKeepsMarks
    <3>2. CASE UNCHANGED applied
      BY <2>2, <2>5, <3>2 DEF Inv, LoginTypeOK, MarkedCarry
    <3> QED BY <2>1, <3>1, <3>2
  <2>7. LoginTypeOK'
    BY <2>2, <2>3, <2>4, <2>6 DEF Inv, LoginTypeOK
  <2>8. StaleRunFindsNoneMarked' /\ AcceptedCarry' /\ RestartsAccepted'
    BY <2>2, <2>3 DEF StaleRunFindsNoneMarked, AcceptedCarry, RestartsAccepted
  <2> QED BY <2>6, <2>7, <2>8 DEF Inv
<1>4. CASE EndRun
  BY <1>4, RunGoneInv DEF EndRun, Inv, LoginTypeOK
<1> QED BY <1>1, <1>2, <1>3, <1>4

(* The steps of a login run. *)
LEMMA LoginRunStepInv ==
  ASSUME Inv, PutInLoginRun \/ CheckDocker \/ RestartApp
  PROVE  Inv'
<1>1. CASE PutInLoginRun
  <2>1. PICK a \in run.todo, ok \in BOOLEAN :
          LET accepted == IF ok THEN run.accepted \cup {a} ELSE run.accepted
              after    == [run EXCEPT !.todo = @ \ {a}, !.accepted = accepted]
          IN  /\ IF ok THEN Accepts(a, run.gen) ELSE Refuses(a, run.gen)
              /\ IF after.todo = {} THEN PhaseTwo(after, accepted)
                 ELSE run' = after /\ UNCHANGED applied
    BY <1>1 DEF PutInLoginRun
  <2> DEFINE accepted == IF ok THEN run.accepted \cup {a} ELSE run.accepted
             after    == [run EXCEPT !.todo = @ \ {a}, !.accepted = accepted]
  <2>2. /\ run \in Run /\ run.gen \in 0 .. login /\ a \in LoginApp
        /\ run.kind = "login" /\ run.pc = "put"
        /\ UNCHANGED <<login, finale, posting>>
    <3>1. run \in Run
      BY DEF Inv, LoginTypeOK
    <3> QED BY <1>1, <3>1, RunIsNotAhead DEF PutInLoginRun, Inv, Run
  <2>3. /\ after \in Run /\ after.kind = "login" /\ after.pc = "put"
        /\ after.gen = run.gen /\ after.accepted = accepted
    BY <2>2 DEF Run
  <2>4. /\ carries' \in [LoginApp -> 0 .. login]
        /\ \A b \in accepted : carries'[b] = run.gen
    BY <2>1, <2>2, PutTouchesOne DEF Inv, AcceptedCarry, Run
  <2>5. \A b \in LoginApp : applied[b] = login /\ login # 0 => carries'[b] = login
    BY <2>1, <2>2, PutKeepsMarks
  <2>6. CASE after.todo # {}
    <3>1. run' = after /\ UNCHANGED applied
      BY <2>1, <2>6
    <3>2. LoginTypeOK'
      BY <2>2, <2>3, <2>4, <3>1 DEF Inv, LoginTypeOK
    <3>3. StaleRunFindsNoneMarked' /\ AcceptedCarry' /\ RestartsAccepted'
      BY <2>2, <2>3, <2>4, <3>1 DEF Inv, StaleRunFindsNoneMarked, AcceptedCarry,
                                    RestartsAccepted
    <3>4. MarkedCarry'
      BY <2>2, <2>5, <3>1 DEF MarkedCarry
    <3> QED BY <3>2, <3>3, <3>4 DEF Inv
  <2>7. CASE after.todo = {}
    <3>1. PhaseTwo(after, accepted)
      BY <2>1, <2>7
    <3>2. /\ applied' \in [LoginApp -> 0 .. login'] /\ MarkedCarry'
          /\ run.gen # login => applied' = applied
      <4>1. RecordApplied(accepted \ ArrApp, run.gen)
        BY <2>3, <3>1 DEF PhaseTwo
      <4>2. accepted \ ArrApp \in SUBSET LoginApp
        BY <2>2 DEF Run
      <4> HIDE DEF accepted, after
      <4> QED BY <2>2, <2>4, <2>5, <4>1, <4>2, RecordKeepsMarks
    <3>3. CASE accepted \cap ArrApp = {}
      <4>1. run' = NoRun
        BY <3>1, <3>3 DEF PhaseTwo
      <4>2. LoginTypeOK'
        BY <2>2, <2>4, <3>2, <4>1, NoRunIsRun DEF Inv, LoginTypeOK, Generation
      <4>3. StaleRunFindsNoneMarked' /\ AcceptedCarry' /\ RestartsAccepted'
        BY <4>1 DEF NoRun, StaleRunFindsNoneMarked, AcceptedCarry, RestartsAccepted
      <4> QED BY <3>2, <4>2, <4>3 DEF Inv
    <3>4. CASE accepted \cap ArrApp # {}
      <4>1. run' = [after EXCEPT !.pc = "check", !.todo = accepted \cap ArrApp]
        BY <3>1, <3>4 DEF PhaseTwo
      <4>2. accepted \in SUBSET LoginApp
        BY <2>2 DEF Run
      <4>3. /\ run' \in Run /\ run'.kind = "login" /\ run'.pc = "check"
            /\ run'.gen = run.gen /\ run'.accepted = accepted
            /\ run'.todo \subseteq accepted
        <5> HIDE DEF accepted, after
        <5> QED BY <2>3, <4>1, <4>2 DEF Run
      <4> HIDE DEF accepted, after
      <4>4. LoginTypeOK'
        BY <2>2, <2>4, <3>2, <4>3 DEF Inv, LoginTypeOK
      <4>5. StaleRunFindsNoneMarked' /\ AcceptedCarry' /\ RestartsAccepted'
        BY <2>2, <2>4, <3>2, <4>3 DEF Inv, StaleRunFindsNoneMarked, AcceptedCarry,
                                      RestartsAccepted
      <4> QED BY <3>2, <4>4, <4>5 DEF Inv
    <3> QED BY <3>3, <3>4
  <2> QED BY <2>6, <2>7
<1>2. CASE CheckDocker
  <2>1. CASE run' = NoRun
    BY <1>2, <2>1, RunGoneInv DEF CheckDocker, Inv, LoginTypeOK
  <2>2. CASE run' = [run EXCEPT !.pc = "restart"]
    <3>1. /\ run \in Run /\ run.kind = "login" /\ run.pc = "check"
          /\ UNCHANGED <<login, applied, carries, finale, posting>>
      BY <1>2 DEF CheckDocker, Inv, LoginTypeOK
    <3>2. /\ run' \in Run /\ run'.kind = "login" /\ run'.pc = "restart"
          /\ run'.gen = run.gen /\ run'.todo = run.todo /\ run'.accepted = run.accepted
      BY <2>2, <3>1 DEF Run
    <3>3. LoginTypeOK'
      BY <3>1, <3>2 DEF Inv, LoginTypeOK
    <3>4. StaleRunFindsNoneMarked' /\ AcceptedCarry' /\ RestartsAccepted' /\ MarkedCarry'
      BY <3>1, <3>2 DEF Inv, StaleRunFindsNoneMarked, AcceptedCarry, RestartsAccepted,
                        MarkedCarry
    <3> QED BY <3>3, <3>4 DEF Inv
  <2> QED BY <1>2, <2>1, <2>2 DEF CheckDocker
<1>3. CASE RestartApp
  <2>1. CASE run' = NoRun /\ UNCHANGED applied
    BY <1>3, <2>1, RunGoneInv DEF RestartApp, Inv, LoginTypeOK
  <2>2. ASSUME NEW a \in run.todo, RecordApplied({a}, run.gen),
               run' = IF run.todo = {a} THEN NoRun ELSE [run EXCEPT !.todo = @ \ {a}]
        PROVE  Inv'
    <3>1. /\ run \in Run /\ run.gen \in 0 .. login /\ a \in LoginApp
          /\ run.kind = "login" /\ run.pc = "restart"
          /\ UNCHANGED <<login, carries, finale, posting>>
      BY <1>3 DEF RestartApp, Inv, LoginTypeOK, Run, Generation
    <3>2. carries'[a] = run.gen
      BY <3>1 DEF Inv, AcceptedCarry, RestartsAccepted
    <3>3. \A b \in LoginApp : applied[b] = login /\ login # 0 => carries'[b] = login
      BY <3>1 DEF Inv, MarkedCarry
    <3>4. /\ applied' \in [LoginApp -> 0 .. login'] /\ MarkedCarry'
          /\ run.gen # login => applied' = applied
      BY <2>2, <3>1, <3>2, <3>3, RecordKeepsMarks
    <3>5. CASE run.todo = {a}
      <4>1. LoginTypeOK'
        BY <2>2, <3>1, <3>4, <3>5, NoRunIsRun DEF Inv, LoginTypeOK, Generation
      <4>2. StaleRunFindsNoneMarked' /\ AcceptedCarry' /\ RestartsAccepted'
        BY <2>2, <3>5 DEF NoRun, StaleRunFindsNoneMarked, AcceptedCarry, RestartsAccepted
      <4> QED BY <3>4, <4>1, <4>2 DEF Inv
    <3>6. CASE run.todo # {a}
      <4>1. /\ run' \in Run /\ run'.kind = "login" /\ run'.pc = "restart"
            /\ run'.gen = run.gen /\ run'.accepted = run.accepted
            /\ run'.todo \subseteq run.todo
        BY <2>2, <3>1, <3>6 DEF Run
      <4>2. LoginTypeOK'
        BY <3>1, <3>4, <4>1 DEF Inv, LoginTypeOK
      <4>3. StaleRunFindsNoneMarked' /\ AcceptedCarry' /\ RestartsAccepted'
        BY <3>1, <3>4, <4>1 DEF Inv, StaleRunFindsNoneMarked, AcceptedCarry,
                                RestartsAccepted
      <4> QED BY <3>4, <4>2, <4>3 DEF Inv
    <3> QED BY <3>5, <3>6
  <2> QED BY <1>3, <2>1, <2>2 DEF RestartApp
<1> QED BY <1>1, <1>2, <1>3

(* Saving a login makes every app pending. *)
LEMMA SaveForgetsMarks ==
  ASSUME Inv, SaveLogin, UNCHANGED carries
  PROVE  /\ login' \in Generation /\ login <= login' /\ login # login'
         /\ applied' \in [LoginApp -> 0 .. login'] /\ carries' \in [LoginApp -> 0 .. login']
         /\ \A a \in LoginApp : applied'[a] # login'
<1>1. /\ login \in Nat /\ login' = login + 1 /\ login < MaxLogins
      /\ applied' = applied
      /\ applied \in [LoginApp -> 0 .. login] /\ carries \in [LoginApp -> 0 .. login]
  BY DEF Inv, LoginTypeOK, Generation, SaveLogin
<1>2. login' \in Generation /\ login <= login' /\ login # login'
  BY <1>1 DEF Generation
<1>3. /\ applied' \in [LoginApp -> 0 .. login'] /\ carries' \in [LoginApp -> 0 .. login']
      /\ \A a \in LoginApp : applied'[a] # login'
  BY <1>1
<1> QED BY <1>2, <1>3

(* apply_login starts a run with the login it was given, or none. *)
LEMMA ApplyStarts ==
  ASSUME Inv, run = NoRun, NEW gen \in Generation, NEW pending \in SUBSET LoginApp,
         ApplyLogin(gen, pending)
  PROVE  \/ run' = NoRun
         \/ /\ run' \in Run /\ run'.kind = "login" /\ run'.pc = "put"
            /\ run'.gen = gen /\ run'.accepted = {}
  BY DEF ApplyLogin, NoRun, Run, Generation

(* The owner's requests. *)
LEMMA OwnerInv ==
  ASSUME Inv, PostWizardLogin \/ WizardSaves \/ SaveOnHub \/ RetryLogin
  PROVE  Inv'
<1>1. CASE PostWizardLogin
  BY <1>1 DEF PostWizardLogin, Inv, LoginTypeOK, StaleRunFindsNoneMarked, AcceptedCarry,
              RestartsAccepted, MarkedCarry
<1>2. CASE WizardSaves
  <2>1. posting' = FALSE /\ UNCHANGED <<carries, finale, run>>
    BY <1>2 DEF WizardSaves
  <2>2. CASE UNCHANGED <<login, applied>>
    BY <2>1, <2>2 DEF Inv, LoginTypeOK, StaleRunFindsNoneMarked, AcceptedCarry,
                      RestartsAccepted, MarkedCarry
  <2>3. CASE SaveLogin
    <3>1. LoginTypeOK'
      <4>1. run'.gen <= login'
        BY <2>1, <2>3, SaveForgetsMarks DEF Inv, LoginTypeOK, Run, Generation
      <4> QED BY <2>1, <2>3, <4>1, SaveForgetsMarks DEF Inv, LoginTypeOK
    <3>2. StaleRunFindsNoneMarked' /\ AcceptedCarry' /\ RestartsAccepted' /\ MarkedCarry'
      BY <2>1, <2>3, SaveForgetsMarks DEF Inv, StaleRunFindsNoneMarked, AcceptedCarry,
                                          RestartsAccepted, MarkedCarry
    <3> QED BY <3>1, <3>2 DEF Inv
  <2> QED BY <1>2, <2>2, <2>3 DEF WizardSaves
<1>3. CASE SaveOnHub
  <2>1. /\ run = NoRun /\ SaveLogin /\ UNCHANGED <<carries, finale, posting>>
    BY <1>3 DEF SaveOnHub
  <2>2. /\ login' \in Generation /\ \A a \in LoginApp : applied'[a] # login'
        /\ applied' \in [LoginApp -> 0 .. login'] /\ carries' \in [LoginApp -> 0 .. login']
    BY <2>1, SaveForgetsMarks
  <2>3. \/ run' = NoRun
        \/ /\ run' \in Run /\ run'.kind = "login" /\ run'.pc = "put"
           /\ run'.gen = login' /\ run'.accepted = {}
    BY <1>3, <2>1, <2>2, ApplyStarts DEF SaveOnHub
  <2>4. LoginTypeOK'
    BY <2>1, <2>2, <2>3, NoRunIsRun DEF Inv, LoginTypeOK, Generation
  <2>5. StaleRunFindsNoneMarked' /\ AcceptedCarry' /\ RestartsAccepted' /\ MarkedCarry'
    BY <2>2, <2>3 DEF NoRun, StaleRunFindsNoneMarked, AcceptedCarry, RestartsAccepted,
                      MarkedCarry
  <2> QED BY <2>4, <2>5 DEF Inv
<1>4. CASE RetryLogin
  <2>1. /\ run = NoRun /\ login \in Generation /\ Pending \in SUBSET LoginApp
        /\ UNCHANGED <<login, applied, carries, finale, posting>>
    BY <1>4 DEF RetryLogin, Inv, LoginTypeOK, Pending
  <2>2. \/ run' = NoRun
        \/ /\ run' \in Run /\ run'.kind = "login" /\ run'.pc = "put"
           /\ run'.gen = login /\ run'.accepted = {}
    BY <1>4, <2>1, ApplyStarts DEF RetryLogin
  <2>3. LoginTypeOK'
    BY <2>1, <2>2, NoRunIsRun DEF Inv, LoginTypeOK, Generation
  <2>4. StaleRunFindsNoneMarked' /\ AcceptedCarry' /\ RestartsAccepted' /\ MarkedCarry'
    BY <2>1, <2>2 DEF Inv, NoRun, StaleRunFindsNoneMarked, AcceptedCarry,
                      RestartsAccepted, MarkedCarry
  <2> QED BY <2>3, <2>4 DEF Inv
<1> QED BY <1>1, <1>2, <1>3, <1>4

(* The invariant, for any apps and any number of logins. *)
LEMMA Invariance == LoginSpec => []Inv
<1>1. Inv /\ [LoginNext]_loginVars => Inv'
  <2> SUFFICES ASSUME Inv, [LoginNext]_loginVars PROVE Inv'
    OBVIOUS
  <2>1. CASE LoginRestart
    BY <2>1, RunGoneInv DEF LoginRestart, Inv, LoginTypeOK
  <2>2. CASE UNCHANGED loginVars
    BY <2>2 DEF loginVars, Inv, LoginTypeOK, StaleRunFindsNoneMarked, AcceptedCarry,
                RestartsAccepted, MarkedCarry
  <2> QED BY <2>1, <2>2, DeployStepInv, LoginRunStepInv, OwnerInv DEF LoginNext
<1> QED BY <1>1, InitInv, PTL DEF LoginSpec

(* An app the Hub does not name as pending has the saved login, whatever was *)
(* saved while a run was putting an older one on it (login.py:134-154).      *)
THEOREM NobodyIsMarkedInVain == LoginSpec => []MarkedIsCarried
<1>1. Inv => MarkedIsCarried
  BY DEF Inv, MarkedCarry, MarkedIsCarried, Pending
<1> QED BY <1>1, Invariance, PTL

(* A login run restarts an app only after it accepted the run's login        *)
(* (deploy.py:3017-3103).                                                    *)
THEOREM NobodyIsLockedOut == LoginSpec => []OnlyAcceptedAreRestarted
<1>1. Inv => OnlyAcceptedAreRestarted
  BY DEF Inv, AcceptedCarry, RestartsAccepted, OnlyAcceptedAreRestarted
<1> QED BY <1>1, Invariance, PTL
==============================================================================
