----------------------------- MODULE WiringEngine -----------------------------
(***************************************************************************)
(* WiringEngine (wiring/engine.py and the ensure_* steps beside it), with    *)
(* those who start its runs: the deploy, adds, reconnects, and the hook that *)
(* follows a Recyclarr sync and goes to Seerr on its own.                    *)
(*                                                                           *)
(* One step is one HTTP request and what the code does up to the next.  A    *)
(* request is served, refused, not served (no answer, or a 5xx), or served   *)
(* with its answer lost.                                                     *)
(***************************************************************************)
EXTENDS WiringPlan

CONSTANTS
  Installs,     \* what may be installed when the first run begins
  Newcomers,    \* apps that may be added later
  MayBeDown,    \* apps one of which may not answer, at first or for ever
  Attempts,     \* how often a task is applied while it fails for want of an answer
  MaxFaults,    \* bound: requests refused, not served or unanswered, and restarts
  MaxRequests,  \* bound: runs after the first
  MaxEdits,     \* bound: what the owner changes by hand in the apps
  HookBeside    \* FALSE: the hook does not overlap with a run

ASSUME EngineAssumption ==
  /\ Installs \subseteq SUBSET App /\ Newcomers \subseteq App /\ MayBeDown \subseteq App
  /\ Attempts \in Nat \ {0}
  /\ MaxFaults \in Nat /\ MaxRequests \in Nat /\ MaxEdits \in Nat
  /\ HookBeside \in BOOLEAN

VARIABLES
  ids,       \* app_ids of the install the wiring works for
  graphics,  \* the answer to the graphics chip question
  there,     \* the parts that are as Marrquee wants them, in all apps together
  entries,   \* for each link that keeps an entry, the entries in the other app
  visible,   \* media folders the owner's own Plex can see
  down,      \* apps that do not answer
  run,       \* the run: who it is about, its plan, the task it is at, ready_apps
  rows,      \* the latest frame of each step of the run
  call,      \* for the run and the hook, the step being applied
  told,      \* links the finale's detail names as failed
  gaps,      \* wiring_gaps: for each app, the links that failed
  touched,   \* links the owner edited since their task last began
  budget     \* what is left of the bounds

install == <<ids, graphics>>
remote  == <<there, entries>>
world   == <<visible, down>>
report  == <<told, gaps>>
vars    == <<install, remote, world, run, rows, call, report, touched, budget>>

------------------------------------------------------------------------------
(* The values of the variables *)

Actor   == {"run", "hook"}
Finals  == {"done", "skipped", "error"}
Entry   == [points : App \cup {NoApp}, named : BOOLEAN, good : BOOLEAN]
Kinds == {"explain", "app-sync", "downloader-settings", "download-client", "root-folder",
          "libraries", "direct-play", "graphics", "media-server", "seerr"}
AllLinks   == Kinds \X App
EntryLinks == KeepsEntry \X Partner
AllParts   ==
  (Kinds \cup {"movies", "tv", "category", "connection", "enabled", "scan"}) \X App

Reads  == {"identity", "look", "probe", "relist", "confirm", "list", "schema", "test", "sync"}
Writes == {"write", "put", "post", "connect", "enable", "scan"}

(* What the last look told: the parts there, the place of the entry (0: there *)
(* is none), and whether all of it is as wanted.                              *)
Seen   == [had : SUBSET AllParts, at : 0 .. 3, ok : BOOLEAN]
NoSeen == [had |-> {}, at |-> 0, ok |-> TRUE]

(* The task, the request awaited, what was seen, the parts still to see to,  *)
(* the attempt.                                                              *)
CallOK(call1) ==
  /\ Link(call1.task) \in AllLinks
  /\ call1.op \in Reads \cup Writes \cup {"wait", "explain"}
  /\ call1.seen \in Seen
  /\ call1.todo \in Seq(AllParts)
  /\ call1.attempt \in 1 .. Attempts

NoCall == [task |-> Explain(NoApp), op |-> "none", seen |-> NoSeen,
           todo |-> <<>>, attempt |-> 1]

NoOne == [on |-> FALSE, who |-> NoApp, plan |-> <<>>, at |-> 0, ready |-> {}]

(* Every value is one the code's types allow: a step in progress exactly     *)
(* while there is a run, and an attempt within the limit.                    *)
TypeOK ==
  /\ ids \subseteq App /\ graphics \in BOOLEAN
  /\ there \subseteq AllParts
  /\ DOMAIN entries = EntryLinks /\ \A l \in EntryLinks : entries[l] \in Seq(Entry)
  /\ visible \subseteq {"movies", "tv"} /\ down \subseteq App
  /\ run.on => run.at \in 1 .. Len(run.plan) /\ Len(rows) = Len(run.plan)
  /\ run.ready \subseteq App
  /\ rows \in Seq(Finals \cup {"waiting", "running"})
  /\ \A c \in Actor : call[c] = NoCall \/ CallOK(call[c])
  /\ run.on <=> call["run"] # NoCall
  /\ told \subseteq AllLinks /\ gaps \in [App -> SUBSET AllLinks]
  /\ touched \subseteq AllLinks
  /\ budget \in [faults : 0 .. MaxFaults, requests : 0 .. MaxRequests, edits : 0 .. MaxEdits]

------------------------------------------------------------------------------
(* Entries *)

At(t, e) == e.points = Target(t, ids)

(* Mutant: an entry is looked for by where it points only. *)
FindEntryByAddress(t) ==
  LET seq  == entries[Link(t)]
      here == {i \in DOMAIN seq : At(t, seq[i])}
  IN  IF here # {} THEN CHOOSE i \in here : \A j \in here : i <= j ELSE 0

(* _find_application, _find_download_client, _find_seerr_arr_entry: the      *)
(* first that points where it has to, else the first of that name.           *)
FindEntry(t) ==
  LET seq   == entries[Link(t)]
      here  == {i \in DOMAIN seq : At(t, seq[i])}
      named == {i \in DOMAIN seq : seq[i].named}
      pool  == IF here # {} THEN here ELSE named
  IN  IF pool # {} THEN CHOOSE i \in pool : \A j \in pool : i <= j ELSE 0

(* What the step compares before it writes.  For an application entry that   *)
(* is prowlarrUrl and syncLevel: baseUrl is not looked at again.             *)
AsWanted(t, e) == e.good /\ (t.kind = "app-sync" \/ At(t, e))

Has(t, i) == PartsOf(t)[i] \in there

(* The connection a task stands for is there, whatever its step said.  The   *)
(* owner's own Plex is asked only for folders it can see, and Seerr can only *)
(* turn on libraries there are.                                              *)
Right(t) ==
  /\ \A i \in DOMAIN PartsOf(t) :
       \/ Has(t, i)
       \/ t.kind = "libraries" /\ t.of = "existing-plex" /\ PartsOf(t)[i][1] \notin visible
       \/ PartsOf(t)[i][1] = "enabled" /\ there \cap {<<"movies", t.of>>, <<"tv", t.of>>} = {}
  /\ t.kind \in KeepsEntry =>
       \E i \in DOMAIN entries[Link(t)] :
         entries[Link(t)][i].good /\ At(t, entries[Link(t)][i])

------------------------------------------------------------------------------
(* Tasks of a run *)

ToProve(t, ready) ==
  SelectSeq(t.involved, LAMBDA a : a \in Arr /\ a \notin ready)

FirstOp(t) ==
  CASE t.kind = "explain"             -> "explain"
    [] t.kind \in {"app-sync", "seerr"} -> "list"
    [] t.of = "existing-plex" /\ t.kind = "libraries" -> "identity"
    [] OTHER                          -> "look"

CallFor(t, ready) ==
  [NoCall EXCEPT !.task = t, !.op = IF ToProve(t, ready) = <<>> THEN FirstOp(t) ELSE "wait"]

SetCall(c, new) == call' = [call EXCEPT ![c] = new]

FrameOfNone == <<"skipped">>

(* WiringEngine.run up to its first wait.  An empty plan is one skipped      *)
(* frame and the run is over.                                                *)
BeginRun(who, plan) ==
  /\ IF plan = <<>>
       THEN /\ rows' = FrameOfNone
            /\ gaps' = [a \in App |-> IF a = who THEN {} ELSE gaps[a]]
            /\ SetCall("run", NoCall)
            /\ UNCHANGED <<run, touched, told>>
       ELSE /\ run' = [on |-> TRUE, who |-> who, plan |-> plan, at |-> 1, ready |-> {}]
            /\ rows' = [i \in DOMAIN plan |-> IF i = 1 THEN "running" ELSE "waiting"]
            /\ SetCall("run", CallFor(plan[1], {}))
            /\ touched' = touched \ {Link(plan[1])}
            /\ UNCHANGED report

FailedLinks == {Link(run.plan[i]) : i \in {j \in DOMAIN rows' : rows'[j] = "error"}}

(* The finale of a deploy says what failed; a run about one app replaces     *)
(* that app's own gap.                                                       *)
EndRun ==
  /\ run' = NoOne
  /\ SetCall("run", NoCall)
  /\ IF run.who = NoApp
       THEN told' = FailedLinks /\ UNCHANGED gaps
       ELSE gaps' = [gaps EXCEPT ![run.who] = FailedLinks] /\ UNCHANGED told
  /\ UNCHANGED touched

NextTask ==
  IF run.at = Len(run.plan)
    THEN EndRun
    ELSE LET t == run.plan[run.at + 1]
         IN  /\ run' = [run EXCEPT !.at = @ + 1]
             /\ SetCall("run", CallFor(t, run.ready))
             /\ touched' = touched \ {Link(t)}
             /\ UNCHANGED report

(* The last frame of a task and the first of the next go out together.       *)
FinalFrame(verdict) ==
  /\ rows' = [i \in DOMAIN rows |->
                CASE i = run.at     -> verdict
                  [] i = run.at + 1 -> "running"
                  [] OTHER          -> rows[i]]
  /\ NextTask

(* The hook's next arr app; what it has to do it knew when it began.         *)
HookNext(x) ==
  IF x.todo = <<>> THEN NoCall ELSE [NoCall EXCEPT !.task = SeerrArr["radarr"], !.op = "list"]

Conclude(c, verdict) ==
  IF c = "run"
    THEN FinalFrame(verdict)
    ELSE /\ SetCall("hook", HookNext(call[c]))
         /\ UNCHANGED <<run, rows, report, touched>>

GoOn(c, new) == SetCall(c, new) /\ UNCHANGED <<run, rows, report, touched>>

Request(c, op) == GoOn(c, [call[c] EXCEPT !.op = op])

(* Mutant: a task is applied again for as long as it goes unanswered. *)
ApplyAgainForEver(c) ==
  IF c = "run"
    THEN GoOn(c, [NoCall EXCEPT !.task = call[c].task, !.op = FirstOp(call[c].task)])
    ELSE Conclude(c, "error")

(* _apply_with_retry: from its start again; the hook does not retry.         *)
ApplyAgain(c) ==
  IF c = "run" /\ call[c].attempt < Attempts
    THEN GoOn(c, [NoCall EXCEPT !.task = call[c].task, !.op = FirstOp(call[c].task),
                                !.attempt = call[c].attempt + 1])
    ELSE Conclude(c, "error")

------------------------------------------------------------------------------
(* Requests *)

Spend(what) == budget[what] > 0 /\ budget' = [budget EXCEPT ![what] = @ - 1]

Asking(c, op) == call[c].op = op /\ Server(call[c].task, op) \notin down

(* _wait_until_ready; apps that are no arr apps were ready before the run.   *)
ProveReady ==
  LET t   == call["run"].task
      now == run.ready \cup {Head(ToProve(t, run.ready))}
  IN  /\ call["run"].op = "wait"
      /\ Head(ToProve(t, run.ready)) \notin down
      /\ run' = [run EXCEPT !.ready = now]
      /\ SetCall("run", CallFor(t, now))
      /\ UNCHANGED <<install, remote, world, rows, report, touched, budget>>

(* Mutant: an app that does not get ready ends its task without a word. *)
NeverReadySilently ==
  /\ call["run"].op = "wait"
  /\ Head(ToProve(call["run"].task, run.ready)) \in down
  /\ rows' = rows
  /\ NextTask
  /\ UNCHANGED <<install, remote, world, budget>>

(* ready_timeout *)
NeverReady ==
  /\ call["run"].op = "wait"
  /\ Head(ToProve(call["run"].task, run.ready)) \in down
  /\ FinalFrame("error")
  /\ UNCHANGED <<install, remote, world, budget>>

(* Nothing is awaited here, so the code does this with the frame before it.  *)
SayWhyNot ==
  /\ call["run"].op = "explain"
  /\ FinalFrame("skipped")
  /\ UNCHANGED <<install, remote, world, budget>>

Identity(c) ==
  /\ Asking(c, "identity")
  /\ Request(c, "look")
  /\ UNCHANGED remote

(* The parts of a task that are not there, in the order of writing; a task    *)
(* has two at most.                                                          *)
Lacking(t) ==
  LET Lack(i) == OnlyIf(i \in DOMAIN PartsOf(t) /\ ~Has(t, i), PartsOf(t)[i])
  IN  Lack(1) \o Lack(2)

(* The listing, or the settings as they are, and what there is to do.        *)
Look(c) ==
  LET t    == call[c].task
      had  == {PartsOf(t)[i] : i \in {j \in DOMAIN PartsOf(t) : Has(t, j)}}
      lack == Lacking(t)
      new  == [call[c] EXCEPT !.seen = [NoSeen EXCEPT !.had = had], !.todo = lack]
  IN  /\ Asking(c, "look")
      /\ UNCHANGED remote
      /\ CASE t.kind = "libraries" /\ t.of = "existing-plex" ->
                GoOn(c, [new EXCEPT !.op = "probe", !.todo = PartsOf(t)])
           [] t.kind = "media-server" ->
                GoOn(c, [new EXCEPT !.op = IF <<"connection", t.of>> \in had
                                             THEN "sync" ELSE "connect"])
           [] t.kind = "download-client" /\ lack = <<>> -> GoOn(c, [new EXCEPT !.op = "list"])
           [] t.kind # "media-server" /\ t.of # "existing-plex" /\ lack # <<>> ->
                GoOn(c, [new EXCEPT !.op = "write"])
           [] OTHER -> Conclude(c, "done")

(* ensure_existing_plex_libraries: each folder is probed on its own.  What   *)
(* was learnt is saved at the end, after another listing if one was added.   *)
EndOfProbes(c, seen) ==
  IF seen.at > 0 THEN GoOn(c, [call[c] EXCEPT !.op = "relist", !.seen = seen, !.todo = <<>>])
  ELSE Conclude(c, IF seen.ok THEN "done" ELSE "skipped")

NextFolder(c, seen) ==
  IF Len(call[c].todo) = 1 THEN EndOfProbes(c, seen)
  ELSE GoOn(c, [call[c] EXCEPT !.op = "probe", !.seen = seen, !.todo = Tail(@)])

Probe(c) ==
  LET folder == Head(call[c].todo)
  IN  /\ Asking(c, "probe")
      /\ UNCHANGED remote
      /\ CASE folder[1] \notin visible -> NextFolder(c, [call[c].seen EXCEPT !.ok = FALSE])
           [] folder[1] \in visible /\ folder \in call[c].seen.had -> NextFolder(c, call[c].seen)
           [] OTHER -> Request(c, "write")

Relist(c) ==
  /\ Asking(c, "relist")
  /\ Conclude(c, IF call[c].seen.ok THEN "done" ELSE "skipped")
  /\ UNCHANGED remote

(* The read-back, without which a setting that did not take would pass.      *)
Confirm(c) ==
  /\ Asking(c, "confirm")
  /\ Conclude(c, IF Has(call[c].task, 1) THEN "done" ELSE "error")
  /\ UNCHANGED remote

(* Seerr is given its entry's fields to test before they are compared.       *)
List(c) ==
  LET t  == call[c].task
      i  == FindEntry(t)
      ok == i > 0 /\ AsWanted(t, entries[Link(t)][i])
      new == [call[c] EXCEPT !.seen = [NoSeen EXCEPT !.at = i, !.ok = ok]]
  IN  /\ Asking(c, "list")
      /\ UNCHANGED remote
      /\ CASE t.kind = "seerr"            -> GoOn(c, [new EXCEPT !.op = "test"])
           [] t.kind # "seerr" /\ ok      -> Conclude(c, "done")
           [] t.kind # "seerr" /\ ~ok     ->
                GoOn(c, [new EXCEPT !.op = IF i > 0 THEN "put" ELSE "schema"])

Schema(c) ==
  /\ Asking(c, "schema")
  /\ Request(c, "post")
  /\ UNCHANGED remote

(* The test hands back the arr app's root folders; ours must be among them.  *)
Test(c) ==
  LET t == call[c].task
  IN  /\ Asking(c, "test")
      /\ UNCHANGED remote
      /\ CASE <<"root-folder", t.of>> \notin there -> Conclude(c, "error")
           [] <<"root-folder", t.of>> \in there /\ call[c].seen.ok -> Conclude(c, "done")
           [] OTHER -> Request(c, IF call[c].seen.at > 0 THEN "put" ELSE "post")

(* The libraries Seerr can see; a media server with none of ours may have    *)
(* none at all.                                                              *)
Sync(c) ==
  LET m == call[c].task.of
  IN  /\ Asking(c, "sync")
      /\ UNCHANGED remote
      /\ \/ Request(c, "enable")
         \/ /\ there \cap {<<"movies", m>>, <<"tv", m>>} = {}
            /\ Conclude(c, "skipped")

Read(c) ==
  \/ Identity(c) \/ Look(c) \/ Probe(c) \/ Relist(c) \/ Confirm(c)
  \/ List(c) \/ Schema(c) \/ Test(c) \/ Sync(c)

Gone(c) == call[c].op = "put" /\ call[c].seen.at > Len(entries[Link(call[c].task)])

(* What a write does in the other app.  A download client's PUT sends its    *)
(* name along, the others keep the name that is there.                       *)
Effect(c) ==
  LET t    == call[c].task
      op   == call[c].op
      l    == Link(t)
      mine == [points |-> Target(t, ids), named |-> TRUE, good |-> TRUE]
      part == CASE op = "write"   -> {Head(call[c].todo)}
                [] op = "connect" -> {<<"connection", t.of>>}
                [] op = "enable"  -> {<<"enabled", t.of>>}
                [] op = "scan"    -> {<<"scan", "seerr">>}
                [] OTHER          -> {}
  IN  /\ there' = there \cup part
      /\ entries' =
           CASE op = "post" -> [entries EXCEPT ![l] = Append(@, mine)]
             [] op = "put"  ->
                  [entries EXCEPT ![l][call[c].seen.at] =
                     [mine EXCEPT !.named = t.kind = "download-client" \/
                                            entries[l][call[c].seen.at].named]]
             [] OTHER -> entries

(* Mutant: a setting counts as done when its write was accepted. *)
AfterWriteUnconfirmed(c) ==
  LET rest == Tail(call[c].todo)
      t    == call[c].task
  IN  IF t.kind = "download-client" THEN Request(c, "list")
      ELSE IF t.kind = "libraries" /\ t.of = "existing-plex"
        THEN NextFolder(c, [call[c].seen EXCEPT !.at = 1])
      ELSE IF rest # <<>> THEN GoOn(c, [call[c] EXCEPT !.todo = rest])
      ELSE Conclude(c, "done")

AfterWrite(c) ==
  LET rest == Tail(call[c].todo)
      t    == call[c].task
  IN  CASE t.kind = "download-client"           -> Request(c, "list")
        [] t.kind \in {"direct-play", "graphics"} -> Request(c, "confirm")
        [] t.kind = "libraries" /\ t.of = "existing-plex" ->
             NextFolder(c, [call[c].seen EXCEPT !.at = 1])
        [] t.kind = "libraries" /\ t.of # "existing-plex" /\ rest # <<>> ->
             GoOn(c, [call[c] EXCEPT !.todo = rest])
        [] OTHER -> Conclude(c, "done")

Proceed(c) ==
  CASE call[c].op = "write"   -> AfterWrite(c)
    [] call[c].op = "connect" -> Request(c, "sync")
    [] call[c].op = "enable" /\ <<"enabled", call[c].task.of>> \notin call[c].seen.had ->
         Request(c, "scan")
    [] OTHER -> Conclude(c, "done")

Write(c) ==
  /\ call[c].op \in Writes /\ Asking(c, call[c].op)
  /\ ~Gone(c)
  /\ Effect(c)
  /\ Proceed(c)

Requesting(c) == call[c].op \in Reads \cup Writes

(* No answer in time, or a 5xx: an app that is down, or a single request.    *)
Unserved(c) ==
  /\ Requesting(c)
  /\ \/ Server(call[c].task, call[c].op) \in down /\ UNCHANGED budget
     \/ Asking(c, call[c].op) /\ Spend("faults")
  /\ ApplyAgain(c)
  /\ UNCHANGED remote

AnswerLost(c) ==
  /\ call[c].op \in Writes /\ Asking(c, call[c].op)
  /\ ~Gone(c)
  /\ Spend("faults")
  /\ Effect(c)
  /\ ApplyAgain(c)

(* A considered no, which is never retried: a 4xx, an app too old to know    *)
(* the schema, a Plex that is another one, no address or key saved to ask    *)
(* with, a record that cannot be saved.                                      *)
Refused(c) ==
  /\ Requesting(c) /\ Asking(c, call[c].op)
  /\ \/ Spend("faults")
     \/ Gone(c) /\ UNCHANGED budget
  /\ Conclude(c, "error")
  /\ UNCHANGED remote

(* Plex without a Plex Pass: accepted, and without effect. *)
Ignored ==
  /\ Asking("run", "write") /\ call["run"].task.kind \in {"direct-play", "graphics"}
  /\ Spend("faults")
  /\ AfterWrite("run")
  /\ UNCHANGED remote

Step(c) ==
  /\ \/ (Read(c) \/ Write(c)) /\ UNCHANGED budget
     \/ Unserved(c) \/ AnswerLost(c) \/ Refused(c)
     \/ c = "run" /\ Ignored
  /\ UNCHANGED <<install, world>>

RunStep == ProveReady \/ NeverReady \/ SayWhyNot \/ Step("run")

------------------------------------------------------------------------------
(* Who starts a run *)

Deployed == rows # <<>>
Free     == Deployed /\ ~run.on /\ (HookBeside \/ call["hook"] = NoCall)

Init ==
  /\ ids \in Installs /\ graphics \in {FALSE, "jellyfin" \in ids}
  /\ there = {} /\ entries = [l \in EntryLinks |-> <<>>]
  /\ visible \in {{"movies", "tv"}} \cup (IF "existing-plex" \in ids THEN {{"movies"}} ELSE {})
  /\ down \in {{}} \cup {{a} : a \in ids \cap MayBeDown}
  /\ run = NoOne /\ rows = <<>> /\ call = [c \in Actor |-> NoCall]
  /\ told = {} /\ gaps = [a \in App |-> {}] /\ touched = {}
  /\ budget = [faults |-> MaxFaults, requests |-> MaxRequests, edits |-> MaxEdits]

Deploy ==
  /\ ~Deployed /\ ~run.on
  /\ BeginRun(NoApp, PlanWiring(ids, graphics))
  /\ UNCHANGED <<install, remote, world, budget>>

(* _run_wiring_for_add's wire_ids: an add of the VPN wires what it moved.    *)
Wires(a, had) ==
  IF a = Vpn /\ RidersOf(had) # {} THEN CHOOSE r \in RidersOf(had) : TRUE ELSE a

Add(a) ==
  /\ Free /\ a \in Newcomers \ ids /\ ~Unavailable(a, ids)
  /\ Spend("requests")
  /\ \E withoutVpn \in BOOLEAN :
       ids' = ids \cup {a} \cup CompanionsFor(a, ids, withoutVpn)
  /\ BeginRun(Wires(a, ids), PlanAbout(ids', graphics, Wires(a, ids)))
  /\ UNCHANGED <<graphics, remote, world>>

(* Reconnect, and Change VPN for what rides it; Change seeding saves new     *)
(* answers first, and the run reads them.                                    *)
Reconnect(a, newAnswers) ==
  /\ Free /\ a \in ids
  /\ Spend("requests")
  /\ newAnswers => a = "qbittorrent"
  /\ there' = IF newAnswers THEN there \ {<<"downloader-settings", a>>} ELSE there
  /\ BeginRun(a, PlanAbout(ids, graphics, a))
  /\ UNCHANGED <<install, entries, world>>

Disconnect(a) ==
  /\ Free /\ a \in ids \ Managed
  /\ \A b \in ids \ {a} : ~Unavailable(b, ids \ {a})
  /\ Spend("requests")
  /\ ids' = ids \ {a}
  /\ gaps' = [gaps EXCEPT ![a] = {}]
  /\ UNCHANGED <<graphics, remote, world, run, rows, call, told, touched>>

(* A new process resumes the run from its start. *)
Restart ==
  /\ run.on
  /\ Spend("faults")
  /\ run' = [run EXCEPT !.at = 1, !.ready = {}]
  /\ rows' = [i \in DOMAIN rows |-> IF i = 1 THEN "running" ELSE "waiting"]
  /\ call' = [c \in Actor |-> IF c = "run" THEN CallFor(run.plan[1], {}) ELSE NoCall]
  /\ touched' = touched \ {Link(run.plan[1])}
  /\ UNCHANGED <<install, remote, world, report>>

(* refresh_seerr_profiles, after a sync: the install as it is saved by then, *)
(* Sonarr first.                                                             *)
Refresh ==
  /\ Deployed /\ call["hook"] = NoCall
  /\ HookBeside \/ ~run.on
  /\ {"seerr", "recyclarr"} \subseteq ids /\ Partners(ids) # <<>>
  /\ Spend("requests")
  /\ SetCall("hook", [NoCall EXCEPT !.task = SeerrArr[Partners(ids)[1]], !.op = "list",
                                    !.todo = OnlyIf(Partner \subseteq ids, <<"seerr", "radarr">>)])
  /\ UNCHANGED <<install, remote, world, run, rows, report, touched>>

------------------------------------------------------------------------------
(* What goes on around it *)

ComesUp ==
  /\ down # {}
  /\ down' = {}
  /\ UNCHANGED <<install, remote, visible, run, rows, call, report, touched, budget>>

Planned == Tasks(PlanWiring(ids, graphics))

(* The owner changes by hand, in another app, what Marrquee has set up.      *)
EditPart(t, i) ==
  /\ Has(t, i)
  /\ there' = there \ {PartsOf(t)[i]}
  /\ UNCHANGED <<entries, visible>>

(* An entry may be deleted, renamed, pointed elsewhere, or spoilt in a field  *)
(* that the step compares (good).  Fields that are sent but never compared,   *)
(* such as a key that the app masks in its answers, are no part of an entry   *)
(* here.                                                                      *)
EditEntry(t) ==
  LET e == entries[Link(t)][1]
  IN  \E new \in {<<>>, <<[e EXCEPT !.good = FALSE]>>, <<[e EXCEPT !.named = FALSE]>>,
                   <<[e EXCEPT !.points = NoApp]>>} :
        /\ entries' = [entries EXCEPT ![Link(t)] = new]
        /\ UNCHANGED <<there, visible>>

MapFolders(t) ==
  /\ t.kind = "libraries" /\ t.of = "existing-plex"
  /\ visible # {"movies", "tv"} /\ visible' = {"movies", "tv"}
  /\ UNCHANGED remote

Edit(t) ==
  /\ Deployed
  /\ Spend("edits")
  /\ \/ \E i \in DOMAIN PartsOf(t) : EditPart(t, i)
     \/ t.kind \in KeepsEntry /\ Len(entries[Link(t)]) = 1 /\ EditEntry(t)
     \/ MapFolders(t)
  /\ touched' = touched \cup {Link(t)}
  /\ UNCHANGED <<install, down, run, rows, call, report>>

Next ==
  \/ Deploy \/ RunStep \/ Step("hook")
  \/ \E a \in App : Add(a) \/ Disconnect(a)
  \/ \E a \in App, newAnswers \in BOOLEAN : Reconnect(a, newAnswers)
  \/ Restart \/ Refresh \/ ComesUp
  \/ \E t \in Planned : Edit(t)

(* Every request has a time limit, so a run is never left waiting on one;    *)
(* the hook runs on the same loop.                                           *)
Spec == Init /\ [][Next]_vars /\ WF_vars(RunStep) /\ WF_vars(Step("hook"))

------------------------------------------------------------------------------
(* Properties *)

Concluded(verdict) ==
  run.on /\ rows[run.at] = "running" /\ rows'[run.at] = verdict

(* The owner gave the application's entry in Prowlarr another address and    *)
(* left it its name: it is found, and its baseUrl is not compared.           *)
Misdirected(t) ==
  /\ t.kind = "app-sync"
  /\ \E i \in DOMAIN entries[Link(t)] :
       LET e == entries[Link(t)][i] IN e.good /\ e.named /\ e.points = NoApp

(* "Done" in a step's row is true: whatever was refused, lost or retried on  *)
(* the way, the connection is there when the chip turns green.  The one      *)
(* exception is an application's entry that the owner misdirected before the *)
(* step began, for which DoneIsRepaired fails.                               *)
DoneIsThere ==
  [][ Concluded("done") =>
        \A t \in {run.plan[run.at]} :
          Right(t)' \/ Misdirected(t)' \/ Link(t) \in touched ]_vars

(* _find_application's docstring: a hand-edited entry is found and repaired. *)
(* So a step that is done, of a link the owner leaves alone meanwhile, has   *)
(* its connection, with no exception.  The code does not keep this.          *)
DoneIsRepaired ==
  [][ Concluded("done") =>
        \A t \in {run.plan[run.at]} : Right(t)' \/ Link(t) \in touched ]_vars

(* After any sequence of runs, an app of the install is connected as the     *)
(* plan wants it, or the finale or a gap on the Hub names the connection     *)
(* that is not: adds and VPN changes leave none out.  Again but for an       *)
(* application's entry that the owner misdirected.                           *)
NothingIsSilentlyMissing ==
  Deployed /\ ~run.on =>
    \A t \in Planned : \/ Right(t) \/ Misdirected(t)
                       \/ Link(t) \in told \cup touched \cup UNION {gaps[a] : a \in App}

(* A second entry for a link is made only beside one the owner has renamed   *)
(* and that points elsewhere, its old host or where the owner pointed it:    *)
(* retries, restarts, lost answers and a VPN that comes later add none       *)
(* beside an entry that has its name or its address.  Seerr's entries are    *)
(* excepted where the hook may be at them together with a run.               *)
SecondOnlyBesideRenamed ==
  \A l \in EntryLinks :
    \/ HookBeside /\ l[1] = "seerr"
    \/ \A i, j \in DOMAIN entries[l] :
         i < j => ~entries[l][i].named /\ entries[l][i].points # entries[l][j].points

(* The docstrings of _find_download_client and _find_seerr_arr_entry: an     *)
(* entry is found and repaired instead of duplicated, one that still points  *)
(* at its old host too.  The code does not keep this: not for an entry the   *)
(* owner has renamed before a VPN is added, and not for Seerr's while the    *)
(* hook and a run are both at them.                                          *)
OneEntryPerLink == \A l \in EntryLinks : Len(entries[l]) <= 1

(* A run ends, however many apps stay silent. *)
RunEnds == run.on ~> ~run.on

(* What the owner watches is the report WiringReport promises. *)
Report == INSTANCE WiringReport WITH rows <- rows
ReportIsKept == Report!Spec
==============================================================================
