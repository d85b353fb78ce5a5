-------------------------- MODULE WiringEngine_proofs --------------------------
(***************************************************************************)
(* Proofs about the wiring engine: what is shown is the report WiringReport  *)
(* promises, a second entry is made only beside one the owner has renamed,   *)
(* what is reported done is there, and nothing is silently missing.          *)
(***************************************************************************)
EXTENDS WiringEngine, SequenceTheorems, WellFoundedInduction, TLAPS

------------------------------------------------------------------------------
(* The plan is a sequence of steps *)

(* Which step may be about which app. *)
MayBeAbout(kind, of) ==
  \/ kind \in {"app-sync", "download-client", "root-folder", "seerr"} /\ of \in {"sonarr", "radarr"}
  \/ kind \in {"libraries", "media-server"} /\ of \in {"plex", "jellyfin", "existing-plex"}
  \/ kind = "explain" /\ of \in {"prowlarr", "sonarr", "radarr"}
  \/ kind = "direct-play" /\ of = "plex"
  \/ kind = "graphics" /\ of = "jellyfin"
  \/ kind = "downloader-settings" /\ of = "qbittorrent"

WiringTask ==
  {t \in [kind : Kinds, of : WiredApps, involved : Seq(WiredApps), about : SUBSET WiredApps] :
     MayBeAbout(t.kind, t.of)}

(* Task and Explain make steps the plan may hold. *)
LEMMA TaskIsOne ==
  ASSUME NEW kind \in Kinds, NEW of \in WiredApps, NEW involved \in Seq(WiredApps),
         MayBeAbout(kind, of)
  PROVE  Task(kind, of, involved) \in WiringTask
<1> DEFINE t == Task(kind, of, involved)
<1>1. t.about \in SUBSET WiredApps
  BY ElementOfSeq DEF Task
<1> QED
  BY <1>1 DEF Task, WiringTask

(* What is said instead of a step is a step. *)
LEMMA ExplainIsOne ==
  ASSUME NEW of \in {"prowlarr", "sonarr", "radarr"}
  PROVE  Explain(of) \in WiringTask
<1> DEFINE t == Task("explain", of, <<>>)
<1>1. MayBeAbout("explain", of) /\ of \in WiredApps /\ "explain" \in Kinds
  BY DEF MayBeAbout, WiredApps, Kinds
<1>2. <<>> \in Seq(WiredApps)
  OBVIOUS
<1>3. t \in WiringTask
  BY <1>1, <1>2, TaskIsOne
<1>4. t \in [kind : Kinds, of : WiredApps, involved : Seq(WiredApps), about : SUBSET WiredApps]
  BY <1>3 DEF WiringTask
<1> HIDE DEF t
<1>5. /\ [t EXCEPT !.about = {of}]
           \in [kind : Kinds, of : WiredApps, involved : Seq(WiredApps), about : SUBSET WiredApps]
      /\ [t EXCEPT !.about = {of}].kind = t.kind
      /\ [t EXCEPT !.about = {of}].of = t.of
  BY <1>1, <1>4
<1>6. [t EXCEPT !.about = {of}] \in WiringTask
  BY <1>3, <1>5 DEF WiringTask
<1> QED
  BY <1>6 DEF Explain, t

(* A step that is kept is a plan of one. *)
LEMMA KeepIsASequence ==
  ASSUME NEW app, NEW test, NEW t, test => t \in WiringTask
  PROVE  Keep(app, test, t) \in Seq(WiringTask)
BY DEF Keep, OnlyIf

(* What is done for an arr app is a step. *)
LEMMA PartnerTaskIsOne ==
  ASSUME NEW kind \in {"app-sync", "download-client", "root-folder", "seerr"},
         NEW p \in Partner, NEW involved \in Seq(WiredApps)
  PROVE  Task(kind, p, involved) \in WiringTask
<1>1. MayBeAbout(kind, p) /\ kind \in Kinds /\ p \in WiredApps
  BY DEF MayBeAbout, Kinds, WiredApps, Partner
<1> QED
  BY <1>1, TaskIsOne

(* So is each of the things done for every arr app. *)
LEMMA PartnerTasks ==
  /\ Explanation \in [Partner -> WiringTask]
  /\ AppSync \in [Partner -> WiringTask] /\ DownloadClient \in [Partner -> WiringTask]
  /\ RootFolder \in [Partner -> WiringTask] /\ SeerrArr \in [Partner -> WiringTask]
<1>1. \A p \in Partner :
        /\ <<"prowlarr", p>> \in Seq(WiredApps) /\ <<p, "qbittorrent">> \in Seq(WiredApps)
        /\ <<p>> \in Seq(WiredApps) /\ <<"seerr", p>> \in Seq(WiredApps)
  BY DEF WiredApps, Partner
<1>2. \A p \in Partner :
        /\ Task("app-sync", p, <<"prowlarr", p>>) \in WiringTask
        /\ Task("download-client", p, <<p, "qbittorrent">>) \in WiringTask
        /\ Task("root-folder", p, <<p>>) \in WiringTask
        /\ Task("seerr", p, <<"seerr", p>>) \in WiringTask
  BY <1>1, PartnerTaskIsOne
<1>3. \A p \in Partner : Explain(p) \in WiringTask
  BY ExplainIsOne DEF Partner
<1> QED
  BY <1>2, <1>3 DEF Explanation, AppSync, DownloadClient, RootFolder, SeerrArr

(* What is done for every arr app is a plan. *)
LEMMA ForEachIsASequence ==
  ASSUME NEW app, NEW S, NEW task \in [Partner -> WiringTask]
  PROVE  ForEachPartner(app, S, task) \in Seq(WiringTask)
<1>1. task["sonarr"] \in WiringTask /\ task["radarr"] \in WiringTask
  BY DEF Partner
<1> QED
  BY <1>1, KeepIsASequence DEF ForEachPartner

(* Two plans, one after the other, are a plan. *)
LEMMA ConcatIsASequence ==
  /\ <<>> \in Seq(WiringTask)
  /\ \A s, t \in Seq(WiringTask) : s \o t \in Seq(WiringTask)
OBVIOUS

(* What is planned, and in part for one app, is a sequence of steps. *)
LEMMA SectionsAreSequences ==
  ASSUME NEW app, NEW S, NEW g
  PROVE  /\ AppSyncs(app, S) \in Seq(WiringTask) /\ Downloads(app, S) \in Seq(WiringTask)
         /\ RootFolders(app, S) \in Seq(WiringTask) /\ Libraries(app, S, g) \in Seq(WiringTask)
         /\ SeerrTasks(app, S) \in Seq(WiringTask)
<1>1. AppSyncs(app, S) \in Seq(WiringTask)
  <2>1. Keep(app, TRUE, Explain("prowlarr")) \in Seq(WiringTask)
    BY ExplainIsOne, KeepIsASequence
  <2> QED
    BY <2>1, PartnerTasks, ForEachIsASequence DEF AppSyncs
<1>2. Downloads(app, S) \in Seq(WiringTask)
  <2>1. Keep(app, TRUE, Task("downloader-settings", "qbittorrent", <<"qbittorrent">>))
          \in Seq(WiringTask)
    <3>1. MayBeAbout("downloader-settings", "qbittorrent")
      BY DEF MayBeAbout
    <3>2. <<"qbittorrent">> \in Seq(WiredApps) /\ "downloader-settings" \in Kinds
      BY DEF WiredApps, Kinds
    <3>3. "qbittorrent" \in WiredApps
      BY DEF WiredApps
    <3>4. Task("downloader-settings", "qbittorrent", <<"qbittorrent">>) \in WiringTask
      BY <3>1, <3>2, <3>3, TaskIsOne
    <3> QED
      BY <3>4, KeepIsASequence
  <2>2. ForEachPartner(app, S, DownloadClient) \in Seq(WiringTask)
    BY PartnerTasks, ForEachIsASequence
  <2> QED
    BY <2>1, <2>2, ConcatIsASequence DEF Downloads
<1>3. RootFolders(app, S) \in Seq(WiringTask)
  BY PartnerTasks, ForEachIsASequence DEF RootFolders
<1>4. Libraries(app, S, g) \in Seq(WiringTask)
  <2> DEFINE For(kind, m, test) == Keep(app, m \in S /\ test, Task(kind, m, <<m>>))
  <2>1. ASSUME NEW kind \in Kinds, NEW m \in WiredApps, MayBeAbout(kind, m), NEW test
        PROVE  For(kind, m, test) \in Seq(WiringTask)
    <3>1. Task(kind, m, <<m>>) \in WiringTask
      <4>1. <<m>> \in Seq(WiredApps)
        OBVIOUS
      <4> QED
        BY <4>1, <2>1, TaskIsOne
    <3> QED
      BY <3>1, KeepIsASequence
  <2>2. /\ MayBeAbout("libraries", "plex") /\ MayBeAbout("direct-play", "plex")
        /\ MayBeAbout("libraries", "jellyfin") /\ MayBeAbout("graphics", "jellyfin")
        /\ MayBeAbout("libraries", "existing-plex")
    BY DEF MayBeAbout
  <2>3. /\ "plex" \in WiredApps /\ "jellyfin" \in WiredApps /\ "existing-plex" \in WiredApps
        /\ "libraries" \in Kinds /\ "direct-play" \in Kinds /\ "graphics" \in Kinds
    BY DEF WiredApps, Kinds
  <2>4. /\ For("libraries", "plex", TRUE) \in Seq(WiringTask)
        /\ For("direct-play", "plex", TRUE) \in Seq(WiringTask)
        /\ For("libraries", "jellyfin", TRUE) \in Seq(WiringTask)
        /\ For("graphics", "jellyfin", g) \in Seq(WiringTask)
        /\ For("libraries", "existing-plex", TRUE) \in Seq(WiringTask)
    <3> HIDE DEF For
    <3> QED
      BY <2>1, <2>2, <2>3
  <2> QED
    BY <2>4 DEF Libraries
<1>5. SeerrTasks(app, S) \in Seq(WiringTask)
  <2> DEFINE first == MediaServers(S)[1]
  <2>1. MediaServers(S) # <<>> => first \in {"plex", "jellyfin", "existing-plex"}
    BY DEF MediaServers, OnlyIf
  <2>2. MediaServers(S) # <<>> =>
          Keep(app, TRUE, SeerrServer(first)) \in Seq(WiringTask)
    <3> SUFFICES ASSUME NEW m \in {"plex", "jellyfin", "existing-plex"}
                 PROVE  Keep(app, TRUE, SeerrServer(m))
                          \in Seq(WiringTask)
      BY <2>1
    <3>1. MayBeAbout("media-server", m) /\ "media-server" \in Kinds /\ m \in WiredApps
      BY DEF MayBeAbout, Kinds, WiredApps
    <3>2. <<"seerr", m>> \in Seq(WiredApps)
      BY DEF WiredApps
    <3>3. SeerrServer(m) \in WiringTask
      BY <3>1, <3>2, TaskIsOne DEF SeerrServer
    <3> QED
      BY <3>3, KeepIsASequence
  <2>3. ForEachPartner(app, S, SeerrArr) \in Seq(WiringTask)
    BY PartnerTasks, ForEachIsASequence
  <2> QED
    BY <2>2, <2>3, ConcatIsASequence DEF SeerrTasks
<1> QED
  BY <1>1, <1>2, <1>3, <1>4, <1>5

(* The plan is a sequence of steps. *)
LEMMA PlanIsASequence ==
  ASSUME NEW app, NEW S, NEW g
  PROVE  PlanFor(app, S, g) \in Seq(WiringTask)
BY SectionsAreSequences, ConcatIsASequence DEF PlanFor

------------------------------------------------------------------------------
(* What a step of a task comes to: it goes on, or it ends in a verdict *)

GoesOnOrConcludes(c) ==
  \/ \E new : GoOn(c, new)
  \/ \E verdict \in Finals : Conclude(c, verdict)

(* Unanswered, a step is begun again or ends in an error. *)
LEMMA ApplyAgainIsEither ==
  ASSUME NEW c, ApplyAgain(c)
  PROVE  GoesOnOrConcludes(c)
BY DEF ApplyAgain, GoesOnOrConcludes, Finals

(* After a folder, the next one or the end of the step. *)
LEMMA NextFolderIsEither ==
  ASSUME NEW c, NEW seen, NextFolder(c, seen)
  PROVE  GoesOnOrConcludes(c)
BY DEF NextFolder, EndOfProbes, GoesOnOrConcludes, Finals

(* After a write, another request or the end of the step. *)
LEMMA AfterWriteIsEither ==
  ASSUME NEW c, AfterWrite(c)
  PROVE  GoesOnOrConcludes(c)
BY NextFolderIsEither DEF AfterWrite, Request, GoesOnOrConcludes, Finals

(* After a read, another request or the end of the step. *)
LEMMA ReadIsEither ==
  ASSUME NEW c, Read(c)
  PROVE  GoesOnOrConcludes(c)
<1>1. CASE Identity(c)
  BY <1>1 DEF Identity, Request, GoesOnOrConcludes
<1>2. CASE Look(c)
  BY <1>2 DEF Look, GoesOnOrConcludes, Finals
<1>3. CASE Probe(c)
  BY <1>3, NextFolderIsEither DEF Probe, Request, GoesOnOrConcludes
<1>4. CASE Relist(c)
  BY <1>4 DEF Relist, GoesOnOrConcludes, Finals
<1>5. CASE Confirm(c)
  BY <1>5 DEF Confirm, GoesOnOrConcludes, Finals
<1>6. CASE List(c)
  BY <1>6 DEF List, GoesOnOrConcludes, Finals
<1>7. CASE Schema(c)
  BY <1>7 DEF Schema, Request, GoesOnOrConcludes
<1>8. CASE Test(c)
  BY <1>8 DEF Test, Request, GoesOnOrConcludes, Finals
<1>9. CASE Sync(c)
  BY <1>9 DEF Sync, Request, GoesOnOrConcludes, Finals
<1> QED
  BY <1>1, <1>2, <1>3, <1>4, <1>5, <1>6, <1>7, <1>8, <1>9 DEF Read

(* Every request goes on with its step or ends it with a verdict. *)
LEMMA StepIsEither ==
  ASSUME NEW c \in Actor, Step(c)
  PROVE  GoesOnOrConcludes(c) /\ call[c] # NoCall
<1>1. call[c].op \in Reads \cup Writes
  BY DEF Step, Read, Write, Unserved, AnswerLost, Refused, Ignored, Requesting, Asking, Reads, Writes,
         Identity, Look, Probe, Relist, Confirm, List, Schema, Test, Sync
<1>2. call[c] # NoCall
  BY <1>1 DEF NoCall, Reads, Writes
<1>3. CASE Read(c)
  BY <1>2, <1>3, ReadIsEither
<1>4. CASE Write(c)
  BY <1>2, <1>4, AfterWriteIsEither DEF Write, Proceed, Request, GoesOnOrConcludes, Finals
<1>5. CASE Unserved(c) \/ AnswerLost(c)
  BY <1>2, <1>5, ApplyAgainIsEither DEF Unserved, AnswerLost
<1>6. CASE Refused(c)
  BY <1>2, <1>6 DEF Refused, GoesOnOrConcludes, Finals
<1>7. CASE c = "run" /\ Ignored
  BY <1>2, <1>7, AfterWriteIsEither DEF Ignored
<1> QED
  BY <1>3, <1>4, <1>5, <1>6, <1>7 DEF Step

------------------------------------------------------------------------------
(* The report *)

(* While there is a run, its rows are final up to the task it is at, that    *)
(* one is running and the rest wait; without a run they are all final, and   *)
(* no step of one is in progress.                                            *)
RowsTellTheRun ==
  /\ DOMAIN call = Actor
  /\ DOMAIN run = {"on", "who", "plan", "at", "ready"} /\ run.on \in BOOLEAN
  /\ rows \in Seq(Finals \cup {"waiting", "running"})
  /\ ~run.on => call["run"] = NoCall /\ \A i \in DOMAIN rows : rows[i] \in Finals
  /\ run.on =>
       /\ Len(rows) = Len(run.plan) /\ run.at \in 1 .. Len(rows)
       /\ \A i \in 1 .. Len(rows) :
            /\ i < run.at => rows[i] \in Finals
            /\ i = run.at => rows[i] = "running"
            /\ i > run.at => rows[i] = "waiting"

(* The frame that ends a task is the report's verdict. *)
LEMMA FinalFrameIsAVerdict ==
  ASSUME RowsTellTheRun, run.on, NEW v \in Finals, FinalFrame(v)
  PROVE  RowsTellTheRun' /\ Report!Verdict
<1> DEFINE n == Len(rows)
<1>1. /\ n \in Nat /\ DOMAIN rows = 1 .. n /\ n = Len(run.plan)
      /\ run.at \in 1 .. n /\ rows[run.at] = "running"
      /\ \A i \in 1 .. n : (i < run.at => rows[i] \in Finals) /\ (i > run.at => rows[i] = "waiting")
  BY DEF RowsTellTheRun
<1>2. rows' = [i \in 1 .. n |-> CASE i = run.at     -> v
                                  [] i = run.at + 1 -> "running"
                                  [] OTHER          -> rows[i]]
  BY <1>1 DEF FinalFrame
<1>3. Report!Verdict
  BY <1>1, <1>2 DEF Report!Verdict, Report!Finals, Finals
<1>4. rows' \in Seq(Finals \cup {"waiting", "running"}) /\ Len(rows') = n
  <2>1. \A i \in 1 .. n : rows'[i] \in Finals \cup {"waiting", "running"}
    BY <1>1, <1>2 DEF Finals
  <2>2. rows' \in [1 .. n -> Finals \cup {"waiting", "running"}]
    BY <1>2, <2>1
  <2> QED
    BY <1>1, <2>2
<1>5. DOMAIN call' = Actor
  BY DEF FinalFrame, NextTask, EndRun, SetCall, RowsTellTheRun
<1>6. CASE run.at = Len(run.plan)
  <2>1. run' = NoOne /\ call' = [call EXCEPT !["run"] = NoCall]
    BY <1>6 DEF FinalFrame, NextTask, EndRun, SetCall
  <2>2. \A i \in 1 .. n : rows'[i] \in Finals
    BY <1>1, <1>2, <1>6 DEF Finals
  <2> QED
    BY <1>3, <1>4, <1>5, <2>1, <2>2 DEF RowsTellTheRun, NoOne, Actor
<1>7. CASE run.at # Len(run.plan)
  <2>1. run' = [run EXCEPT !.at = @ + 1]
    BY <1>7 DEF FinalFrame, NextTask
  <2>2. /\ run'.on /\ run'.plan = run.plan /\ run'.at = run.at + 1 /\ run'.at \in 1 .. n
        /\ DOMAIN run' = {"on", "who", "plan", "at", "ready"} /\ run'.on \in BOOLEAN
    <3>1. DOMAIN run = {"on", "who", "plan", "at", "ready"} /\ run.on
      BY DEF RowsTellTheRun
    <3>2. DOMAIN run' = DOMAIN run
      BY <2>1
    <3>3. run'.on = run.on /\ run'.plan = run.plan /\ run'.at = run.at + 1
      BY <2>1, <3>1
    <3>4. run.at + 1 \in 1 .. n
      BY <1>1, <1>7
    <3> QED
      BY <3>1, <3>2, <3>3, <3>4
  <2>3. \A i \in 1 .. n : /\ i < run'.at => rows'[i] \in Finals
                          /\ i = run'.at => rows'[i] = "running"
                          /\ i > run'.at => rows'[i] = "waiting"
    BY <1>1, <1>2, <2>2
  <2> QED
    BY <1>1, <1>3, <1>4, <1>5, <2>2, <2>3 DEF RowsTellTheRun
<1> QED
  BY <1>6, <1>7

(* A step of the run, or of the hook, is a verdict or leaves the report. *)
LEMMA StepKeepsTheReport ==
  ASSUME RowsTellTheRun, NEW c \in Actor, Step(c)
  PROVE  RowsTellTheRun' /\ (Report!Verdict \/ rows' = rows)
<1>1. c = "run" => run.on
  BY StepIsEither DEF RowsTellTheRun
<1>2. CASE \E new : GoOn(c, new)
  BY <1>1, <1>2 DEF GoOn, SetCall, RowsTellTheRun, report, Actor
<1>3. ASSUME NEW v \in Finals, Conclude(c, v)
      PROVE  RowsTellTheRun' /\ (Report!Verdict \/ rows' = rows)
  <2>1. CASE c = "run"
    BY <1>1, <1>3, <2>1, FinalFrameIsAVerdict DEF Conclude
  <2>2. CASE c # "run"
    BY <1>3, <2>2 DEF Conclude, SetCall, RowsTellTheRun, Actor
  <2> QED
    BY <2>1, <2>2
<1> QED
  BY <1>2, <1>3, StepIsEither DEF GoesOnOrConcludes

(* A run that starts begins a report. *)
LEMMA BeginRunBeginsAReport ==
  ASSUME RowsTellTheRun, ~run.on, NEW who, NEW plan \in Seq(WiringTask), BeginRun(who, plan)
  PROVE  RowsTellTheRun' /\ Report!Begin
<1>1. Report!Ended
  BY DEF RowsTellTheRun, Report!Ended, Report!Finals, Finals
<1>2. CASE plan = <<>>
  <2>1. rows' = <<"skipped">> /\ call' = [call EXCEPT !["run"] = NoCall] /\ run' = run
    BY <1>2 DEF BeginRun, FrameOfNone, SetCall
  <2>2. rows' \in Seq(Finals \cup {"waiting", "running"}) /\ \A i \in DOMAIN rows' : rows'[i] \in Finals
    BY <2>1 DEF Finals
  <2> QED
    BY <1>1, <2>1, <2>2 DEF RowsTellTheRun, Report!Begin, Actor
<1>3. CASE plan # <<>>
  <2> DEFINE n == Len(plan)
  <2>1. n \in Nat /\ n > 0 /\ DOMAIN plan = 1 .. n
    BY <1>3
  <2>2. /\ rows' = [i \in 1 .. n |-> IF i = 1 THEN "running" ELSE "waiting"]
        /\ run' = [on |-> TRUE, who |-> who, plan |-> plan, at |-> 1, ready |-> {}]
        /\ DOMAIN call' = DOMAIN call
    BY <1>3, <2>1 DEF BeginRun, SetCall
  <2>3. rows' \in Seq(Finals \cup {"waiting", "running"}) /\ Len(rows') = n
    <3>1. rows' \in [1 .. n -> Finals \cup {"waiting", "running"}]
      BY <2>2
    <3> QED
      BY <2>1, <3>1
  <2>4. Report!Begin
    BY <1>1, <2>1, <2>2, <2>3 DEF Report!Begin, Report!Fresh
  <2> QED
    BY <2>1, <2>2, <2>3, <2>4 DEF RowsTellTheRun
<1> QED
  BY <1>2, <1>3

(* The rows are what the run has come to, after every step, and the step is  *)
(* one WiringReport allows.                                                  *)
LEMMA NextKeepsTheReport ==
  ASSUME RowsTellTheRun, [Next]_vars
  PROVE  RowsTellTheRun' /\ [Report!Next]_rows
<1> USE DEF Report!Next
<1>1. CASE Deploy
  BY <1>1, BeginRunBeginsAReport, PlanIsASequence DEF Deploy, PlanWiring
<1>2. CASE ProveReady
  <2> DEFINE now == run.ready \cup {Head(ToProve(call["run"].task, run.ready))}
  <2>1. call["run"] # NoCall
    BY <1>2 DEF ProveReady, NoCall
  <2>2. run.on
    BY <2>1 DEF RowsTellTheRun
  <2>3. /\ run' = [run EXCEPT !.ready = now] /\ rows' = rows
        /\ call' = [call EXCEPT !["run"] = CallFor(call["run"].task, now)]
    BY <1>2 DEF ProveReady, SetCall
  <2>4. DOMAIN run' = DOMAIN run /\ DOMAIN call' = DOMAIN call
    BY <2>3
  <2>5. run'.on = run.on /\ run'.plan = run.plan /\ run'.at = run.at
    <3> HIDE DEF now
    <3> QED
      BY <2>3 DEF RowsTellTheRun
  <2> QED
    BY <2>2, <2>3, <2>4, <2>5 DEF RowsTellTheRun
<1>3. CASE NeverReady \/ SayWhyNot
  <2>1. call["run"] # NoCall
    BY <1>3 DEF NeverReady, SayWhyNot, NoCall
  <2>2. run.on
    BY <2>1 DEF RowsTellTheRun
  <2> QED
    BY <1>3, <2>2, FinalFrameIsAVerdict DEF NeverReady, SayWhyNot, Finals
<1>4. CASE Step("run") \/ Step("hook")
  BY <1>4, StepKeepsTheReport DEF Actor
<1>5. ASSUME NEW a \in App, Add(a)
      PROVE  RowsTellTheRun' /\ Report!Begin
  <2> DEFINE w == Wires(a, ids)
  <2>1. ~run.on /\ BeginRun(w, PlanAbout(ids', graphics, w))
    BY <1>5 DEF Add, Free
  <2>2. PlanAbout(ids', graphics, w) \in Seq(WiringTask)
    BY PlanIsASequence DEF PlanAbout
  <2> HIDE DEF w
  <2> QED
    BY <2>1, <2>2, BeginRunBeginsAReport
<1>6. ASSUME NEW a \in App, Disconnect(a)
      PROVE  RowsTellTheRun' /\ rows' = rows
  BY <1>6 DEF Disconnect, RowsTellTheRun
<1>7. ASSUME NEW a \in App, NEW newAnswers \in BOOLEAN, Reconnect(a, newAnswers)
      PROVE  RowsTellTheRun' /\ Report!Begin
  <2>1. ~run.on /\ BeginRun(a, PlanAbout(ids, graphics, a))
    BY <1>7 DEF Reconnect, Free
  <2>2. PlanAbout(ids, graphics, a) \in Seq(WiringTask)
    BY PlanIsASequence DEF PlanAbout
  <2> QED
    BY <2>1, <2>2, BeginRunBeginsAReport
<1>8. CASE Restart
  <2>1. /\ run.on /\ Len(rows) \in Nat /\ DOMAIN rows = 1 .. Len(rows)
        /\ run.at \in 1 .. Len(rows) /\ rows[run.at] = "running"
    BY <1>8 DEF Restart, RowsTellTheRun
  <2>2. /\ run' = [run EXCEPT !.at = 1, !.ready = {}]
        /\ rows' = [i \in 1 .. Len(rows) |-> IF i = 1 THEN "running" ELSE "waiting"]
        /\ DOMAIN call' = Actor
    BY <1>8, <2>1 DEF Restart
  <2>3. ~Report!Ended
    BY <2>1 DEF Report!Ended, Report!Finals
  <2>4. rows' \in Seq(Finals \cup {"waiting", "running"}) /\ Len(rows') = Len(rows)
    <3>1. rows' \in [1 .. Len(rows) -> Finals \cup {"waiting", "running"}]
      BY <2>2
    <3> QED
      BY <2>1, <3>1
  <2>5. DOMAIN run' = DOMAIN run
    BY <2>2
  <2>6. run'.on = run.on /\ run'.plan = run.plan /\ run'.at = 1
    BY <2>2 DEF RowsTellTheRun
  <2>7. RowsTellTheRun'
    <3>1. \A i \in 1 .. Len(rows') : /\ i < run'.at => rows'[i] \in Finals
                                     /\ i = run'.at => rows'[i] = "running"
                                     /\ i > run'.at => rows'[i] = "waiting"
      BY <2>1, <2>2, <2>4, <2>6
    <3>2. Len(rows') = Len(run'.plan) /\ run'.at \in 1 .. Len(rows') /\ run'.on
      BY <2>1, <2>4, <2>6 DEF RowsTellTheRun
    <3>3. DOMAIN run' = {"on", "who", "plan", "at", "ready"} /\ run'.on \in BOOLEAN
      BY <2>5, <2>6 DEF RowsTellTheRun
    <3> QED
      BY <2>2, <2>4, <3>1, <3>2, <3>3 DEF RowsTellTheRun
  <2> QED
    BY <2>2, <2>3, <2>7 DEF Report!StartOver, Report!Fresh
<1>9. CASE Refresh
  BY <1>9 DEF Refresh, SetCall, RowsTellTheRun, Actor
<1>10. CASE ComesUp \/ \E t \in Planned : Edit(t)
  BY <1>10 DEF ComesUp, Edit, RowsTellTheRun
<1>11. CASE UNCHANGED vars
  BY <1>11 DEF vars, RowsTellTheRun
<1> QED
  BY <1>1, <1>2, <1>3, <1>4, <1>5, <1>6, <1>7, <1>8, <1>9, <1>10, <1>11 DEF Next, RunStep

(* What the owner watches is the report WiringReport promises, whatever is   *)
(* installed, edited, refused or restarted: every step of the plan is shown, *)
(* one runs at a time and in order, and each gets one verdict that stands.   *)
(* That every report comes to its end is fairness's, and stays with TLC.     *)
THEOREM ReportIsTheSafeOne == Spec => Report!Safety
<1>1. Init => RowsTellTheRun /\ Report!Init
  BY DEF Init, RowsTellTheRun, Report!Init, NoOne, NoCall, Actor, Finals
<1>2. RowsTellTheRun /\ [Next]_vars => RowsTellTheRun' /\ [Report!Next]_rows
  BY NextKeepsTheReport
<1> QED
  BY <1>1, <1>2, PTL DEF Spec, Report!Safety

------------------------------------------------------------------------------
(* Which entries a link may have *)

(* Where the hook and a run may be at the same entries. *)
Shared(l) == HookBeside /\ l[1] = "seerr"

(* Else the run and the hook take turns, and the hook follows a run. *)
OneAtATime ==
  ~HookBeside => /\ run.on => call["hook"] = NoCall
                 /\ rows = <<>> => call["hook"] = NoCall

(* The hook sees to Seerr's entries and to nothing else. *)
HookKeepsToEntries ==
  /\ call["hook"].op \in {"none", "list", "schema", "test", "put", "post"}
  /\ call["hook"].task.kind \in {"explain", "seerr"}

(* Where the entry of a link has to point. *)
TargetOf(l) == Target([kind |-> l[1], of |-> l[2]], ids)

(* There are two entries only where the owner spoilt the first: it has       *)
(* neither the name nor the address, and the second has the name.  No        *)
(* download client points to a VPN that is not there yet.  Of shared entries *)
(* nothing is said.                                                          *)
EntriesAreSound(l) ==
  LET seq == entries[l]
  IN  /\ seq \in Seq(Entry)
      /\ ~Shared(l) =>
           /\ Len(seq) <= 2
           /\ Len(seq) = 2 =>
                /\ ~seq[1].named /\ seq[2].named
                /\ seq[1].points # TargetOf(l) /\ seq[1].points # seq[2].points
           /\ l[1] = "download-client" /\ Vpn \notin ids =>
                \A i \in 1 .. Len(seq) : seq[i].points # Vpn

Unfound(l) ==
  \A i \in 1 .. Len(entries[l]) :
    ~entries[l][i].named /\ entries[l][i].points # TargetOf(l)

(* What the last look said of the entry still holds when it is written,      *)
(* unless the entry is shared.                                               *)
LooksAreSound(x) ==
  LET l == Link(x.task)
  IN  l \in EntryLinks =>
        /\ x.op \in {"put", "test"} => x.seen.at \in Nat
        /\ x.op = "put" => x.seen.at # 0
        /\ ~Shared(l) =>
             /\ x.op \in {"schema", "post"} => Unfound(l)
             /\ x.op = "put" => (Len(entries[l]) = 2 => x.seen.at = 2)
             /\ x.op = "test" =>
                  /\ x.seen.at = 0 => Unfound(l)
                  /\ x.seen.at # 0 => (Len(entries[l]) = 2 => x.seen.at = 2)

CallShape(x) ==
  DOMAIN x = {"task", "op", "seen", "todo", "attempt"} /\ DOMAIN x.seen = {"had", "at", "ok"}

LinksAreSound ==
  /\ OneAtATime /\ HookKeepsToEntries
  /\ entries \in [EntryLinks -> Seq(Entry)]
  /\ \A l \in EntryLinks : EntriesAreSound(l)
  /\ \A c \in Actor : CallShape(call[c]) /\ LooksAreSound(call[c])

(* Where an entry has to point is told from its link. *)
LEMMA TargetIsTargetOf ==
  ASSUME NEW t
  PROVE  Target(t, ids) = TargetOf(Link(t))
BY DEF Target, TargetOf, Link

(* Where an entry has to point is an app: nothing points nowhere. *)
LEMMA TargetIsAnApp ==
  ASSUME NEW l \in EntryLinks
  PROVE  /\ TargetOf(l) \in App /\ TargetOf(l) # NoApp
         /\ l[1] = "download-client" /\ Vpn \notin ids => TargetOf(l) # Vpn
<1>1. l[2] \in App /\ "qbittorrent" \in App /\ Vpn \in App /\ "qbittorrent" # Vpn
  BY WiringAssumption, CatalogAssumption DEF EntryLinks, Partner, WiredApps
<1> QED
  BY <1>1, CatalogAssumption DEF TargetOf, Target

(* A set of places that is not empty has a first one. *)
LEMMA FirstPlace ==
  ASSUME NEW n \in Nat, NEW pool, pool \subseteq 1 .. n, pool # {}
  PROVE  \E i \in pool : \A j \in pool : i <= j
<1> DEFINE R == {ss \in Nat \X Nat : ss[1] < ss[2]}
<1>1. \A x, y \in Nat : <<x, y>> \in R <=> x < y
  OBVIOUS
<1>2. IsWellFoundedOn(R, Nat)
  BY NatLessThanWellFounded DEF OpToRel
<1> HIDE DEF R
<1>3. pool \subseteq Nat
  OBVIOUS
<1>4. PICK i \in pool : \A j \in pool : ~(<<j, i>> \in R)
  BY <1>2, <1>3, WFMin, Zenon
<1>5. ASSUME NEW j \in pool PROVE i <= j
  <2>1. i \in Nat /\ j \in Nat
    BY <1>3
  <2>2. ~(j < i)
    BY <1>1, <1>4, <2>1
  <2> QED
    BY <2>1, <2>2
<1> QED
  BY <1>5

(* The entry found is the one of the address, or else of the name; of two    *)
(* it is the second.                                                         *)
LEMMA FindEntryFinds ==
  ASSUME NEW t, Link(t) \in EntryLinks, EntriesAreSound(Link(t))
  PROVE  LET l == Link(t)  i == FindEntry(t)
         IN  /\ i \in 0 .. Len(entries[l])
             /\ i # 0 => entries[l][i].points = TargetOf(l) \/ entries[l][i].named
             /\ i = 0 => Unfound(l)
             /\ ~Shared(l) /\ Len(entries[l]) = 2 => i = 2
<1> DEFINE l     == Link(t)
           seq   == entries[l]
           here  == {i \in DOMAIN seq : At(t, seq[i])}
           named == {i \in DOMAIN seq : seq[i].named}
           pool  == IF here # {} THEN here ELSE named
<1>1. seq \in Seq(Entry) /\ Len(seq) \in Nat /\ DOMAIN seq = 1 .. Len(seq)
  <2>1. seq \in Seq(Entry)
    BY Zenon DEF EntriesAreSound
  <2> HIDE DEF seq
  <2> QED
    BY <2>1, LenProperties
<1>2. \A i \in DOMAIN seq : At(t, seq[i]) <=> seq[i].points = TargetOf(l)
  BY TargetIsTargetOf DEF At
<1>3. pool \subseteq 1 .. Len(seq) /\ \A i \in pool : seq[i].points = TargetOf(l) \/ seq[i].named
  BY <1>1, <1>2
<1>4. pool = {} => Unfound(l)
  BY <1>1, <1>2 DEF Unfound
<1>5. ~Shared(l) /\ Len(seq) = 2 => pool = {2}
  <2> SUFFICES ASSUME ~Shared(l), Len(seq) = 2 PROVE pool = {2}
    OBVIOUS
  <2>1. ~seq[1].named /\ seq[2].named /\ seq[1].points # TargetOf(l)
    BY Zenon DEF EntriesAreSound
  <2>2. DOMAIN seq = {1, 2}
    BY <1>1
  <2>3. 1 \notin here /\ 1 \notin named /\ 2 \in named
    BY <1>2, <2>1, <2>2
  <2> QED
    BY <2>2, <2>3
<1>6. FindEntry(t) = IF pool # {} THEN CHOOSE i \in pool : \A j \in pool : i <= j ELSE 0
  BY DEF FindEntry
<1> HIDE DEF pool, seq
<1>7. ASSUME pool # {} PROVE \E i \in pool : \A j \in pool : i <= j
  BY <1>1, <1>3, <1>7, FirstPlace
<1> DEFINE first == CHOOSE i \in pool : \A j \in pool : i <= j
<1>8. pool # {} => first \in pool
  BY <1>7
<1> HIDE DEF first
<1>9. FindEntry(t) = IF pool # {} THEN first ELSE 0
  BY <1>6 DEF first
<1>10. /\ FindEntry(t) \in 0 .. Len(seq) /\ (FindEntry(t) = 0 => pool = {})
       /\ FindEntry(t) # 0 => seq[FindEntry(t)].points = TargetOf(l) \/ seq[FindEntry(t)].named
  <2>1. CASE pool # {}
    <3>1. FindEntry(t) \in pool
      BY <1>8, <1>9, <2>1
    <3>2. FindEntry(t) \in 1 .. Len(seq)
      BY <1>3, <3>1
    <3> QED
      BY <1>1, <1>3, <2>1, <3>1, <3>2
  <2>2. CASE pool = {}
    BY <1>1, <1>9, <2>2
  <2> QED
    BY <2>1, <2>2
<1>11. ~Shared(l) /\ Len(seq) = 2 => FindEntry(t) = 2
  BY <1>5, <1>8, <1>9
<1> QED
  BY <1>4, <1>10, <1>11 DEF seq

------------------------------------------------------------------------------
(* What the record of a step carries on *)

(* Nothing learnt of an entry is used by these requests. *)
Fresh(x) == CallShape(x) /\ x.op \notin {"schema", "post", "put", "test"}

(* A look that is not relied on is sound. *)
LEMMA FreshIsSound ==
  ASSUME NEW x, Fresh(x)
  PROVE  CallShape(x) /\ LooksAreSound(x)
BY DEF Fresh, LooksAreSound

(* When nothing is in progress nothing is relied on. *)
LEMMA NoCallIsFresh == Fresh(NoCall)
BY DEF Fresh, CallShape, NoCall, NoSeen

(* A step begins with nothing relied on. *)
LEMMA CallForIsFresh ==
  ASSUME NEW t, NEW ready
  PROVE  Fresh(CallFor(t, ready))
<1>1. FirstOp(t) \in {"explain", "list", "identity", "look"}
  BY DEF FirstOp
<1> DEFINE op == IF ToProve(t, ready) = <<>> THEN FirstOp(t) ELSE "wait"
<1>2. op \in {"explain", "list", "identity", "look", "wait"}
  BY <1>1
<1>3. CallFor(t, ready) = [NoCall EXCEPT !.task = t, !.op = op]
  BY DEF CallFor
<1> HIDE DEF op
<1> QED
  BY <1>2, <1>3 DEF Fresh, CallShape, NoCall, NoSeen

(* Going on replaces the step of one actor. *)
LEMMA GoOnTo ==
  ASSUME DOMAIN call = Actor, NEW c \in Actor, NEW new, GoOn(c, new)
  PROVE  call'[c] = new
BY DEF GoOn, SetCall

(* A field that is replaced leaves the others. *)
LEMMA OpField ==
  ASSUME NEW x, CallShape(x), NEW op, NEW y, y = [x EXCEPT !.op = op]
  PROVE  CallShape(y) /\ y.op = op /\ y.task = x.task /\ y.seen = x.seen
BY DEF CallShape

(* A replaced field of a step is the one that was put there: what is to do. *)
LEMMA TodoField ==
  ASSUME NEW x, CallShape(x), NEW todo, NEW y, y = [x EXCEPT !.todo = todo]
  PROVE  CallShape(y) /\ y.op = x.op /\ y.task = x.task /\ y.seen = x.seen
BY DEF CallShape

(* The same, of what was seen. *)
LEMMA SeenField ==
  ASSUME NEW x, CallShape(x), NEW seen, DOMAIN seen = {"had", "at", "ok"},
         NEW y, y = [x EXCEPT !.seen = seen]
  PROVE  CallShape(y) /\ y.op = x.op /\ y.task = x.task /\ y.seen = seen
BY DEF CallShape

(* What was seen keeps its fields. *)
LEMMA SeenFields ==
  /\ \A had : DOMAIN [NoSeen EXCEPT !.had = had] = {"had", "at", "ok"}
  /\ \A at, ok : DOMAIN [NoSeen EXCEPT !.at = at, !.ok = ok] = {"had", "at", "ok"}
                 /\ [NoSeen EXCEPT !.at = at, !.ok = ok].at = at
BY DEF NoSeen

(* A request that is not for an entry relies on no look. *)
LEMMA RequestIsFresh ==
  ASSUME DOMAIN call = Actor, NEW c \in Actor, CallShape(call[c]),
         NEW op \in {"look", "write", "list", "confirm", "sync", "enable", "scan"}, Request(c, op)
  PROVE  Fresh(call'[c])
<1>1. call'[c] = [call[c] EXCEPT !.op = op]
  BY GoOnTo DEF Request
<1> QED
  BY <1>1, OpField DEF Fresh

(* A step that ends leaves nothing relied on. *)
LEMMA ConcludeIsFresh ==
  ASSUME DOMAIN call = Actor, NEW c \in Actor, NEW v, Conclude(c, v)
  PROVE  Fresh(call'[c])
<1>1. CASE c = "run"
  <2>1. \/ call' = [call EXCEPT !["run"] = NoCall]
        \/ \E t : call' = [call EXCEPT !["run"] = CallFor(t, run.ready)]
    BY <1>1 DEF Conclude, FinalFrame, NextTask, EndRun, SetCall
  <2> QED
    BY <1>1, <2>1, NoCallIsFresh, CallForIsFresh
<1>2. CASE c # "run"
  <2>1. c = "hook"
    BY <1>2 DEF Actor
  <2>2. call' = [call EXCEPT !["hook"] = HookNext(call[c])]
    BY <1>2 DEF Conclude, SetCall
  <2>3. Fresh(HookNext(call[c]))
    BY NoCallIsFresh DEF HookNext, Fresh, CallShape, NoCall, NoSeen
  <2> QED
    BY <2>1, <2>2, <2>3
<1> QED
  BY <1>1, <1>2

(* Nor does going from folder to folder. *)
LEMMA NextFolderIsFresh ==
  ASSUME DOMAIN call = Actor, NEW c \in Actor, CallShape(call[c]),
         NEW seen, DOMAIN seen = {"had", "at", "ok"}, NextFolder(c, seen)
  PROVE  Fresh(call'[c])
<1>1. CASE \E v : Conclude(c, v)
  BY <1>1, ConcludeIsFresh
<1>2. CASE GoOn(c, [call[c] EXCEPT !.op = "relist", !.seen = seen, !.todo = <<>>])
  <2>1. PICK x : x = [call[c] EXCEPT !.op = "relist"]
    OBVIOUS
  <2>2. PICK y : y = [x EXCEPT !.seen = seen]
    OBVIOUS
  <2>3. call'[c] = [y EXCEPT !.todo = <<>>]
    BY <1>2, <2>1, <2>2, GoOnTo
  <2>4. CallShape(x) /\ x.op = "relist"
    BY <2>1, OpField
  <2>5. CallShape(y) /\ y.op = "relist"
    BY <2>2, <2>4, SeenField
  <2>6. CallShape(call'[c]) /\ call'[c].op = "relist"
    BY <2>3, <2>5, TodoField
  <2> QED
    BY <2>6 DEF Fresh
<1>3. CASE GoOn(c, [call[c] EXCEPT !.op = "probe", !.seen = seen, !.todo = Tail(@)])
  <2>1. PICK x : x = [call[c] EXCEPT !.op = "probe"]
    OBVIOUS
  <2>2. PICK y : y = [x EXCEPT !.seen = seen]
    OBVIOUS
  <2>3. call'[c] = [y EXCEPT !.todo = Tail(call[c].todo)]
    BY <1>3, <2>1, <2>2, GoOnTo
  <2>4. CallShape(x) /\ x.op = "probe"
    BY <2>1, OpField
  <2>5. CallShape(y) /\ y.op = "probe"
    BY <2>2, <2>4, SeenField
  <2>6. CallShape(call'[c]) /\ call'[c].op = "probe"
    BY <2>3, <2>5, TodoField
  <2> QED
    BY <2>6 DEF Fresh
<1> QED
  BY <1>1, <1>2, <1>3 DEF NextFolder, EndOfProbes

(* Nor does beginning a step again. *)
LEMMA ApplyAgainIsFresh ==
  ASSUME DOMAIN call = Actor, NEW c \in Actor, ApplyAgain(c)
  PROVE  Fresh(call'[c])
<1>1. CASE \E v : Conclude(c, v)
  BY <1>1, ConcludeIsFresh
<1>2. CASE GoOn(c, [NoCall EXCEPT !.task = call[c].task, !.op = FirstOp(call[c].task),
                                  !.attempt = call[c].attempt + 1])
  <2>1. FirstOp(call[c].task) \in {"explain", "list", "identity", "look"}
    BY DEF FirstOp
  <2>2. call'[c] = [NoCall EXCEPT !.task = call[c].task, !.op = FirstOp(call[c].task),
                                  !.attempt = call[c].attempt + 1]
    BY <1>2, GoOnTo
  <2> QED
    BY <2>1, <2>2 DEF Fresh, CallShape, NoCall, NoSeen
<1> QED
  BY <1>1, <1>2 DEF ApplyAgain

(* Nor does what follows a write. *)
LEMMA AfterWriteIsFresh ==
  ASSUME DOMAIN call = Actor, NEW c \in Actor, CallShape(call[c]), call[c].op = "write",
         AfterWrite(c)
  PROVE  Fresh(call'[c])
<1>1. CASE \E v : Conclude(c, v)
  BY <1>1, ConcludeIsFresh
<1>2. CASE Request(c, "list") \/ Request(c, "confirm")
  BY <1>2, RequestIsFresh
<1>3. CASE NextFolder(c, [call[c].seen EXCEPT !.at = 1])
  BY <1>3, NextFolderIsFresh DEF CallShape
<1>4. CASE GoOn(c, [call[c] EXCEPT !.todo = Tail(call[c].todo)])
  <2>1. call'[c] = [call[c] EXCEPT !.todo = Tail(call[c].todo)]
    BY <1>4, GoOnTo
  <2>2. CallShape(call'[c]) /\ call'[c].op = "write"
    BY <2>1, TodoField
  <2> QED
    BY <2>2 DEF Fresh
<1> QED
  BY <1>1, <1>2, <1>3, <1>4 DEF AfterWrite

(* What a look learns, it learns of the entries as they are.                 *)
LEMMA ReadLearns ==
  ASSUME LinksAreSound, DOMAIN call = Actor, NEW c \in Actor, Read(c)
  PROVE  CallShape(call'[c]) /\ LooksAreSound(call'[c])
<1> DEFINE t == call[c].task
           l == Link(t)
<1>1. CallShape(call[c]) /\ LooksAreSound(call[c])
  BY DEF LinksAreSound
<1>2. SUFFICES Fresh(call'[c]) \/ (CallShape(call'[c]) /\ LooksAreSound(call'[c]))
  BY FreshIsSound
<1>3. ASSUME NEW v, Conclude(c, v) PROVE Fresh(call'[c])
  BY <1>3, ConcludeIsFresh
<1>4. CASE Identity(c)
  BY <1>1, <1>4, RequestIsFresh DEF Identity
<1>5. CASE Look(c)
  <2> DEFINE had  == {PartsOf(t)[i] : i \in {j \in DOMAIN PartsOf(t) : Has(t, j)}}
             lack == Lacking(t)
             new  == [call[c] EXCEPT !.seen = [NoSeen EXCEPT !.had = had], !.todo = lack]
  <2>1. \/ GoOn(c, [new EXCEPT !.op = "probe", !.todo = PartsOf(t)])
        \/ \E op \in {"sync", "connect", "list", "write"} : GoOn(c, [new EXCEPT !.op = op])
        \/ \E v : Conclude(c, v)
    BY <1>5, Zenon DEF Look
  <2> HIDE DEF had, lack
  <2>2. DOMAIN [NoSeen EXCEPT !.had = had] = {"had", "at", "ok"}
    BY SeenFields
  <2>3. CallShape(new)
    <3>1. PICK x : x = [call[c] EXCEPT !.seen = [NoSeen EXCEPT !.had = had]]
      OBVIOUS
    <3>2. CallShape(x)
      BY <1>1, <2>2, <3>1, SeenField
    <3>3. new = [x EXCEPT !.todo = lack]
      BY <3>1
    <3> HIDE DEF new
    <3> QED
      BY <3>2, <3>3, TodoField
  <2> HIDE DEF new
  <2>4. CASE GoOn(c, [new EXCEPT !.op = "probe", !.todo = PartsOf(t)])
    <3>1. call'[c] = [new EXCEPT !.op = "probe", !.todo = PartsOf(t)]
      BY <2>4, GoOnTo
    <3>2. PICK y : y = [new EXCEPT !.op = "probe"]
      OBVIOUS
    <3>3. CallShape(y) /\ y.op = "probe"
      BY <2>3, <3>2, OpField
    <3>4. call'[c] = [y EXCEPT !.todo = PartsOf(t)]
      BY <3>1, <3>2
    <3> QED
      BY <3>3, <3>4, TodoField DEF Fresh
  <2>5. ASSUME NEW op \in {"sync", "connect", "list", "write"}, GoOn(c, [new EXCEPT !.op = op])
        PROVE  Fresh(call'[c])
    <3>1. call'[c] = [new EXCEPT !.op = op]
      BY <2>5, GoOnTo
    <3>2. CallShape(call'[c]) /\ call'[c].op = op
      BY <2>3, <3>1, OpField
    <3> QED
      BY <3>2 DEF Fresh
  <2> QED
    BY <1>3, <2>1, <2>4, <2>5
<1>6. CASE Probe(c)
  <2>1. DOMAIN call[c].seen = {"had", "at", "ok"}
    BY <1>1 DEF CallShape
  <2>2. DOMAIN [call[c].seen EXCEPT !.ok = FALSE] = {"had", "at", "ok"}
    BY <2>1
  <2> QED
    BY <1>1, <1>6, <2>1, <2>2, NextFolderIsFresh, RequestIsFresh DEF Probe
<1>7. CASE Relist(c) \/ Confirm(c)
  BY <1>3, <1>7 DEF Relist, Confirm
<1>8. CASE Sync(c)
  BY <1>1, <1>3, <1>8, RequestIsFresh DEF Sync
<1>9. CASE Schema(c)
  <2>1. call[c].op = "schema" /\ call'[c] = [call[c] EXCEPT !.op = "post"]
    BY <1>9, GoOnTo DEF Schema, Asking, Request
  <2>2. call'[c].op = "post" /\ call'[c].task = t /\ CallShape(call'[c])
    BY <1>1, <2>1, OpField
  <2> QED
    BY <1>1, <2>1, <2>2 DEF LooksAreSound
<1>10. CASE Test(c)
  <2>1. CASE \E v : Conclude(c, v)
    BY <1>3, <2>1
  <2>2. CASE Request(c, IF call[c].seen.at > 0 THEN "put" ELSE "post")
    <3> DEFINE op == IF call[c].seen.at > 0 THEN "put" ELSE "post"
    <3>1. call[c].op = "test" /\ call'[c] = [call[c] EXCEPT !.op = op]
      BY <1>10, <2>2, GoOnTo DEF Test, Asking, Request
    <3>2. call'[c].op = op /\ call'[c].task = t /\ call'[c].seen = call[c].seen
          /\ CallShape(call'[c])
      BY <1>1, <3>1, OpField
    <3>3. ASSUME l \in EntryLinks
          PROVE  /\ call[c].seen.at \in Nat
                 /\ ~Shared(l) =>
                      /\ call[c].seen.at = 0 => Unfound(l)
                      /\ call[c].seen.at # 0 => (Len(entries[l]) = 2 => call[c].seen.at = 2)
      BY <1>1, <3>1, <3>3 DEF LooksAreSound
    <3>4. CASE call[c].seen.at > 0
      BY <3>2, <3>3, <3>4 DEF LooksAreSound
    <3>5. CASE ~(call[c].seen.at > 0)
      BY <3>2, <3>3, <3>5 DEF LooksAreSound
    <3> QED
      BY <3>4, <3>5
  <2> QED
    BY <1>10, <2>1, <2>2 DEF Test
<1>11. CASE List(c)
  <2> DEFINE i   == FindEntry(t)
             ok  == i > 0 /\ AsWanted(t, entries[l][i])
             new == [call[c] EXCEPT !.seen = [NoSeen EXCEPT !.at = i, !.ok = ok]]
  <2>1. CallShape(new) /\ new.task = t /\ new.seen.at = i
    <3> HIDE DEF i, ok
    <3>1. PICK seen : seen = [NoSeen EXCEPT !.at = i, !.ok = ok]
      OBVIOUS
    <3>2. DOMAIN seen = {"had", "at", "ok"} /\ seen.at = i
      BY <3>1, SeenFields
    <3>3. new = [call[c] EXCEPT !.seen = seen]
      BY <3>1
    <3> HIDE DEF new
    <3> QED
      BY <1>1, <3>2, <3>3, SeenField
  <2>2. l \in EntryLinks => /\ i \in Nat
                            /\ i = 0 => Unfound(l)
                            /\ ~Shared(l) /\ Len(entries[l]) = 2 => i = 2
    BY FindEntryFinds DEF LinksAreSound
  <2>3. \/ \E v : Conclude(c, v)
        \/ GoOn(c, [new EXCEPT !.op = "test"])
        \/ GoOn(c, [new EXCEPT !.op = IF i > 0 THEN "put" ELSE "schema"])
    BY <1>11 DEF List
  <2> HIDE DEF new, i
  <2>4. CASE \E v : Conclude(c, v)
    BY <1>3, <2>4
  <2>5. CASE GoOn(c, [new EXCEPT !.op = "test"])
    <3>1. call'[c] = [new EXCEPT !.op = "test"]
      BY <2>5, GoOnTo
    <3>2. CallShape(call'[c]) /\ call'[c].op = "test" /\ call'[c].task = t /\ call'[c].seen.at = i
      BY <2>1, <3>1, OpField
    <3> QED
      BY <2>2, <3>2 DEF LooksAreSound
  <2>6. CASE GoOn(c, [new EXCEPT !.op = IF i > 0 THEN "put" ELSE "schema"])
    <3>1. call'[c] = [new EXCEPT !.op = IF i > 0 THEN "put" ELSE "schema"]
      BY <2>6, GoOnTo
    <3>2. /\ CallShape(call'[c]) /\ call'[c].op = IF i > 0 THEN "put" ELSE "schema"
          /\ call'[c].task = t /\ call'[c].seen.at = i
      BY <2>1, <3>1, OpField
    <3>3. CASE i > 0
      BY <2>2, <3>2, <3>3 DEF LooksAreSound
    <3>4. CASE ~(i > 0)
      BY <2>2, <3>2, <3>4 DEF LooksAreSound
    <3> QED
      BY <3>3, <3>4
  <2> QED
    BY <2>3, <2>4, <2>5, <2>6
<1> QED
  BY <1>4, <1>5, <1>6, <1>7, <1>8, <1>9, <1>10, <1>11 DEF Read

------------------------------------------------------------------------------
(* What a write leaves behind *)

Mine(l) == [points |-> TargetOf(l), named |-> TRUE, good |-> TRUE]

(* A step of a task leaves the calls of others, and what is installed. *)
LEMMA StepsFrame ==
  ASSUME DOMAIN call = Actor, NEW c \in Actor, Step(c)
  PROVE  /\ DOMAIN call' = Actor /\ \A d \in Actor \ {c} : call'[d] = call[d]
         /\ ids' = ids
<1>1. ids' = ids
  BY DEF Step, install
<1>2. CASE \E new : GoOn(c, new)
  BY <1>1, <1>2 DEF GoOn, SetCall
<1>3. ASSUME NEW v, Conclude(c, v)
      PROVE  DOMAIN call' = Actor /\ \A d \in Actor \ {c} : call'[d] = call[d]
  BY <1>3 DEF Conclude, FinalFrame, NextTask, EndRun, SetCall, Actor
<1> QED
  BY <1>1, <1>2, <1>3, StepIsEither DEF GoesOnOrConcludes

(* A new entry is made where neither the address nor the name was found.     *)
LEMMA PostKeepsEntriesSound ==
  ASSUME LinksAreSound, ids' = ids, NEW l \in EntryLinks, ~Shared(l) => Unfound(l),
         entries' = [entries EXCEPT ![l] = Append(@, Mine(l))]
  PROVE  entries' \in [EntryLinks -> Seq(Entry)] /\ \A k \in EntryLinks : EntriesAreSound(k)'
<1> DEFINE seq == entries[l]
           new == Append(seq, Mine(l))
<1>1. EntriesAreSound(l) /\ entries \in [EntryLinks -> Seq(Entry)]
  BY DEF LinksAreSound
<1>2. /\ seq \in Seq(Entry) /\ Len(seq) \in Nat
      /\ ~Shared(l) =>
           /\ Len(seq) <= 2
           /\ Len(seq) = 2 => seq[2].named
           /\ l[1] = "download-client" /\ Vpn \notin ids => \A i \in 1 .. Len(seq) : seq[i].points # Vpn
  <2>1. seq \in Seq(Entry)
    BY <1>1, Zenon DEF EntriesAreSound
  <2>2. ~Shared(l) =>
           /\ Len(seq) <= 2
           /\ Len(seq) = 2 => seq[2].named
           /\ l[1] = "download-client" /\ Vpn \notin ids => \A i \in 1 .. Len(seq) : seq[i].points # Vpn
    BY <1>1, Zenon DEF EntriesAreSound
  <2> QED
    BY <2>1, <2>2, LenProperties
<1>3. Mine(l) \in Entry /\ Mine(l).named /\ Mine(l).points = TargetOf(l)
  BY TargetIsAnApp DEF Mine, Entry
<1>4. ~Shared(l) => Len(seq) \in 0 .. 1
  <2> SUFFICES ASSUME ~Shared(l) PROVE Len(seq) \in 0 .. 1
    OBVIOUS
  <2>1. Len(seq) # 2
    BY <1>2 DEF Unfound
  <2>2. seq \in Seq(Entry) /\ Len(seq) <= 2
    BY <1>2, Zenon
  <2>3. Len(seq) \in Nat
    BY <2>2, LenProperties
  <2>4. \A n \in Nat : n <= 2 /\ n # 2 => n \in 0 .. 1
    OBVIOUS
  <2> QED
    BY <2>1, <2>2, <2>3, <2>4, Zenon
<1>5. /\ new \in Seq(Entry) /\ Len(new) = Len(seq) + 1
      /\ \A i \in 1 .. Len(seq) : new[i] = seq[i]
      /\ new[Len(seq) + 1] = Mine(l)
  <2>1. seq \in Seq(Entry)
    BY <1>2, Zenon
  <2> QED
    BY <1>3, <2>1, AppendProperties
<1>6. entries'[l] = new /\ entries' \in [EntryLinks -> Seq(Entry)]
      /\ \A k \in EntryLinks \ {l} : entries'[k] = entries[k]
  BY <1>1, <1>5
<1>7. TargetOf(l)' = TargetOf(l)
  BY DEF TargetOf, Target
<1>8. ~Shared(l) /\ Len(new) = 2 =>
        /\ ~new[1].named /\ new[2].named
        /\ new[1].points # TargetOf(l) /\ new[1].points # new[2].points
  <2> SUFFICES ASSUME ~Shared(l), Len(new) = 2
               PROVE  /\ ~new[1].named /\ new[2].named
                      /\ new[1].points # TargetOf(l) /\ new[1].points # new[2].points
    OBVIOUS
  <2>1. Len(seq) = 1
    BY <1>4, <1>5
  <2>2. new[1] = seq[1] /\ new[2] = Mine(l)
    BY <1>5, <2>1
  <2>3. ~seq[1].named /\ seq[1].points # TargetOf(l)
    BY <2>1 DEF Unfound
  <2> QED
    BY <1>3, <2>2, <2>3, Zenon
<1>9. ~Shared(l) /\ l[1] = "download-client" /\ Vpn \notin ids =>
        \A i \in 1 .. Len(new) : new[i].points # Vpn
  <2> SUFFICES ASSUME ~Shared(l), l[1] = "download-client", Vpn \notin ids, NEW i \in 1 .. Len(new)
               PROVE  new[i].points # Vpn
    OBVIOUS
  <2>1. CASE i = Len(seq) + 1
    <3>1. new[i] = Mine(l)
      BY <1>5, <2>1
    <3> QED
      BY <1>3, <3>1, TargetIsAnApp
  <2>2. CASE i # Len(seq) + 1
    <3>1. i \in 1 .. Len(seq)
      BY <1>4, <1>5, <2>2
    <3>2. new[i] = seq[i]
      BY <1>5, <3>1
    <3> QED
      BY <1>2, <3>1, <3>2, Zenon
  <2> QED
    BY <2>1, <2>2
<1>10. EntriesAreSound(l)'
  <2>1. ~Shared(l) => Len(new) <= 2
    BY <1>4, <1>5
  <2> HIDE DEF new
  <2> QED
    BY <1>5, <1>6, <1>7, <1>8, <1>9, <2>1 DEF EntriesAreSound
<1>11. ASSUME NEW k \in EntryLinks \ {l} PROVE EntriesAreSound(k)'
  <2>1. EntriesAreSound(k) /\ entries'[k] = entries[k]
    BY <1>6 DEF LinksAreSound
  <2> QED
    BY <2>1 DEF EntriesAreSound, TargetOf, Target
<1> QED
  BY <1>6, <1>10, <1>11

(* A change of the entry found leaves one of its address and name.           *)
LEMMA PutKeepsEntriesSound ==
  ASSUME LinksAreSound, ids' = ids, NEW l \in EntryLinks,
         NEW at \in 1 .. Len(entries[l]), ~Shared(l) => (Len(entries[l]) = 2 => at = 2),
         NEW e \in Entry, e.points = TargetOf(l), e.named \/ e.named = entries[l][at].named,
         entries' = [entries EXCEPT ![l][at] = e]
  PROVE  entries' \in [EntryLinks -> Seq(Entry)] /\ \A k \in EntryLinks : EntriesAreSound(k)'
<1>1. EntriesAreSound(l) /\ entries \in [EntryLinks -> Seq(Entry)]
  BY DEF LinksAreSound
<1>2. PICK seq : seq = entries[l]
  OBVIOUS
<1>3. PICK new : new = [seq EXCEPT ![at] = e]
  OBVIOUS
<1>4. /\ seq \in Seq(Entry)
      /\ ~Shared(l) =>
           /\ Len(seq) <= 2
           /\ Len(seq) = 2 => /\ ~seq[1].named /\ seq[2].named
                              /\ seq[1].points # TargetOf(l)
           /\ l[1] = "download-client" /\ Vpn \notin ids => \A i \in 1 .. Len(seq) : seq[i].points # Vpn
  BY <1>1, <1>2, Zenon DEF EntriesAreSound
<1>5. at \in 1 .. Len(seq) /\ (~Shared(l) => (Len(seq) = 2 => at = 2))
  BY <1>2
<1>6. /\ new \in Seq(Entry) /\ Len(new) = Len(seq) /\ new[at] = e
      /\ \A i \in 1 .. Len(seq) : i # at => new[i] = seq[i]
  <2>1. seq \in Seq(Entry)
    BY <1>4, Zenon
  <2> QED
    BY <1>3, <1>5, <2>1, ExceptSeq
<1>7. entries'[l] = new /\ entries' \in [EntryLinks -> Seq(Entry)]
      /\ \A k \in EntryLinks \ {l} : entries'[k] = entries[k]
  BY <1>1, <1>2, <1>3, <1>6
<1>8. TargetOf(l)' = TargetOf(l)
  BY DEF TargetOf, Target
<1>9. ~Shared(l) /\ Len(new) = 2 =>
        /\ ~new[1].named /\ new[2].named
        /\ new[1].points # TargetOf(l) /\ new[1].points # new[2].points
  <2> SUFFICES ASSUME ~Shared(l), Len(new) = 2
               PROVE  /\ ~new[1].named /\ new[2].named
                      /\ new[1].points # TargetOf(l) /\ new[1].points # new[2].points
    OBVIOUS
  <2>1. Len(seq) = 2 /\ at = 2 /\ new[2] = e
    BY <1>5, <1>6
  <2>2. new[1] = seq[1]
    BY <1>6, <2>1
  <2>3. e.named
    BY <1>2, <1>4, <2>1
  <2> QED
    BY <1>4, <2>1, <2>2, <2>3
<1>10. ~Shared(l) /\ l[1] = "download-client" /\ Vpn \notin ids =>
         \A i \in 1 .. Len(new) : new[i].points # Vpn
  <2> SUFFICES ASSUME ~Shared(l), l[1] = "download-client", Vpn \notin ids, NEW i \in 1 .. Len(new)
               PROVE  new[i].points # Vpn
    OBVIOUS
  <2>1. CASE i = at
    BY <1>6, <2>1, TargetIsAnApp
  <2>2. CASE i # at
    <3>1. new[i] = seq[i] /\ i \in 1 .. Len(seq)
      BY <1>6, <2>2
    <3> QED
      BY <1>4, <3>1, Zenon
  <2> QED
    BY <2>1, <2>2
<1>11. EntriesAreSound(l)'
  <2>1. ~Shared(l) => Len(new) <= 2
    BY <1>4, <1>6
  <2> QED
    BY <1>7, <1>6, <1>8, <1>9, <1>10, <2>1 DEF EntriesAreSound
<1>12. ASSUME NEW k \in EntryLinks \ {l} PROVE EntriesAreSound(k)'
  <2>1. EntriesAreSound(k) /\ entries'[k] = entries[k]
    BY <1>7 DEF LinksAreSound
  <2> QED
    BY <2>1 DEF EntriesAreSound, TargetOf, Target
<1> QED
  BY <1>7, <1>11, <1>12

(* Whatever a step writes, the entries stay sound. *)
LEMMA EffectKeepsEntriesSound ==
  ASSUME LinksAreSound, ids' = ids, NEW c \in Actor, ~Gone(c), Effect(c)
  PROVE  entries' \in [EntryLinks -> Seq(Entry)] /\ \A k \in EntryLinks : EntriesAreSound(k)'
<1> DEFINE t    == call[c].task
           l    == Link(t)
           at   == call[c].seen.at
           mine == [points |-> Target(t, ids), named |-> TRUE, good |-> TRUE]
<1>1. LooksAreSound(call[c]) /\ entries \in [EntryLinks -> Seq(Entry)]
  BY DEF LinksAreSound
<1>2. CASE entries' = entries
  BY <1>2 DEF LinksAreSound, EntriesAreSound, TargetOf, Target
<1>3. CASE call[c].op = "post"
  <2>1. entries' = [entries EXCEPT ![l] = Append(@, mine)]
    BY <1>3 DEF Effect
  <2>2. mine = Mine(l)
    BY TargetIsTargetOf DEF Mine
  <2>3. CASE l \in EntryLinks
    <3>1. ~Shared(l) => Unfound(l)
      BY <1>1, <1>3, <2>3 DEF LooksAreSound
    <3> HIDE DEF l, mine
    <3> QED
      BY <2>1, <2>2, <2>3, <3>1, PostKeepsEntriesSound
  <2>4. CASE l \notin EntryLinks
    <3>1. entries' = entries
      BY <1>1, <2>1, <2>4
    <3> QED
      BY <1>2, <3>1
  <2> QED
    BY <2>3, <2>4
<1>4. CASE call[c].op = "put"
  <2> DEFINE e == [mine EXCEPT !.named = t.kind = "download-client" \/ entries[l][at].named]
  <2>1. entries' = [entries EXCEPT ![l][at] = e]
    BY <1>4 DEF Effect
  <2>2. CASE l \in EntryLinks
    <3>1. at \in Nat \ {0} /\ (~Shared(l) => (Len(entries[l]) = 2 => at = 2))
      BY <1>1, <1>4, <2>2 DEF LooksAreSound
    <3>2. EntriesAreSound(l)
      BY <2>2 DEF LinksAreSound
    <3>3. entries[l] \in Seq(Entry)
      BY <3>2, Zenon DEF EntriesAreSound
    <3>4. at \in 1 .. Len(entries[l])
      BY <1>4, <3>1, <3>3 DEF Gone
    <3>5. entries[l][at] \in Entry
      BY <3>3, <3>4
    <3>6. entries[l][at].named \in BOOLEAN
      BY <3>5 DEF Entry
    <3>7. TargetOf(l) \in App /\ Target(t, ids) = TargetOf(l)
      BY <2>2, TargetIsAnApp, TargetIsTargetOf
    <3>8. PICK b \in BOOLEAN : b = (t.kind = "download-client" \/ entries[l][at].named)
      OBVIOUS
    <3>9. e = [mine EXCEPT !.named = b]
      BY <3>8
    <3>10. e \in Entry /\ e.points = TargetOf(l) /\ e.named = b
      <4> HIDE DEF e
      <4> QED
        BY <3>7, <3>9 DEF Entry
    <3>11. e.named \/ e.named = entries[l][at].named
      BY <3>6, <3>8, <3>10
    <3> HIDE DEF e, l, at
    <3> QED
      BY <2>1, <2>2, <3>1, <3>4, <3>10, <3>11, PutKeepsEntriesSound
  <2>3. CASE l \notin EntryLinks
    <3>1. entries' = entries
      BY <1>1, <2>1, <2>3
    <3> QED
      BY <1>2, <3>1
  <2> QED
    BY <2>2, <2>3
<1> QED
  BY <1>2, <1>3, <1>4 DEF Effect

------------------------------------------------------------------------------
(* The steps keep the links sound *)

(* What relies on no look stays sound, whatever changes. *)
LEMMA FreshStays ==
  ASSUME NEW c, Fresh(call'[c])
  PROVE  (CallShape(call[c]) /\ LooksAreSound(call[c]))'
<1>1. CallShape(call'[c]) /\ call'[c].op \notin {"schema", "post", "put", "test"}
  BY DEF Fresh
<1> QED
  BY <1>1 DEF LooksAreSound, CallShape

(* Entries stay sound when the VPN comes: none points to it yet.             *)
LEMMA EntriesStaySound ==
  ASSUME LinksAreSound, entries' = entries, Vpn \in ids => Vpn \in ids'
  PROVE  entries' \in [EntryLinks -> Seq(Entry)] /\ \A l \in EntryLinks : EntriesAreSound(l)'
<1>1. ASSUME NEW l \in EntryLinks PROVE EntriesAreSound(l)'
  <2>1. EntriesAreSound(l)
    BY DEF LinksAreSound
  <2>2. CASE TargetOf(l)' = TargetOf(l)
    BY <2>1, <2>2 DEF EntriesAreSound
  <2>3. CASE TargetOf(l)' # TargetOf(l)
    <3>1. l[1] = "download-client" /\ Vpn \notin ids /\ TargetOf(l)' = Vpn /\ ~Shared(l)
      BY <2>3 DEF TargetOf, Target, Shared
    <3>2. PICK seq : seq = entries[l]
      OBVIOUS
    <3>3. seq \in Seq(Entry) /\ \A i \in 1 .. Len(seq) : seq[i].points # Vpn
      BY <2>1, <3>1, <3>2, Zenon DEF EntriesAreSound
    <3>4. Len(seq) = 2 => seq[1].points # TargetOf(l)'
      BY <3>1, <3>3
    <3> QED
      BY <2>1, <3>1, <3>2, <3>3, <3>4 DEF EntriesAreSound
  <2> QED
    BY <2>2, <2>3
<1> QED
  BY <1>1 DEF LinksAreSound

(* What is sound of the entries of a link as they were is so of the same     *)
(* entries after; of shared ones little is claimed.                          *)
LEMMA LookStaysSound ==
  ASSUME ids' = ids, NEW c, CallShape(call'[c]), LooksAreSound(call'[c]),
         NEW l, l = Link(call'[c].task), l \in EntryLinks => Shared(l) \/ entries'[l] = entries[l]
  PROVE  (CallShape(call[c]) /\ LooksAreSound(call[c]))'
<1>1. Unfound(l)' <=> \A i \in 1 .. Len(entries'[l]) :
                         ~entries'[l][i].named /\ entries'[l][i].points # TargetOf(l)
  BY DEF Unfound, TargetOf, Target
<1>2. entries'[l] = entries[l] => (Unfound(l)' <=> Unfound(l))
  BY <1>1 DEF Unfound
<1> QED
  BY <1>2 DEF CallShape, LooksAreSound

(* So it is while no entries change. *)
LEMMA LooksStaySound ==
  ASSUME entries' = entries, ids' = ids, NEW c, CallShape(call'[c]), LooksAreSound(call'[c])
  PROVE  (CallShape(call[c]) /\ LooksAreSound(call[c]))'
<1>1. PICK l : l = Link(call'[c].task)
  OBVIOUS
<1> QED
  BY <1>1, LookStaysSound

(* A write changes no entries but those of its link. *)
LEMMA EffectKeepsToItsLink ==
  ASSUME entries \in [EntryLinks -> Seq(Entry)], NEW c, Effect(c),
         NEW l \in EntryLinks, l # Link(call[c].task)
  PROVE  entries'[l] = entries[l]
BY DEF Effect

(* After a write that was answered no look is relied on. *)
LEMMA ProceedIsFresh ==
  ASSUME DOMAIN call = Actor, NEW c \in Actor, CallShape(call[c]), Proceed(c)
  PROVE  Fresh(call'[c])
<1>1. CASE call[c].op = "write"
  BY <1>1, AfterWriteIsFresh DEF Proceed
<1>2. CASE Request(c, "sync") \/ Request(c, "scan")
  BY <1>2, RequestIsFresh
<1>3. CASE Conclude(c, "done")
  BY <1>3, ConcludeIsFresh
<1> QED
  BY <1>1, <1>2, <1>3 DEF Proceed

(* The hook goes from one of Seerr's entries to the next. *)
LEMMA HookStays ==
  ASSUME LinksAreSound, DOMAIN call = Actor, Step("hook")
  PROVE  /\ HookKeepsToEntries' /\ UNCHANGED <<run, rows, report, touched, install, world>>
         /\ call'["run"] = call["run"]
         /\ \/ UNCHANGED remote
            \/ Effect("hook") /\ ~Gone("hook") /\ call["hook"].op \in {"put", "post"}
<1> DEFINE x == call["hook"]
<1>1. x.op \in {"list", "schema", "test", "put", "post"} /\ UNCHANGED <<install, world>>
  BY StepIsEither DEF LinksAreSound, HookKeepsToEntries, Step, Read, Write, Unserved, AnswerLost, Refused,
     Requesting, Asking, Reads, Writes, Identity, Look, Probe, Relist, Confirm, List, Schema,
     Test, Sync
<1>2. CallShape(x) /\ x.task.kind \in {"explain", "seerr"}
  BY DEF LinksAreSound, HookKeepsToEntries, Actor
<1>3. ASSUME NEW v, Conclude("hook", v)
      PROVE  /\ HookKeepsToEntries' /\ UNCHANGED <<run, rows, report, touched>>
             /\ call'["run"] = call["run"]
  <2>1. call' = [call EXCEPT !["hook"] = HookNext(x)] /\ UNCHANGED <<run, rows, report, touched>>
    BY <1>3 DEF Conclude, SetCall
  <2>2. HookNext(x).op \in {"none", "list"} /\ HookNext(x).task.kind \in {"explain", "seerr"}
    BY DEF HookNext, NoCall, Explain, SeerrArr, Task, Partner
  <2> QED
    BY <2>1, <2>2 DEF HookKeepsToEntries, Actor
<1>4. ASSUME NEW new, GoOn("hook", new), new.op \in {"list", "schema", "test", "put", "post"},
             new.task = x.task
      PROVE  /\ HookKeepsToEntries' /\ UNCHANGED <<run, rows, report, touched>>
             /\ call'["run"] = call["run"]
  BY <1>2, <1>4 DEF GoOn, SetCall, HookKeepsToEntries, Actor
<1>5. ASSUME NEW op \in {"list", "schema", "test", "put", "post"}, Request("hook", op)
      PROVE  /\ HookKeepsToEntries' /\ UNCHANGED <<run, rows, report, touched>>
             /\ call'["run"] = call["run"]
  <2>1. PICK y : y = [x EXCEPT !.op = op]
    OBVIOUS
  <2>2. y.op = op /\ y.task = x.task
    BY <1>2, <2>1, OpField
  <2> QED
    BY <1>4, <1>5, <2>1, <2>2 DEF Request
<1>6. CASE Read("hook")
  <2>1. UNCHANGED remote
    BY <1>6 DEF Read, Identity, Look, Probe, Relist, Confirm, List, Schema, Test, Sync
  <2>2. List("hook") \/ Schema("hook") \/ Test("hook")
    BY <1>1, <1>6 DEF Read, Asking, Identity, Look, Probe, Relist, Confirm, Sync
  <2>3. CASE Schema("hook")
    BY <1>1, <1>5, <2>1, <2>3 DEF Schema
  <2>4. CASE Test("hook")
    <3>1. \/ \E v : Conclude("hook", v)
          \/ \E op \in {"put", "post"} : Request("hook", op)
      BY <2>4 DEF Test
    <3> QED
      BY <1>1, <1>3, <1>5, <2>1, <3>1
  <2>5. CASE List("hook")
    <3> DEFINE i   == FindEntry(x.task)
               ok  == i > 0 /\ AsWanted(x.task, entries[Link(x.task)][i])
               new == [x EXCEPT !.seen = [NoSeen EXCEPT !.at = i, !.ok = ok]]
    <3>1. \/ \E v : Conclude("hook", v)
          \/ GoOn("hook", [new EXCEPT !.op = "test"])
          \/ GoOn("hook", [new EXCEPT !.op = IF i > 0 THEN "put" ELSE "schema"])
      BY <2>5 DEF List
    <3> HIDE DEF i, ok
    <3>2. CallShape(new) /\ new.task = x.task
      <4>1. PICK seen : seen = [NoSeen EXCEPT !.at = i, !.ok = ok]
        OBVIOUS
      <4>2. DOMAIN seen = {"had", "at", "ok"}
        BY <4>1, SeenFields
      <4>3. new = [x EXCEPT !.seen = seen]
        BY <4>1
      <4> HIDE DEF new, x
      <4> QED
        BY <1>2, <4>2, <4>3, SeenField DEF x
    <3> HIDE DEF new
    <3>3. ASSUME NEW op \in {"test", "put", "schema"}, GoOn("hook", [new EXCEPT !.op = op])
          PROVE  /\ HookKeepsToEntries' /\ UNCHANGED <<run, rows, report, touched>>
                 /\ call'["run"] = call["run"]
      <4>1. PICK y : y = [new EXCEPT !.op = op]
        OBVIOUS
      <4>2. y.op = op /\ y.task = x.task
        BY <3>2, <4>1, OpField
      <4> QED
        BY <1>4, <3>3, <4>1, <4>2
    <3>4. PICK op \in {"put", "schema"} : op = IF i > 0 THEN "put" ELSE "schema"
      OBVIOUS
    <3> QED
      BY <1>1, <1>3, <2>1, <3>1, <3>3, <3>4
  <2> QED
    BY <2>2, <2>3, <2>4, <2>5
<1>7. CASE Write("hook")
  <2>1. Effect("hook") /\ ~Gone("hook") /\ x.op \in {"put", "post"}
    BY <1>1, <1>7 DEF Write, Writes
  <2>2. Conclude("hook", "done")
    BY <1>7, <2>1 DEF Write, Proceed
  <2> QED
    BY <1>1, <1>3, <2>1, <2>2
<1>8. CASE AnswerLost("hook")
  <2>1. Effect("hook") /\ ~Gone("hook") /\ x.op \in {"put", "post"}
    BY <1>1, <1>8 DEF AnswerLost, Writes
  <2>2. Conclude("hook", "error")
    BY <1>8 DEF AnswerLost, ApplyAgain
  <2> QED
    BY <1>1, <1>3, <2>1, <2>2
<1>9. CASE Unserved("hook") \/ Refused("hook")
  <2>1. Conclude("hook", "error") /\ UNCHANGED remote
    BY <1>9 DEF Unserved, Refused, ApplyAgain
  <2> QED
    BY <1>1, <1>3, <2>1
<1> QED
  BY <1>6, <1>7, <1>8, <1>9 DEF Step

(* A request keeps the entries, and what was seen of them, sound. *)
LEMMA StepKeepsLinksSound ==
  ASSUME RowsTellTheRun, LinksAreSound, NEW c \in Actor, Step(c)
  PROVE  LinksAreSound'
<1>1. /\ DOMAIN call = Actor /\ CallShape(call[c]) /\ call[c] # NoCall
      /\ ids' = ids /\ \A d \in Actor \ {c} : call'[d] = call[d]
  BY StepIsEither, StepsFrame DEF RowsTellTheRun, LinksAreSound
<1>2. ~HookBeside => \A d \in Actor \ {c} : call[d] = NoCall
  BY <1>1 DEF RowsTellTheRun, LinksAreSound, OneAtATime, Actor
<1>3. OneAtATime' /\ HookKeepsToEntries'
  <2>1. CASE c = "run"
    BY <1>1, <1>2, <2>1 DEF LinksAreSound, OneAtATime, HookKeepsToEntries, Actor
  <2>2. CASE c = "hook"
    <3>1. run' = run /\ rows' = rows /\ HookKeepsToEntries'
      BY <1>1, <2>2, HookStays
    <3> QED
      BY <1>1, <2>2, <3>1 DEF LinksAreSound, OneAtATime
  <2> QED
    BY <2>1, <2>2 DEF Actor
<1>4. \A d \in Actor \ {c} : (CallShape(call[d]) /\ LooksAreSound(call[d]))'
  <2> SUFFICES ASSUME NEW d \in Actor \ {c}
               PROVE  (CallShape(call[d]) /\ LooksAreSound(call[d]))'
    OBVIOUS
  <2>1. CASE ~HookBeside
    BY <1>1, <1>2, <2>1, NoCallIsFresh, FreshStays
  <2>2. CASE HookBeside
    <3>1. call'[d] = call[d] /\ CallShape(call[d]) /\ LooksAreSound(call[d])
      BY <1>1 DEF LinksAreSound
    <3>2. PICK l : l = Link(call'[d].task)
      OBVIOUS
    <3>3. \A m \in EntryLinks : m[1] # "explain"
      BY DEF EntryLinks, KeepsEntry
    <3>4. l \in EntryLinks => Shared(l) \/ entries'[l] = entries[l]
      <4>1. CASE d = "hook"
        <5>1. l[1] \in {"explain", "seerr"}
          BY <3>1, <3>2, <4>1 DEF LinksAreSound, HookKeepsToEntries, Link
        <5> QED
          BY <2>2, <3>3, <5>1 DEF Shared
      <4>2. CASE d = "run"
        <5>1. c = "hook"
          BY <4>2 DEF Actor
        <5>2. \/ entries' = entries
              \/ Effect("hook")
          BY <1>1, <5>1, HookStays DEF remote
        <5>3. PICK h : h = Link(call["hook"].task)
          OBVIOUS
        <5>4. h[1] \in {"explain", "seerr"}
          BY <5>3 DEF LinksAreSound, HookKeepsToEntries, Link
        <5>5. l = h => l \notin EntryLinks \/ Shared(l)
          BY <2>2, <3>3, <5>4 DEF Shared
        <5>6. Effect("hook") /\ l # h /\ l \in EntryLinks => entries'[l] = entries[l]
          BY <5>3, EffectKeepsToItsLink DEF LinksAreSound
        <5> QED
          BY <5>2, <5>5, <5>6
      <4> QED
        BY <4>1, <4>2 DEF Actor
    <3> QED
      BY <1>1, <3>1, <3>2, <3>4, LookStaysSound
  <2> QED
    BY <2>1, <2>2
<1>5. CASE Read(c)
  <2>1. entries' = entries
    BY <1>5 DEF Read, remote, Identity, Look, Probe, Relist, Confirm, List, Schema, Test, Sync
  <2>2. CallShape(call'[c]) /\ LooksAreSound(call'[c])
    BY <1>1, <1>5, ReadLearns
  <2>3. (CallShape(call[c]) /\ LooksAreSound(call[c]))'
    BY <1>1, <2>1, <2>2, LooksStaySound
  <2>4. entries' \in [EntryLinks -> Seq(Entry)] /\ \A l \in EntryLinks : EntriesAreSound(l)'
    BY <1>1, <2>1, EntriesStaySound
  <2> QED
    BY <1>3, <1>4, <2>3, <2>4 DEF LinksAreSound
<1>6. CASE Write(c) \/ AnswerLost(c)
  <2>1. Effect(c) /\ ~Gone(c)
    BY <1>6 DEF Write, AnswerLost
  <2>2. Fresh(call'[c])
    BY <1>1, <1>6, ProceedIsFresh, ApplyAgainIsFresh DEF Write, AnswerLost
  <2>3. entries' \in [EntryLinks -> Seq(Entry)] /\ \A l \in EntryLinks : EntriesAreSound(l)'
    BY <1>1, <2>1, EffectKeepsEntriesSound
  <2> QED
    BY <1>3, <1>4, <2>2, <2>3, FreshStays DEF LinksAreSound
<1>7. CASE Unserved(c) \/ Refused(c) \/ (c = "run" /\ Ignored)
  <2>1. entries' = entries
    BY <1>7 DEF Unserved, Refused, Ignored, remote
  <2>2. CASE Unserved(c) \/ Refused(c)
    <3>1. ApplyAgain(c) \/ Conclude(c, "error")
      BY <2>2 DEF Unserved, Refused
    <3> QED
      BY <1>1, <1>3, <1>4, <2>1, <3>1, ApplyAgainIsFresh, ConcludeIsFresh, FreshStays,
         EntriesStaySound DEF LinksAreSound
  <2>3. CASE c = "run" /\ Ignored
    <3>1. Fresh(call'[c])
      BY <1>1, <2>3, AfterWriteIsFresh DEF Ignored, Asking
    <3> QED
      BY <1>1, <1>3, <1>4, <2>1, <3>1, FreshStays, EntriesStaySound DEF LinksAreSound
  <2> QED
    BY <1>7, <2>2, <2>3
<1> QED
  BY <1>5, <1>6, <1>7 DEF Step

(* What the hook learnt stays sound whatever is installed: where Seerr's     *)
(* entries point does not depend on it.                                      *)
LEMMA HookLooksStaySound ==
  ASSUME LinksAreSound, entries' = entries, call'["hook"] = call["hook"]
  PROVE  (CallShape(call["hook"]) /\ LooksAreSound(call["hook"]))'
<1> DEFINE l == Link(call["hook"].task)
<1>1. /\ CallShape(call["hook"]) /\ LooksAreSound(call["hook"])
      /\ call["hook"].task.kind \in {"explain", "seerr"}
  BY DEF LinksAreSound, HookKeepsToEntries, Actor
<1>2. l[1] # "download-client"
  BY <1>1 DEF Link
<1>3. TargetOf(l)' = TargetOf(l)
  BY <1>2 DEF TargetOf, Target
<1>4. Unfound(l)' <=> Unfound(l)
  BY <1>3 DEF Unfound
<1> QED
  BY <1>1, <1>4 DEF LooksAreSound, CallShape

(* Nothing is written by the hook while it is at nothing. *)
LEMMA NoCallKeepsToEntries == NoCall.op = "none" /\ NoCall.task.kind = "explain"
BY DEF NoCall, Explain, Task

(* A step of the run that relies on no look, and writes nothing, leaves the  *)
(* links sound.                                                              *)
LEMMA RunAloneKeepsLinksSound ==
  ASSUME LinksAreSound, HookBeside \/ call["hook"] = NoCall, Fresh(call'["run"]),
         call'["hook"] = call["hook"], entries' = entries, Vpn \in ids => Vpn \in ids'
  PROVE  LinksAreSound'
<1>1. (CallShape(call["run"]) /\ LooksAreSound(call["run"]))'
  BY FreshStays
<1>2. (CallShape(call["hook"]) /\ LooksAreSound(call["hook"]))'
  BY HookLooksStaySound
<1>3. OneAtATime' /\ HookKeepsToEntries'
  BY DEF LinksAreSound, OneAtATime, HookKeepsToEntries
<1>4. \A c \in Actor : (CallShape(call[c]) /\ LooksAreSound(call[c]))'
  BY <1>1, <1>2 DEF Actor
<1> QED
  BY <1>3, <1>4, EntriesStaySound DEF LinksAreSound

(* A run begins with nothing learnt. *)
LEMMA BeginRunKeepsLinksSound ==
  ASSUME RowsTellTheRun, LinksAreSound, HookBeside \/ call["hook"] = NoCall, NEW who, NEW plan,
         BeginRun(who, plan), entries' = entries, Vpn \in ids => Vpn \in ids'
  PROVE  LinksAreSound'
<1>1. /\ \/ call' = [call EXCEPT !["run"] = NoCall]
         \/ call' = [call EXCEPT !["run"] = CallFor(plan[1], {})]
      /\ DOMAIN call = Actor
  BY DEF BeginRun, SetCall, RowsTellTheRun
<1>2. Fresh(call'["run"]) /\ call'["hook"] = call["hook"]
  BY <1>1, NoCallIsFresh, CallForIsFresh DEF Actor
<1> QED
  BY <1>2, RunAloneKeepsLinksSound

(* What the owner changes by hand never makes an entry look more like ours. *)
LEMMA EditKeepsLinksSound ==
  ASSUME LinksAreSound, NEW t, Edit(t)
  PROVE  LinksAreSound'
<1> DEFINE l == Link(t)
<1>1. ids' = ids /\ run' = run /\ rows' = rows /\ call' = call
  BY DEF Edit, install
<1>2. OneAtATime' /\ HookKeepsToEntries'
  BY <1>1 DEF LinksAreSound, OneAtATime, HookKeepsToEntries
<1>3. ASSUME entries' = entries PROVE LinksAreSound'
  <2>1. \A c \in Actor : (CallShape(call[c]) /\ LooksAreSound(call[c]))'
    BY <1>1, <1>3, LooksStaySound DEF LinksAreSound
  <2> QED
    BY <1>1, <1>2, <1>3, <2>1, EntriesStaySound DEF LinksAreSound
<1>4. ASSUME l \in EntryLinks, Len(entries[l]) = 1, EditEntry(t) PROVE LinksAreSound'
  <2>1. PICK e : e = entries[l][1]
    OBVIOUS
  <2>2. EntriesAreSound(l) /\ entries \in [EntryLinks -> Seq(Entry)]
    BY <1>4 DEF LinksAreSound
  <2>3. e \in Entry /\ entries[l] \in Seq(Entry)
    <3>1. PICK known : known = entries[l]
      OBVIOUS
    <3>2. known \in Seq(Entry)
      <4> HIDE DEF l
      <4> QED
        BY <1>4, <2>2, <3>1
    <3>3. known[1] \in Entry
      BY <1>4, <3>1, <3>2, ElementOfSeq
    <3> QED
      BY <2>1, <3>1, <3>2, <3>3
  <2>4. l[1] = "download-client" /\ Vpn \notin ids => e.points # Vpn
    <3>1. l[1] = "download-client" => ~Shared(l)
      BY DEF Shared
    <3>2. PICK known : known = entries[l]
      OBVIOUS
    <3>3. ~Shared(l) /\ l[1] = "download-client" /\ Vpn \notin ids =>
            \A i \in 1 .. Len(known) : known[i].points # Vpn
      BY <2>2, <3>2, Zenon DEF EntriesAreSound
    <3>4. 1 \in 1 .. Len(known) /\ e = known[1]
      BY <1>4, <2>1, <3>2
    <3> QED
      BY <3>1, <3>3, <3>4
  <2>5. PICK new \in {<<>>, <<[e EXCEPT !.good = FALSE]>>, <<[e EXCEPT !.named = FALSE]>>,
                      <<[e EXCEPT !.points = NoApp]>>} : entries' = [entries EXCEPT ![l] = new]
    BY <1>4, <2>1 DEF EditEntry
  <2>6. /\ new \in Seq(Entry) /\ Len(new) \in 0 .. 1
        /\ \A i \in 1 .. Len(new) : /\ new[i].named => e.named
                                    /\ new[i].points = e.points \/ new[i].points = NoApp
    <3>1. /\ [e EXCEPT !.good = FALSE] \in Entry /\ [e EXCEPT !.named = FALSE] \in Entry
          /\ [e EXCEPT !.points = NoApp] \in Entry
      BY <2>3 DEF Entry
    <3>2. /\ [e EXCEPT !.good = FALSE].named = e.named /\ ~[e EXCEPT !.named = FALSE].named
          /\ [e EXCEPT !.points = NoApp].named = e.named
          /\ [e EXCEPT !.good = FALSE].points = e.points
          /\ [e EXCEPT !.named = FALSE].points = e.points
          /\ [e EXCEPT !.points = NoApp].points = NoApp
      BY <2>3 DEF Entry
    <3>3. CASE new = <<>>
      BY <3>3
    <3>4. ASSUME NEW f \in Entry, f.named => e.named, f.points = e.points \/ f.points = NoApp,
                 new = <<f>>
          PROVE  /\ new \in Seq(Entry) /\ Len(new) \in 0 .. 1
                 /\ \A i \in 1 .. Len(new) : /\ new[i].named => e.named
                                             /\ new[i].points = e.points \/ new[i].points = NoApp
      <4>1. new \in Seq(Entry) /\ Len(new) = 1 /\ new[1] = f
        BY <3>4
      <4>2. \A i \in 1 .. Len(new) : i = 1
        BY <4>1
      <4> QED
        BY <3>4, <4>1, <4>2
    <3> QED
      BY <2>5, <3>1, <3>2, <3>3, <3>4
  <2>7. entries' \in [EntryLinks -> Seq(Entry)] /\ entries'[l] = new
        /\ \A k \in EntryLinks \ {l} : entries'[k] = entries[k]
    BY <1>4, <2>2, <2>5, <2>6
  <2>8. \A k \in EntryLinks : EntriesAreSound(k)'
    <3>1. Len(new) # 2 /\ Len(new) <= 2
      <4>1. \A n \in 0 .. 1 : n # 2 /\ n <= 2
        OBVIOUS
      <4> QED
        BY <2>6, <4>1, Zenon
    <3>2. l[1] = "download-client" /\ Vpn \notin ids => \A i \in 1 .. Len(new) : new[i].points # Vpn
      BY <2>4, <2>6, CatalogAssumption
    <3>3. EntriesAreSound(l)'
      BY <1>1, <2>6, <2>7, <3>1, <3>2 DEF EntriesAreSound
    <3>4. ASSUME NEW k \in EntryLinks \ {l} PROVE EntriesAreSound(k)'
      <4>1. EntriesAreSound(k) /\ entries'[k] = entries[k]
        BY <2>7 DEF LinksAreSound
      <4> QED
        BY <1>1, <4>1 DEF EntriesAreSound, TargetOf, Target
    <3> QED
      BY <3>3, <3>4
  <2>9. Unfound(l) => Unfound(l)'
    <3> SUFFICES ASSUME Unfound(l) PROVE Unfound(l)'
      OBVIOUS
    <3>1. ~e.named /\ e.points # TargetOf(l) /\ NoApp # TargetOf(l)
      BY <1>4, <2>1, TargetIsAnApp DEF Unfound
    <3>2. \A i \in 1 .. Len(new) : ~new[i].named /\ new[i].points # TargetOf(l)
      BY <2>6, <3>1
    <3>3. TargetOf(l)' = TargetOf(l)
      BY <1>1 DEF TargetOf, Target
    <3> QED
      BY <2>7, <3>2, <3>3 DEF Unfound
  <2>10. ASSUME NEW c \in Actor PROVE (CallShape(call[c]) /\ LooksAreSound(call[c]))'
    <3>1. CallShape(call[c]) /\ LooksAreSound(call[c])
      BY DEF LinksAreSound
    <3>2. CASE Link(call[c].task) = l
      <4>1. Len(entries'[l]) # 2
        BY <2>6, <2>7
      <4> HIDE DEF l
      <4> QED
        BY <1>1, <1>4, <2>9, <3>1, <3>2, <4>1 DEF LooksAreSound, CallShape
    <3>3. CASE Link(call[c].task) # l
      <4>1. ASSUME NEW k \in EntryLinks, k # l
            PROVE  entries'[k] = entries[k] /\ Unfound(k)' = Unfound(k)
        BY <1>1, <2>7, <4>1 DEF Unfound, TargetOf, Target
      <4>2. Link(call[c].task)' = Link(call[c].task)
        BY <1>1
      <4> HIDE DEF l
      <4> QED
        BY <1>1, <3>1, <3>3, <4>1 DEF LooksAreSound, CallShape
    <3> QED
      BY <3>2, <3>3
  <2> QED
    BY <1>2, <2>7, <2>8, <2>10 DEF LinksAreSound
<1>5. CASE l \notin EntryLinks /\ EditEntry(t)
  <2>1. \E new : entries' = [entries EXCEPT ![l] = new]
    BY <1>5 DEF EditEntry
  <2>2. entries' = entries
    BY <1>5, <2>1 DEF LinksAreSound
  <2> QED
    BY <1>3, <2>2
<1>6. \/ entries' = entries
      \/ Len(entries[l]) = 1 /\ EditEntry(t)
  BY DEF Edit, EditPart, MapFolders, remote
<1> QED
  BY <1>3, <1>4, <1>5, <1>6

(* After every step each link has the entries that are looked for. *)
LEMMA NextKeepsLinksSound ==
  ASSUME RowsTellTheRun, LinksAreSound, [Next]_vars
  PROVE  LinksAreSound'
<1>1. CASE Deploy
  <2>1. (HookBeside \/ call["hook"] = NoCall) /\ \E plan : BeginRun(NoApp, plan)
    BY <1>1 DEF Deploy, Deployed, LinksAreSound, OneAtATime
  <2>2. entries' = entries /\ ids' = ids
    BY <1>1 DEF Deploy, remote, install
  <2> QED
    BY <2>1, <2>2, BeginRunKeepsLinksSound
<1>2. CASE ProveReady \/ NeverReady \/ SayWhyNot
  <2>1. call["run"] # NoCall
    BY <1>2 DEF ProveReady, NeverReady, SayWhyNot, NoCall
  <2>2. run.on /\ DOMAIN call = Actor /\ (HookBeside \/ call["hook"] = NoCall)
    BY <2>1 DEF RowsTellTheRun, LinksAreSound, OneAtATime
  <2>3. entries' = entries /\ ids' = ids
    BY <1>2 DEF ProveReady, NeverReady, SayWhyNot, remote, install
  <2>4. Fresh(call'["run"]) /\ call'["hook"] = call["hook"]
    <3>1. CASE ProveReady
      <4>1. \E t, ready : call' = [call EXCEPT !["run"] = CallFor(t, ready)]
        BY <3>1 DEF ProveReady, SetCall
      <4> QED
        BY <2>2, <4>1, CallForIsFresh DEF Actor
    <3>2. CASE NeverReady \/ SayWhyNot
      <4>1. \E v : Conclude("run", v)
        BY <3>2 DEF NeverReady, SayWhyNot, Conclude
      <4>2. call'["hook"] = call["hook"]
        BY <3>2, <2>2 DEF NeverReady, SayWhyNot, FinalFrame, NextTask, EndRun, SetCall, Actor
      <4> QED
        BY <2>2, <4>1, <4>2, ConcludeIsFresh DEF Actor
    <3> QED
      BY <1>2, <3>1, <3>2
  <2> QED
    BY <2>2, <2>3, <2>4, RunAloneKeepsLinksSound
<1>3. CASE Step("run") \/ Step("hook")
  BY <1>3, StepKeepsLinksSound DEF Actor
<1>4. ASSUME NEW a \in App, Add(a)
      PROVE  LinksAreSound'
  <2>1. (HookBeside \/ call["hook"] = NoCall) /\ \E who, plan : BeginRun(who, plan)
    BY <1>4 DEF Add, Free
  <2>2. entries' = entries /\ ids \subseteq ids'
    BY <1>4 DEF Add, remote
  <2> QED
    BY <2>1, <2>2, BeginRunKeepsLinksSound
<1>5. ASSUME NEW a \in App, Disconnect(a)
      PROVE  LinksAreSound'
  <2>1. /\ call' = call /\ entries' = entries /\ ids' = ids \ {a} /\ a \notin Managed
        /\ ~run.on /\ (HookBeside \/ call["hook"] = NoCall)
    BY <1>5 DEF Disconnect, remote, Free
  <2>2. Vpn \in ids => Vpn \in ids'
    BY <2>1, CatalogAssumption
  <2>3. Fresh(call'["run"])
    BY <2>1, NoCallIsFresh DEF RowsTellTheRun
  <2> QED
    BY <2>1, <2>2, <2>3, RunAloneKeepsLinksSound
<1>6. ASSUME NEW a \in App, NEW newAnswers \in BOOLEAN, Reconnect(a, newAnswers)
      PROVE  LinksAreSound'
  <2>1. (HookBeside \/ call["hook"] = NoCall) /\ \E plan : BeginRun(a, plan)
    BY <1>6 DEF Reconnect, Free
  <2>2. entries' = entries /\ ids' = ids
    BY <1>6 DEF Reconnect, install
  <2> QED
    BY <2>1, <2>2, BeginRunKeepsLinksSound
<1>7. CASE Restart
  <2>1. /\ call' = [c \in Actor |-> IF c = "run" THEN CallFor(run.plan[1], {}) ELSE NoCall]
        /\ entries' = entries /\ ids' = ids
    BY <1>7 DEF Restart, remote, install
  <2>2. call'["hook"] = NoCall
    BY <2>1 DEF Actor
  <2>3. \A c \in Actor : Fresh(call'[c])
    BY <2>1, NoCallIsFresh, CallForIsFresh
  <2> QED
    BY <2>1, <2>2, <2>3, FreshStays, EntriesStaySound, NoCallKeepsToEntries
    DEF LinksAreSound, OneAtATime, HookKeepsToEntries
<1>8. CASE Refresh
  <2>1. PICK p \in Partner : p = Partners(ids)[1]
    BY <1>8 DEF Refresh, Partners, OnlyIf, Partner
  <2> DEFINE todo == OnlyIf(Partner \subseteq ids, <<"seerr", "radarr">>)
             new  == [NoCall EXCEPT !.task = SeerrArr[p], !.op = "list", !.todo = todo]
  <2>2. /\ (HookBeside \/ ~run.on) /\ rows # <<>>
        /\ run' = run /\ rows' = rows /\ entries' = entries /\ ids' = ids
    BY <1>8 DEF Refresh, Deployed, remote, install
  <2>3. Fresh(new) /\ new.op = "list" /\ new.task.kind = "seerr"
    BY DEF Fresh, CallShape, NoCall, NoSeen, SeerrArr, Task
  <2>4. call' = [call EXCEPT !["hook"] = new]
    BY <1>8, <2>1 DEF Refresh, SetCall
  <2> HIDE DEF new
  <2>5. call'["hook"] = new /\ call'["run"] = call["run"]
    BY <2>4 DEF RowsTellTheRun, Actor
  <2>6. (CallShape(call["hook"]) /\ LooksAreSound(call["hook"]))'
    BY <2>3, <2>5, FreshStays
  <2>7. (CallShape(call["run"]) /\ LooksAreSound(call["run"]))'
    BY <2>2, <2>5, LooksStaySound DEF LinksAreSound, Actor
  <2>8. \A c \in Actor : (CallShape(call[c]) /\ LooksAreSound(call[c]))'
    BY <2>6, <2>7 DEF Actor
  <2>9. OneAtATime' /\ HookKeepsToEntries'
    BY <2>2, <2>3, <2>5 DEF OneAtATime, HookKeepsToEntries
  <2> QED
    BY <2>2, <2>8, <2>9, EntriesStaySound DEF LinksAreSound
<1>9. CASE ComesUp \/ UNCHANGED vars
  <2>1. call' = call /\ run' = run /\ rows' = rows /\ entries' = entries /\ ids' = ids
    BY <1>9 DEF ComesUp, vars, remote, install
  <2>2. \A c \in Actor : (CallShape(call[c]) /\ LooksAreSound(call[c]))'
    BY <2>1, LooksStaySound DEF LinksAreSound
  <2> QED
    BY <2>1, <2>2, EntriesStaySound DEF LinksAreSound, OneAtATime, HookKeepsToEntries
<1>10. ASSUME NEW t \in Planned, Edit(t)
       PROVE  LinksAreSound'
  BY <1>10, EditKeepsLinksSound
<1> QED
  BY <1>1, <1>2, <1>3, <1>4, <1>5, <1>6, <1>7, <1>8, <1>9, <1>10 DEF Next, RunStep

(* Before the first run there is no entry. *)
LEMMA InitIsSound == Init => RowsTellTheRun /\ LinksAreSound
<1> SUFFICES ASSUME Init PROVE RowsTellTheRun /\ LinksAreSound
  OBVIOUS
<1>1. RowsTellTheRun
  BY DEF Init, RowsTellTheRun, NoOne, NoCall, Actor, Finals
<1>2. /\ entries = [l \in EntryLinks |-> <<>>] /\ ~run.on /\ call = [c \in Actor |-> NoCall]
  BY DEF Init, NoOne
<1>3. \A c \in Actor : Fresh(call[c])
  BY <1>2, NoCallIsFresh
<1>4. \A c \in Actor : CallShape(call[c]) /\ LooksAreSound(call[c])
  BY <1>3, FreshIsSound
<1>5. \A l \in EntryLinks : EntriesAreSound(l)
  BY <1>2 DEF EntriesAreSound
<1>6. entries \in [EntryLinks -> Seq(Entry)]
  BY <1>2
<1> QED
  BY <1>1, <1>2, <1>4, <1>5, <1>6, NoCallKeepsToEntries
  DEF LinksAreSound, OneAtATime, HookKeepsToEntries, Actor

(* Of two sound entries the first has neither the name nor the address of    *)
(* the second.                                                               *)
LEMMA SoundAreNotDoubled ==
  ASSUME LinksAreSound
  PROVE  SecondOnlyBesideRenamed
<1> SUFFICES ASSUME NEW l \in EntryLinks, ~Shared(l),
                    NEW i \in DOMAIN entries[l], NEW j \in DOMAIN entries[l], i < j
             PROVE  ~entries[l][i].named /\ entries[l][i].points # entries[l][j].points
  BY DEF SecondOnlyBesideRenamed, Shared
<1>1. PICK seq : seq = entries[l]
  OBVIOUS
<1>2. /\ seq \in Seq(Entry) /\ Len(seq) <= 2
      /\ Len(seq) = 2 => ~seq[1].named /\ seq[1].points # seq[2].points
  BY <1>1, Zenon DEF LinksAreSound, EntriesAreSound
<1>3. seq \in Seq(Entry) /\ Len(seq) <= 2
  BY <1>2, Zenon
<1>4. Len(seq) \in Nat /\ DOMAIN seq = 1 .. Len(seq)
  BY <1>3, LenProperties
<1>5. PICK n \in Nat : n = Len(seq)
  BY <1>4
<1>6. i \in 1 .. n /\ j \in 1 .. n /\ n <= 2
  BY <1>1, <1>3, <1>4, <1>5
<1>7. i = 1 /\ j = 2 /\ n = 2
  BY <1>6
<1> QED
  BY <1>1, <1>2, <1>5, <1>7, Zenon

(* Retries, restarts, answers that are lost and a VPN that comes later never *)
(* make a second entry beside one that still has its name or its address; a  *)
(* second one comes only of the owner's renaming the first, which then       *)
(* points elsewhere.  While the hook may overlap with a run nothing is said  *)
(* of Seerr's.                                                               *)
THEOREM NoSecondBesideOurs == Spec => []SecondOnlyBesideRenamed
<1>1. Init => RowsTellTheRun /\ LinksAreSound
  BY InitIsSound
<1>2. RowsTellTheRun /\ LinksAreSound /\ [Next]_vars => RowsTellTheRun' /\ LinksAreSound'
  BY NextKeepsTheReport, NextKeepsLinksSound
<1>3. RowsTellTheRun /\ LinksAreSound => SecondOnlyBesideRenamed
  BY SoundAreNotDoubled
<1> QED
  BY <1>1, <1>2, <1>3, PTL DEF Spec

------------------------------------------------------------------------------
(* What the plan holds *)

(* The apps a step concerns, told from its link. *)
AboutOf(kind, of) ==
  CASE kind = "app-sync"                  -> {"prowlarr", of}
    [] kind = "download-client"           -> {of, "qbittorrent"}
    [] kind \in {"media-server", "seerr"} -> {"seerr", of}
    [] OTHER                              -> {of}

TaskOf(kind, of) ==
  CASE kind = "explain"                   -> Explain(of)
    [] kind = "app-sync"                  -> Task(kind, of, <<"prowlarr", of>>)
    [] kind = "download-client"           -> Task(kind, of, <<of, "qbittorrent">>)
    [] kind \in {"media-server", "seerr"} -> Task(kind, of, <<"seerr", of>>)
    [] OTHER                              -> Task(kind, of, <<of>>)

(* A step is what its link says it is. *)
PlannedTask ==
  {t \in WiringTask : t = TaskOf(t.kind, t.of) /\ t.about = AboutOf(t.kind, t.of)}

(* The media server Seerr is connected to. *)
IsFirstServer(m, S) ==
  \/ m = "plex"
  \/ m = "jellyfin" /\ "plex" \notin S
  \/ m = "existing-plex" /\ "plex" \notin S /\ "jellyfin" \notin S

(* An install calls for a step. *)
CallsFor(S, g, t) ==
  /\ CASE t.kind = "explain" /\ t.of = "prowlarr" -> "prowlarr" \in S /\ Partner \cap S = {}
       [] t.kind = "explain" /\ t.of # "prowlarr" -> "prowlarr" \notin S
       [] t.kind = "app-sync"                     -> "prowlarr" \in S
       [] t.kind = "download-client"              -> "qbittorrent" \in S
       [] t.kind = "graphics"                     -> g
       [] t.kind = "media-server"                 -> "seerr" \in S /\ IsFirstServer(t.of, S)
       [] t.kind = "seerr"                        -> "seerr" \in S
       [] OTHER                                   -> TRUE
  /\ t.of \in S

(* The steps of some kinds an install calls for, of which one app's are kept. *)
Wanted(app, S, g, kinds) ==
  {t \in PlannedTask : t.kind \in kinds /\ CallsFor(S, g, t) /\ (app = NoApp \/ app \in t.about)}

(* The steps of two sections are those of both together. *)
LEMMA TasksOfConcat ==
  ASSUME NEW s \in Seq(WiringTask), NEW u \in Seq(WiringTask)
  PROVE  Tasks(s \o u) = Tasks(s) \cup Tasks(u)
<1>1. /\ s \o u \in Seq(WiringTask) /\ Len(s \o u) = Len(s) + Len(u)
      /\ \A i \in 1 .. Len(s) + Len(u) : (s \o u)[i] = IF i <= Len(s) THEN s[i] ELSE u[i - Len(s)]
  BY ConcatProperties
<1>2. Len(s) \in Nat /\ Len(u) \in Nat /\ DOMAIN s = 1 .. Len(s) /\ DOMAIN u = 1 .. Len(u)
      /\ DOMAIN (s \o u) = 1 .. Len(s) + Len(u)
  BY <1>1
<1>3. ASSUME NEW x \in Tasks(s \o u) PROVE x \in Tasks(s) \cup Tasks(u)
  <2>1. PICK i \in 1 .. Len(s) + Len(u) : x = (s \o u)[i]
    BY <1>2 DEF Tasks
  <2>2. CASE i <= Len(s)
    <3>1. i \in 1 .. Len(s) /\ x = s[i]
      BY <1>1, <1>2, <2>1, <2>2
    <3> QED
      BY <1>2, <3>1 DEF Tasks
  <2>3. CASE i > Len(s)
    <3>1. i - Len(s) \in 1 .. Len(u) /\ x = u[i - Len(s)]
      BY <1>1, <1>2, <2>1, <2>3
    <3> QED
      BY <1>2, <3>1 DEF Tasks
  <2> QED
    BY <1>2, <2>2, <2>3
<1>4. ASSUME NEW x \in Tasks(s) PROVE x \in Tasks(s \o u)
  <2>1. PICK i \in 1 .. Len(s) : x = s[i]
    BY <1>2 DEF Tasks
  <2>2. i \in 1 .. Len(s) + Len(u) /\ (s \o u)[i] = x
    BY <1>1, <1>2, <2>1
  <2> QED
    BY <1>2, <2>2 DEF Tasks
<1>5. ASSUME NEW x \in Tasks(u) PROVE x \in Tasks(s \o u)
  <2>1. PICK i \in 1 .. Len(u) : x = u[i]
    BY <1>2 DEF Tasks
  <2>2. PICK j : j = Len(s) + i
    OBVIOUS
  <2>3. j \in 1 .. Len(s) + Len(u) /\ ~(j <= Len(s)) /\ j - Len(s) = i
    BY <1>2, <2>2
  <2>4. (s \o u)[j] = x
    BY <1>1, <2>1, <2>3
  <2> QED
    BY <1>2, <2>3, <2>4 DEF Tasks
<1> QED
  BY <1>3, <1>4, <1>5

(* The same, of several sections. *)
LEMMA TasksOfSections ==
  /\ \A s, u \in Seq(WiringTask) : Tasks(s \o u) = Tasks(s) \cup Tasks(u)
  /\ \A a, b, c, d \in Seq(WiringTask) :
       Tasks(a \o b \o c \o d) = Tasks(a) \cup Tasks(b) \cup Tasks(c) \cup Tasks(d)
<1>1. \A s, u \in Seq(WiringTask) : Tasks(s \o u) = Tasks(s) \cup Tasks(u)
  BY TasksOfConcat
<1>2. ASSUME NEW a \in Seq(WiringTask), NEW b \in Seq(WiringTask), NEW c \in Seq(WiringTask),
             NEW d \in Seq(WiringTask)
      PROVE  Tasks(a \o b \o c \o d) = Tasks(a) \cup Tasks(b) \cup Tasks(c) \cup Tasks(d)
  <2>1. PICK f \in Seq(WiringTask) : f = a \o b
    BY ConcatIsASequence
  <2>2. PICK h \in Seq(WiringTask) : h = f \o c
    BY ConcatIsASequence
  <2>3. Tasks(f) = Tasks(a) \cup Tasks(b)
    BY <1>1, <2>1
  <2>4. Tasks(h) = Tasks(f) \cup Tasks(c)
    BY <1>1, <2>2
  <2>5. Tasks(h \o d) = Tasks(h) \cup Tasks(d)
    BY <1>1
  <2> QED
    BY <2>1, <2>2, <2>3, <2>4, <2>5
<1> QED
  BY <1>1, <1>2

Chosen(app, test, t) == {u \in {t} : test /\ (app = NoApp \/ app \in t.about)}

(* Keep keeps the step that is wanted. *)
LEMMA TasksOfKeep ==
  ASSUME NEW app, NEW test, NEW t
  PROVE  Tasks(Keep(app, test, t)) = Chosen(app, test, t)
<1>1. CASE test /\ (app = NoApp \/ app \in t.about)
  <2>1. Keep(app, test, t) = <<t>>
    BY <1>1 DEF Keep, OnlyIf
  <2>2. {<<t>>[i] : i \in DOMAIN <<t>>} = {t}
    OBVIOUS
  <2>3. Chosen(app, test, t) = {t}
    BY <1>1 DEF Chosen
  <2> QED
    BY <2>1, <2>2, <2>3 DEF Tasks
<1>2. CASE ~(test /\ (app = NoApp \/ app \in t.about))
  <2>1. Keep(app, test, t) = <<>>
    BY <1>2 DEF Keep, OnlyIf
  <2>2. DOMAIN <<>> = {}
    OBVIOUS
  <2> QED
    BY <1>2, <2>1, <2>2 DEF Tasks, Chosen
<1> QED
  BY <1>1, <1>2

(* Of what is done for each arr app, the installed ones are kept. *)
LEMMA TasksOfForEach ==
  ASSUME NEW app, NEW S, NEW task \in [Partner -> WiringTask]
  PROVE  Tasks(ForEachPartner(app, S, task)) =
           {task[p] : p \in {q \in Partner : q \in S /\ (app = NoApp \/ app \in task[q].about)}}
<1>1. task["sonarr"] \in WiringTask /\ task["radarr"] \in WiringTask
  BY DEF Partner
<1>2. Tasks(ForEachPartner(app, S, task)) =
        Chosen(app, "sonarr" \in S, task["sonarr"]) \cup Chosen(app, "radarr" \in S, task["radarr"])
  BY <1>1, KeepIsASequence, TasksOfConcat, TasksOfKeep DEF ForEachPartner
<1> QED
  BY <1>2 DEF Chosen, Partner

(* An empty section has no steps. *)
LEMMA NoTasks == Tasks(<<>>) = {}
<1>1. DOMAIN <<>> = {}
  OBVIOUS
<1> QED
  BY <1>1 DEF Tasks

(* What the plan is made of are steps told by their links. *)
LEMMA KnownTasks ==
  /\ \A p \in Partner : /\ Explanation[p] \in PlannedTask /\ AppSync[p] \in PlannedTask
                        /\ DownloadClient[p] \in PlannedTask /\ RootFolder[p] \in PlannedTask
                        /\ SeerrArr[p] \in PlannedTask
  /\ Explain("prowlarr") \in PlannedTask
  /\ Task("downloader-settings", "qbittorrent", <<"qbittorrent">>) \in PlannedTask
  /\ \A m \in {"plex", "jellyfin", "existing-plex"} :
       SeerrServer(m) \in PlannedTask /\ Task("libraries", m, <<m>>) \in PlannedTask
  /\ Task("direct-play", "plex", <<"plex">>) \in PlannedTask
  /\ Task("graphics", "jellyfin", <<"jellyfin">>) \in PlannedTask
<1>1. ASSUME NEW a, NEW b PROVE {<<a>>[i] : i \in DOMAIN <<a>>} = {a} /\ {<<a, b>>[i] : i \in DOMAIN <<a, b>>} = {a, b}
  OBVIOUS
<1>2. ASSUME NEW kind \in Kinds \ {"explain"}, NEW of \in WiredApps, MayBeAbout(kind, of)
      PROVE  TaskOf(kind, of) \in PlannedTask
  <2> DEFINE t == TaskOf(kind, of)
  <2>1. t.kind = kind /\ t.of = of /\ t.about = AboutOf(kind, of)
    BY <1>1, <1>2 DEF TaskOf, AboutOf, Task
  <2>2. t \in WiringTask
    <3>1. /\ <<"prowlarr", of>> \in Seq(WiredApps) /\ <<of, "qbittorrent">> \in Seq(WiredApps)
          /\ <<of>> \in Seq(WiredApps) /\ <<"seerr", of>> \in Seq(WiredApps)
      BY DEF WiredApps
    <3> QED
      BY <1>2, <3>1, TaskIsOne DEF TaskOf
  <2> HIDE DEF t
  <2>3. t = TaskOf(t.kind, t.of)
    BY <2>1 DEF t
  <2> QED
    BY <2>1, <2>2, <2>3 DEF PlannedTask, t
<1>3. ASSUME NEW of \in {"prowlarr", "sonarr", "radarr"}
      PROVE  Explain(of) \in PlannedTask
  <2>1. PICK t : t = Task("explain", of, <<>>)
    OBVIOUS
  <2>2. t.kind = "explain" /\ t.of = of /\ DOMAIN t = {"kind", "of", "involved", "about"}
    BY <2>1 DEF Task
  <2>3. PICK u : u = [t EXCEPT !.about = {of}]
    OBVIOUS
  <2>4. u.kind = "explain" /\ u.of = of /\ u.about = {of}
    BY <2>2, <2>3
  <2>5. u = Explain(of)
    BY <2>1, <2>3 DEF Explain
  <2> QED
    BY <2>4, <2>5, ExplainIsOne DEF PlannedTask, TaskOf, AboutOf
<1>4. ASSUME NEW p \in Partner
      PROVE  /\ Explanation[p] \in PlannedTask /\ AppSync[p] \in PlannedTask
             /\ DownloadClient[p] \in PlannedTask /\ RootFolder[p] \in PlannedTask
             /\ SeerrArr[p] \in PlannedTask
  <2>1. \A kind \in {"app-sync", "download-client", "root-folder", "seerr"} :
          kind \in Kinds \ {"explain"} /\ MayBeAbout(kind, p)
    BY DEF Kinds, MayBeAbout, Partner
  <2>2. \A kind \in {"app-sync", "download-client", "root-folder", "seerr"} :
          TaskOf(kind, p) \in PlannedTask
    BY <1>2, <2>1 DEF Partner, WiredApps
  <2>3. /\ AppSync[p] = TaskOf("app-sync", p) /\ DownloadClient[p] = TaskOf("download-client", p)
        /\ RootFolder[p] = TaskOf("root-folder", p) /\ SeerrArr[p] = TaskOf("seerr", p)
        /\ Explanation[p] = Explain(p)
    BY DEF AppSync, DownloadClient, RootFolder, SeerrArr, Explanation, TaskOf
  <2>4. Explain(p) \in PlannedTask
    BY <1>3 DEF Partner
  <2> QED
    BY <2>2, <2>3, <2>4
<1>5. ASSUME NEW m \in {"plex", "jellyfin", "existing-plex"}
      PROVE  SeerrServer(m) \in PlannedTask /\ Task("libraries", m, <<m>>) \in PlannedTask
  <2>1. \A kind \in {"libraries", "media-server"} :
          kind \in Kinds \ {"explain"} /\ MayBeAbout(kind, m) /\ m \in WiredApps
    BY DEF Kinds, MayBeAbout, WiredApps
  <2>2. TaskOf("libraries", m) \in PlannedTask /\ TaskOf("media-server", m) \in PlannedTask
    BY <1>2, <2>1
  <2> QED
    BY <2>2 DEF TaskOf, SeerrServer
<1>6. /\ Task("downloader-settings", "qbittorrent", <<"qbittorrent">>) \in PlannedTask
      /\ Task("direct-play", "plex", <<"plex">>) \in PlannedTask
      /\ Task("graphics", "jellyfin", <<"jellyfin">>) \in PlannedTask
  <2>1. /\ MayBeAbout("downloader-settings", "qbittorrent") /\ MayBeAbout("direct-play", "plex")
        /\ MayBeAbout("graphics", "jellyfin")
        /\ {"downloader-settings", "direct-play", "graphics"} \subseteq Kinds \ {"explain"}
        /\ {"qbittorrent", "plex", "jellyfin"} \subseteq WiredApps
    BY DEF MayBeAbout, Kinds, WiredApps
  <2>2. /\ TaskOf("downloader-settings", "qbittorrent") \in PlannedTask
        /\ TaskOf("direct-play", "plex") \in PlannedTask
        /\ TaskOf("graphics", "jellyfin") \in PlannedTask
    BY <1>2, <2>1
  <2> QED
    BY <2>2 DEF TaskOf
<1> QED
  BY <1>3, <1>4, <1>5, <1>6

(* No two steps have the same link. *)
LEMMA LinkTellsTask ==
  ASSUME NEW t \in PlannedTask, NEW u \in PlannedTask, Link(t) = Link(u)
  PROVE  t = u
BY DEF PlannedTask, Link

------------------------------------------------------------------------------
(* Prowlarr is told of each arr app, or the plan says why it is not. *)
LEMMA AppSyncsHold ==
  ASSUME NEW app, NEW S, NEW g
  PROVE  Tasks(AppSyncs(app, S)) = Wanted(app, S, g, {"explain", "app-sync"})
<1> DEFINE W == Wanted(app, S, g, {"explain", "app-sync"})
<1>1. \A t \in PlannedTask : t.kind = "app-sync" => t.of \in Partner /\ t = AppSync[t.of]
  BY DEF PlannedTask, WiringTask, MayBeAbout, Partner, TaskOf, AppSync
<1>2. \A t \in PlannedTask : t.kind = "explain" =>
        /\ t.of \in Partner \cup {"prowlarr"} /\ t = Explain(t.of)
        /\ t.of \in Partner => t = Explanation[t.of]
  BY DEF PlannedTask, WiringTask, MayBeAbout, Partner, TaskOf, Explanation
<1>3. \A p \in Partner :
        /\ AppSync[p].kind = "app-sync" /\ AppSync[p].of = p /\ AppSync[p] \in PlannedTask
        /\ Explanation[p] \in PlannedTask /\ Explanation[p].kind = "explain" /\ Explanation[p].of = p
  <2>1. \A p \in Partner : AppSync[p].kind = "app-sync" /\ AppSync[p].of = p
    BY DEF AppSync, Task
  <2>2. \A p \in Partner : Explanation[p].kind = "explain" /\ Explanation[p].of = p
    BY DEF Explanation, Explain, Task
  <2> QED
    BY <2>1, <2>2, KnownTasks
<1>4. Explain("prowlarr").kind = "explain" /\ Explain("prowlarr").of = "prowlarr"
      /\ Explain("prowlarr") \in PlannedTask
  BY KnownTasks DEF Explain, Task
<1>5. Partner = {"sonarr", "radarr"} /\ "prowlarr" \notin Partner
  BY DEF Partner
<1>6. CASE "prowlarr" \notin S
  <2>1. Tasks(AppSyncs(app, S)) =
          {Explanation[p] : p \in {q \in Partner : q \in S /\ (app = NoApp \/ app \in Explanation[q].about)}}
    BY <1>6, PartnerTasks, TasksOfForEach DEF AppSyncs
  <2> QED
    BY <1>1, <1>2, <1>3, <1>5, <1>6, <2>1 DEF Wanted, CallsFor
<1>7. CASE "prowlarr" \in S /\ Partner \cap S = {}
  <2>1. Partners(S) = <<>>
    BY <1>5, <1>7 DEF Partners, OnlyIf
  <2>2. Tasks(AppSyncs(app, S)) = Chosen(app, TRUE, Explain("prowlarr"))
    BY <1>7, <2>1, TasksOfKeep DEF AppSyncs
  <2> QED
    BY <1>1, <1>2, <1>4, <1>5, <1>7, <2>2 DEF Wanted, CallsFor, Chosen
<1>8. CASE "prowlarr" \in S /\ Partner \cap S # {}
  <2>1. Partners(S) # <<>>
    BY <1>5, <1>8 DEF Partners, OnlyIf
  <2>2. Tasks(AppSyncs(app, S)) =
          {AppSync[p] : p \in {q \in Partner : q \in S /\ (app = NoApp \/ app \in AppSync[q].about)}}
    BY <1>8, <2>1, PartnerTasks, TasksOfForEach DEF AppSyncs
  <2> QED
    BY <1>1, <1>2, <1>3, <1>5, <1>8, <2>2 DEF Wanted, CallsFor
<1> QED
  BY <1>6, <1>7, <1>8

(* A step for each arr app that is installed. *)
LEMMA PartnersHold ==
  ASSUME NEW app, NEW S, NEW g, NEW kind \in {"download-client", "root-folder", "seerr"},
         NEW task \in [Partner -> WiringTask],
         \A p \in Partner : task[p] = TaskOf(kind, p) /\ task[p] \in PlannedTask /\ task[p].kind = kind
                            /\ task[p].of = p,
         kind = "download-client" => "qbittorrent" \in S, kind = "seerr" => "seerr" \in S
  PROVE  Tasks(ForEachPartner(app, S, task)) = Wanted(app, S, g, {kind})
<1>1. \A t \in PlannedTask : t.kind = kind => t.of \in Partner /\ t = task[t.of]
  BY DEF PlannedTask, WiringTask, MayBeAbout, Partner
<1>2. Tasks(ForEachPartner(app, S, task)) =
        {task[p] : p \in {q \in Partner : q \in S /\ (app = NoApp \/ app \in task[q].about)}}
  BY TasksOfForEach
<1>3. \A p \in Partner : CallsFor(S, g, task[p]) <=> p \in S
  BY DEF CallsFor
<1> QED
  BY <1>1, <1>2, <1>3 DEF Wanted

(* The downloads are set up where qBittorrent is installed. *)
LEMMA DownloadsHold ==
  ASSUME NEW app, NEW S, NEW g
  PROVE  Tasks(Downloads(app, S)) = Wanted(app, S, g, {"downloader-settings", "download-client"})
<1> DEFINE set == Task("downloader-settings", "qbittorrent", <<"qbittorrent">>)
<1>1. \A t \in PlannedTask : t.kind = "downloader-settings" => t.of = "qbittorrent" /\ t = set
  BY DEF PlannedTask, WiringTask, MayBeAbout, TaskOf
<1>2. set \in PlannedTask /\ set.kind = "downloader-settings" /\ set.of = "qbittorrent"
  BY KnownTasks DEF Task
<1>3. \A p \in Partner : /\ DownloadClient[p] = TaskOf("download-client", p)
                         /\ DownloadClient[p].kind = "download-client" /\ DownloadClient[p].of = p
  BY DEF DownloadClient, TaskOf, Task
<1> HIDE DEF set
<1>4. CASE "qbittorrent" \in S
  <2>1. Tasks(ForEachPartner(app, S, DownloadClient)) = Wanted(app, S, g, {"download-client"})
    BY <1>3, <1>4, KnownTasks, PartnerTasks, PartnersHold
  <2>2. Tasks(Keep(app, TRUE, set)) = Wanted(app, S, g, {"downloader-settings"})
    <3>1. CallsFor(S, g, set)
      BY <1>2, <1>4 DEF CallsFor
    <3>2. Tasks(Keep(app, TRUE, set)) = Chosen(app, TRUE, set)
      BY TasksOfKeep
    <3> QED
      BY <1>1, <1>2, <3>1, <3>2 DEF Chosen, Wanted
  <2>3. /\ Keep(app, TRUE, set) \in Seq(WiringTask)
        /\ ForEachPartner(app, S, DownloadClient) \in Seq(WiringTask)
    BY <1>2, KeepIsASequence, PartnerTasks, ForEachIsASequence DEF PlannedTask
  <2>4. Tasks(Downloads(app, S)) =
          Tasks(Keep(app, TRUE, set)) \cup Tasks(ForEachPartner(app, S, DownloadClient))
    BY <1>4, <2>3, TasksOfConcat DEF Downloads, set
  <2> QED
    BY <2>1, <2>2, <2>4 DEF Wanted
<1>5. CASE "qbittorrent" \notin S
  <2>1. Tasks(Downloads(app, S)) = {}
    BY <1>5, NoTasks DEF Downloads
  <2> QED
    BY <1>1, <1>5, <2>1 DEF Wanted, CallsFor
<1> QED
  BY <1>4, <1>5

(* Every media server has its libraries, and what goes with them. *)
LEMMA LibrariesHold ==
  ASSUME NEW app, NEW S, NEW g
  PROVE  /\ Tasks(Libraries(app, S, g)) = Wanted(app, S, g, {"libraries", "direct-play", "graphics"})
<1> DEFINE For(kind, m, test) == Keep(app, m \in S /\ test, Task(kind, m, <<m>>))
           Found(kind, m) == {t \in Wanted(app, S, g, {kind}) : t.of = m}
<1>1. ASSUME NEW kind \in {"libraries", "direct-play", "graphics"}, NEW m, NEW test,
             Task(kind, m, <<m>>) \in PlannedTask, test <=> (kind = "graphics" => g)
      PROVE  For(kind, m, test) \in Seq(WiringTask) /\ Tasks(For(kind, m, test)) = Found(kind, m)
  <2> DEFINE u == Task(kind, m, <<m>>)
  <2>1. u.kind = kind /\ u.of = m /\ u \in PlannedTask
    BY <1>1 DEF Task
  <2>2. \A t \in PlannedTask : t.kind = kind /\ t.of = m => t = u
    BY <1>1, <2>1, LinkTellsTask DEF Link
  <2>3. For(kind, m, test) \in Seq(WiringTask)
    BY <1>1, KeepIsASequence DEF PlannedTask
  <2>4. Tasks(For(kind, m, test)) = Chosen(app, m \in S /\ test, u)
    BY TasksOfKeep
  <2> HIDE DEF u, For
  <2>5. CallsFor(S, g, u) <=> m \in S /\ test
    BY <1>1, <2>1 DEF CallsFor
  <2>6. Chosen(app, m \in S /\ test, u) = Found(kind, m)
    BY <2>1, <2>2, <2>5 DEF Chosen, Wanted
  <2> QED
    BY <2>3, <2>4, <2>6
<1> HIDE DEF For
<1>2. /\ \A m \in {"plex", "jellyfin", "existing-plex"} :
           For("libraries", m, TRUE) \in Seq(WiringTask)
           /\ Tasks(For("libraries", m, TRUE)) = Found("libraries", m)
      /\ For("direct-play", "plex", TRUE) \in Seq(WiringTask)
      /\ Tasks(For("direct-play", "plex", TRUE)) = Found("direct-play", "plex")
      /\ For("graphics", "jellyfin", g) \in Seq(WiringTask)
      /\ Tasks(For("graphics", "jellyfin", g)) = Found("graphics", "jellyfin")
  <2> HIDE DEF Found
  <2> QED
    BY <1>1, KnownTasks
<1>3. Libraries(app, S, g) =
        For("libraries", "plex", TRUE) \o For("direct-play", "plex", TRUE)
          \o For("libraries", "jellyfin", TRUE) \o For("graphics", "jellyfin", g)
          \o For("libraries", "existing-plex", TRUE)
  BY DEF Libraries, For
<1>4. Tasks(Libraries(app, S, g)) =
        Found("libraries", "plex") \cup Found("direct-play", "plex") \cup Found("libraries", "jellyfin")
          \cup Found("graphics", "jellyfin") \cup Found("libraries", "existing-plex")
  <2> HIDE DEF Found
  <2>1. PICK a \in Seq(WiringTask), b \in Seq(WiringTask), c \in Seq(WiringTask),
             d \in Seq(WiringTask), e \in Seq(WiringTask) :
          /\ a = For("libraries", "plex", TRUE) /\ b = For("direct-play", "plex", TRUE)
          /\ c = For("libraries", "jellyfin", TRUE) /\ d = For("graphics", "jellyfin", g)
          /\ e = For("libraries", "existing-plex", TRUE)
    BY <1>2
  <2>2. PICK f \in Seq(WiringTask) : f = a \o b \o c \o d
    BY ConcatIsASequence
  <2>3. Tasks(a \o b \o c \o d \o e) = Tasks(a) \cup Tasks(b) \cup Tasks(c) \cup Tasks(d) \cup Tasks(e)
    <3>1. Tasks(f) = Tasks(a) \cup Tasks(b) \cup Tasks(c) \cup Tasks(d)
      BY <2>2, TasksOfSections
    <3>2. Tasks(f \o e) = Tasks(f) \cup Tasks(e)
      BY TasksOfSections
    <3> QED
      BY <2>2, <3>1, <3>2
  <2> QED
    BY <1>2, <1>3, <2>1, <2>3
<1>5. \A t \in PlannedTask :
        /\ t.kind = "libraries" => t.of \in {"plex", "jellyfin", "existing-plex"}
        /\ t.kind = "direct-play" => t.of = "plex"
        /\ t.kind = "graphics" => t.of = "jellyfin"
  BY DEF PlannedTask, WiringTask, MayBeAbout
<1> QED
  BY <1>4, <1>5 DEF Wanted

(* Seerr is connected to one media server and to every arr app. *)
LEMMA SeerrTasksHold ==
  ASSUME NEW app, NEW S, NEW g
  PROVE  Tasks(SeerrTasks(app, S)) = Wanted(app, S, g, {"media-server", "seerr"})
<1> DEFINE Servers == {"plex", "jellyfin", "existing-plex"}
<1>1. \A t \in PlannedTask : t.kind = "media-server" => t.of \in Servers
  BY DEF PlannedTask, WiringTask, MayBeAbout
<1>2. \A p \in Partner : SeerrArr[p] = TaskOf("seerr", p) /\ SeerrArr[p].kind = "seerr" /\ SeerrArr[p].of = p
  BY DEF SeerrArr, TaskOf, Task
<1>3. CASE "seerr" \notin S
  <2>1. Tasks(SeerrTasks(app, S)) = {}
    BY <1>3, NoTasks DEF SeerrTasks
  <2> QED
    BY <1>3, <2>1 DEF Wanted, CallsFor
<1>4. CASE "seerr" \in S
  <2>1. PICK arrs \in Seq(WiringTask) : arrs = ForEachPartner(app, S, SeerrArr)
    BY PartnerTasks, ForEachIsASequence
  <2>2. Tasks(arrs) = Wanted(app, S, g, {"seerr"})
    BY <1>2, <1>4, <2>1, KnownTasks, PartnerTasks, PartnersHold
  <2>3. CASE S \cap Servers = {}
    <3>1. MediaServers(S) = <<>>
      BY <2>3 DEF MediaServers, OnlyIf
    <3>2. SeerrTasks(app, S) = <<>> \o arrs
      BY <1>4, <2>1, <3>1 DEF SeerrTasks
    <3>3. Tasks(SeerrTasks(app, S)) = Tasks(arrs)
      BY <3>2, ConcatIsASequence, NoTasks, TasksOfConcat
    <3>4. Wanted(app, S, g, {"media-server"}) = {}
      BY <1>1, <2>3 DEF Wanted, CallsFor
    <3> QED
      BY <2>2, <3>3, <3>4 DEF Wanted
  <2>4. ASSUME NEW m \in Servers \cap S, IsFirstServer(m, S)
        PROVE  Tasks(SeerrTasks(app, S)) = Wanted(app, S, g, {"media-server", "seerr"})
    <3>1. MediaServers(S) # <<>> /\ MediaServers(S)[1] = m
      BY <2>4 DEF MediaServers, OnlyIf, IsFirstServer
    <3>2. SeerrTasks(app, S) = Keep(app, TRUE, SeerrServer(m)) \o arrs
      BY <1>4, <2>1, <3>1 DEF SeerrTasks
    <3>3. Keep(app, TRUE, SeerrServer(m)) \in Seq(WiringTask)
      BY KnownTasks, KeepIsASequence DEF PlannedTask
    <3>4. Tasks(SeerrTasks(app, S)) = Chosen(app, TRUE, SeerrServer(m)) \cup Tasks(arrs)
      <4>1. Tasks(Keep(app, TRUE, SeerrServer(m)) \o arrs)
              = Tasks(Keep(app, TRUE, SeerrServer(m))) \cup Tasks(arrs)
        BY <3>3, TasksOfSections
      <4> QED
        BY <3>2, <4>1, TasksOfKeep
    <3>5. SeerrServer(m) \in PlannedTask /\ SeerrServer(m).kind = "media-server" /\ SeerrServer(m).of = m
      BY KnownTasks DEF SeerrServer, Task
    <3>6. \A t \in PlannedTask : t.kind = "media-server" =>
            (CallsFor(S, g, t) <=> t = SeerrServer(m))
      <4> SUFFICES ASSUME NEW t \in PlannedTask, t.kind = "media-server"
                   PROVE  CallsFor(S, g, t) <=> t = SeerrServer(m)
        OBVIOUS
      <4>1. t = SeerrServer(m) <=> t.of = m
        BY <3>5, LinkTellsTask DEF Link
      <4>2. CallsFor(S, g, t) <=> IsFirstServer(t.of, S) /\ t.of \in S
        BY <1>4 DEF CallsFor
      <4>3. IsFirstServer(t.of, S) /\ t.of \in S <=> t.of = m
        BY <1>1, <2>4 DEF IsFirstServer
      <4> QED
        BY <4>1, <4>2, <4>3
    <3>7. Chosen(app, TRUE, SeerrServer(m)) = Wanted(app, S, g, {"media-server"})
      BY <3>5, <3>6 DEF Chosen, Wanted
    <3> QED
      BY <2>2, <3>4, <3>7 DEF Wanted
  <2>5. S \cap Servers # {} => \E m \in Servers \cap S : IsFirstServer(m, S)
    BY DEF IsFirstServer
  <2> QED
    BY <2>3, <2>4, <2>5
<1> QED
  BY <1>3, <1>4

(* The plan for an app holds what the install calls for and that app is      *)
(* concerned in; and Seerr is seen to after the libraries it is to show.     *)
LEMMA PlanHolds ==
  ASSUME NEW app, NEW S, NEW g
  PROVE  /\ Tasks(PlanFor(app, S, g)) = Wanted(app, S, g, Kinds)
         /\ \A i, j \in 1 .. Len(PlanFor(app, S, g)) :
              PlanFor(app, S, g)[i].kind = "libraries" /\ PlanFor(app, S, g)[j].kind = "media-server"
                => i < j
<1>1. PICK a \in Seq(WiringTask), b \in Seq(WiringTask), c \in Seq(WiringTask),
           d \in Seq(WiringTask), e \in Seq(WiringTask) :
        /\ a = AppSyncs(app, S) /\ b = Downloads(app, S) /\ c = RootFolders(app, S)
        /\ d = Libraries(app, S, g) /\ e = SeerrTasks(app, S)
  BY SectionsAreSequences
<1>2. /\ Tasks(a) = Wanted(app, S, g, {"explain", "app-sync"})
      /\ Tasks(b) = Wanted(app, S, g, {"downloader-settings", "download-client"})
      /\ Tasks(c) = Wanted(app, S, g, {"root-folder"})
      /\ Tasks(d) = Wanted(app, S, g, {"libraries", "direct-play", "graphics"})
      /\ Tasks(e) = Wanted(app, S, g, {"media-server", "seerr"})
  <2>1. \A p \in Partner : /\ RootFolder[p] = TaskOf("root-folder", p)
                           /\ RootFolder[p].kind = "root-folder" /\ RootFolder[p].of = p
    BY DEF RootFolder, TaskOf, Task
  <2>2. Tasks(c) = Wanted(app, S, g, {"root-folder"})
    BY <1>1, <2>1, KnownTasks, PartnerTasks, PartnersHold DEF RootFolders
  <2> QED
    BY <1>1, <2>2, AppSyncsHold, DownloadsHold, LibrariesHold, SeerrTasksHold
<1>3. PICK f \in Seq(WiringTask) : f = a \o b \o c \o d
  BY ConcatIsASequence
<1>4. PlanFor(app, S, g) = f \o e
  BY <1>1, <1>3 DEF PlanFor
<1>5. Tasks(f) = Tasks(a) \cup Tasks(b) \cup Tasks(c) \cup Tasks(d)
  BY <1>3, TasksOfSections
<1>6. Tasks(PlanFor(app, S, g)) = Tasks(f) \cup Tasks(e)
  BY <1>4, TasksOfConcat
<1>7. Tasks(PlanFor(app, S, g)) = Wanted(app, S, g, Kinds)
  BY <1>2, <1>5, <1>6 DEF Wanted, Kinds
<1>8. ASSUME NEW i \in 1 .. Len(f \o e), NEW j \in 1 .. Len(f \o e),
             (f \o e)[i].kind = "libraries", (f \o e)[j].kind = "media-server"
      PROVE  i < j
  <2>1. /\ Len(f \o e) = Len(f) + Len(e) /\ Len(f) \in Nat /\ Len(e) \in Nat
        /\ \A k \in 1 .. Len(f) + Len(e) : (f \o e)[k] = IF k <= Len(f) THEN f[k] ELSE e[k - Len(f)]
    BY ConcatProperties, LenProperties
  <2>2. i <= Len(f)
    <3> SUFFICES ASSUME ~(i <= Len(f)) PROVE FALSE
      OBVIOUS
    <3>1. i - Len(f) \in 1 .. Len(e) /\ (f \o e)[i] = e[i - Len(f)]
      BY <2>1
    <3>2. e[i - Len(f)] \in Tasks(e)
      BY <3>1, LenProperties DEF Tasks
    <3> QED
      BY <1>2, <1>8, <3>1, <3>2 DEF Wanted
  <2>3. j > Len(f)
    <3> SUFFICES ASSUME j <= Len(f) PROVE FALSE
      BY <2>1
    <3>1. j \in 1 .. Len(f) /\ (f \o e)[j] = f[j]
      BY <2>1
    <3>2. f[j] \in Tasks(f)
      BY <3>1, LenProperties DEF Tasks
    <3> QED
      BY <1>2, <1>5, <1>8, <3>1, <3>2 DEF Wanted
  <2> QED
    BY <2>1, <2>2, <2>3
<1> QED
  BY <1>4, <1>7, <1>8

------------------------------------------------------------------------------
(* What a run knows of the step it is at *)

(* The run goes through the plan for its app, one step after another.        *)
PlanIsFollowed ==
  run.on => /\ run.plan = PlanFor(run.who, ids, graphics) /\ run.who \in App \cup {NoApp}
            /\ call["run"].task = run.plan[run.at]

(* What is left to do of a step are parts of it. *)
TodoFits(x) ==
  LET m == x.task.of
  IN  /\ x.task.kind # "libraries" => x.todo = PartsOf(x.task)
      /\ x.task.kind = "libraries" =>
           x.todo \in {<<<<"movies", m>>, <<"tv", m>>>>, <<<<"movies", m>>>>, <<<<"tv", m>>>>}

(* Which request belongs to which kind of step. *)
RequestFits(x) ==
  LET kind == x.task.kind
  IN  /\ x.op = "explain" => kind = "explain"
      /\ x.op = "look" => kind \notin {"explain", "app-sync", "seerr"}
      /\ x.op \in {"identity", "probe", "relist"} => kind = "libraries" /\ x.task.of = "existing-plex"
      /\ x.op \in {"list", "schema", "put", "post"} => kind \in KeepsEntry
      /\ x.op = "test" => kind = "seerr"
      /\ x.op = "write" => kind \notin {"explain", "app-sync", "seerr", "media-server"}
      /\ x.op = "confirm" => kind \in {"direct-play", "graphics"}
      /\ x.op \in {"connect", "sync", "enable", "scan"} => kind = "media-server"
      /\ x.op \in {"probe", "write"} => TodoFits(x)

(* The entry is one a step finds nothing wrong with: it points where it has  *)
(* to, or it is an application's, which the owner misdirected.               *)
EntryIsAccepted(l) ==
  \E i \in DOMAIN entries[l] :
    /\ entries[l][i].good
    /\ \/ entries[l][i].points = TargetOf(l)
       \/ l[1] = "app-sync" /\ entries[l][i].named /\ entries[l][i].points = NoApp

(* A folder is in the library, or was passed over as one the owner's own     *)
(* Plex cannot see.                                                          *)
Settled(m, folder, ok) ==
  \/ <<folder, m>> \in there
  \/ ~ok /\ m = "existing-plex" /\ folder \notin visible

(* The folders of a library that are not to do any more are settled.         *)
FoldersAreSettled(x) ==
  LET m == x.task.of
  IN  \/ x.todo = <<<<"movies", m>>, <<"tv", m>>>>
      \/ x.todo = <<<<"tv", m>>>> /\ Settled(m, "movies", x.seen.ok)
      \/ x.todo = <<<<"movies", m>>>> /\ Settled(m, "tv", x.seen.ok)

(* What the last look told, and what was written since, is still so.         *)
SightHolds(x) ==
  LET t == x.task
  IN  /\ x.op \in {"probe", "write", "connect", "sync", "enable"} =>
           \A i \in DOMAIN PartsOf(t) : PartsOf(t)[i] \in x.seen.had => PartsOf(t)[i] \in there
      /\ x.op \in {"probe", "write"} /\ t.kind = "libraries" => FoldersAreSettled(x)
      /\ x.op = "write" /\ t.kind # "libraries" => x.todo = PartsOf(t)
      /\ x.op = "relist" => /\ Settled(t.of, "movies", x.seen.ok)
                            /\ Settled(t.of, "tv", x.seen.ok)
      /\ x.op \in {"list", "schema", "put", "post"} /\ t.kind = "download-client" =>
           <<"category", t.of>> \in there
      /\ x.op \in {"sync", "enable", "scan"} => <<"connection", t.of>> \in there
      /\ x.op = "scan" => <<"enabled", t.of>> \in there
      /\ x.op = "test" /\ x.seen.ok => EntryIsAccepted(Link(t))

(* As long as the owner leaves the link alone. *)
RunKnows ==
  LET x == call["run"]
  IN  run.on => RequestFits(x) /\ (Link(x.task) \notin touched => SightHolds(x))

(* An application's entry has the app's address, or one the owner gave it.   *)
AppsAreSyncedWhereTheyAre ==
  \A p \in Partner : \A i \in DOMAIN entries[<<"app-sync", p>>] :
    entries[<<"app-sync", p>>][i].points \in {p, NoApp}

(* The connection a step stands for is there, or is an application's entry   *)
(* that the owner misdirected.                                               *)
InPlace(t) == Right(t) \/ Misdirected(t)

(* Which part belongs to which step. *)
LEMMA PartsAre ==
  ASSUME NEW t
  PROVE  /\ t.kind = "libraries" => PartsOf(t) = <<<<"movies", t.of>>, <<"tv", t.of>>>>
         /\ t.kind = "download-client" => PartsOf(t) = <<<<"category", t.of>>>>
         /\ t.kind \in {"downloader-settings", "root-folder", "direct-play", "graphics"} =>
              PartsOf(t) = <<<<t.kind, t.of>>>>
         /\ t.kind = "media-server" => PartsOf(t) = <<<<"connection", t.of>>, <<"enabled", t.of>>>>
         /\ t.kind \in {"explain", "app-sync", "seerr"} => PartsOf(t) = <<>>
BY DEF PartsOf

PartsAreRight(t) ==
  /\ t.kind = "libraries" => Settled(t.of, "movies", FALSE) /\ Settled(t.of, "tv", FALSE)
  /\ t.kind = "download-client" => <<"category", t.of>> \in there
  /\ t.kind \in {"downloader-settings", "root-folder", "direct-play", "graphics"} =>
       <<t.kind, t.of>> \in there
  /\ t.kind = "media-server" =>
       /\ <<"connection", t.of>> \in there
       /\ \/ <<"enabled", t.of>> \in there
          \/ <<"movies", t.of>> \notin there /\ <<"tv", t.of>> \notin there

RightIsPartsAndEntry ==
  \A t \in PlannedTask :
    InPlace(t) <=> PartsAreRight(t) /\ (t.kind \in KeepsEntry => EntryIsAccepted(Link(t)))

(* What makes a connection right, told by its kind. *)
LEMMA RightMeans == RightIsPartsAndEntry
<1> SUFFICES ASSUME NEW t \in PlannedTask
             PROVE  InPlace(t) <=> PartsAreRight(t) /\ (t.kind \in KeepsEntry => EntryIsAccepted(Link(t)))
  BY DEF RightIsPartsAndEntry
<1> DEFINE ps == PartsOf(t)
           Fine(p) == \/ p \in there
                      \/ t.kind = "libraries" /\ t.of = "existing-plex" /\ p[1] \notin visible
                      \/ p[1] = "enabled" /\ there \cap {<<"movies", t.of>>, <<"tv", t.of>>} = {}
           Pointed == \E i \in DOMAIN entries[Link(t)] :
                        entries[Link(t)][i].good /\ entries[Link(t)][i].points = TargetOf(Link(t))
           Astray  == \E i \in DOMAIN entries[Link(t)] :
                        LET e == entries[Link(t)][i] IN e.good /\ e.named /\ e.points = NoApp
<1>2. /\ \A a : DOMAIN <<a>> = {1} /\ <<a>>[1] = a
      /\ \A a, b : DOMAIN <<a, b>> = {1, 2} /\ <<a, b>>[1] = a /\ <<a, b>>[2] = b
      /\ DOMAIN <<>> = {}
  OBVIOUS
<1>1. InPlace(t) <=> /\ \A i \in DOMAIN ps : Fine(ps[i])
                     /\ t.kind \in KeepsEntry => EntryIsAccepted(Link(t))
  <2>1. Right(t) <=> (\A i \in DOMAIN ps : Fine(ps[i])) /\ (t.kind \in KeepsEntry => Pointed)
    BY TargetIsTargetOf DEF Right, Has, At
  <2>2. Misdirected(t) <=> t.kind = "app-sync" /\ Astray
    BY DEF Misdirected
  <2>3. EntryIsAccepted(Link(t)) <=> Pointed \/ (t.kind = "app-sync" /\ Astray)
    BY DEF EntryIsAccepted, Link
  <2>4. t.kind = "app-sync" => (\A i \in DOMAIN ps : Fine(ps[i])) /\ t.kind \in KeepsEntry
    <3>1. t.kind = "app-sync" => ps = <<>>
      BY PartsAre
    <3> QED
      BY <1>2, <3>1 DEF KeepsEntry
  <2> HIDE DEF Fine, Pointed, Astray, ps
  <2> QED
    BY <2>1, <2>2, <2>3, <2>4 DEF InPlace
<1>3. (\A i \in DOMAIN ps : Fine(ps[i])) <=> PartsAreRight(t)
  <2>1. CASE t.kind = "libraries"
    <3>1. ps = <<<<"movies", t.of>>, <<"tv", t.of>>>>
      BY <2>1, PartsAre
    <3>2. (\A i \in DOMAIN ps : Fine(ps[i])) <=> Fine(<<"movies", t.of>>) /\ Fine(<<"tv", t.of>>)
      <4> HIDE DEF Fine
      <4> QED
        BY <1>2, <3>1
    <3> QED
      BY <2>1, <3>2 DEF PartsAreRight, Settled
  <2>2. CASE t.kind = "media-server"
    <3>1. ps = <<<<"connection", t.of>>, <<"enabled", t.of>>>>
      BY <2>2, PartsAre
    <3>2. (\A i \in DOMAIN ps : Fine(ps[i])) <=> Fine(<<"connection", t.of>>) /\ Fine(<<"enabled", t.of>>)
      <4> HIDE DEF Fine
      <4> QED
        BY <1>2, <3>1
    <3> QED
      BY <2>2, <3>2 DEF PartsAreRight
  <2>3. CASE t.kind = "download-client"
    <3>1. ps = <<<<"category", t.of>>>>
      BY <2>3, PartsAre
    <3>2. (\A i \in DOMAIN ps : Fine(ps[i])) <=> Fine(<<"category", t.of>>)
      <4> HIDE DEF Fine
      <4> QED
        BY <1>2, <3>1
    <3> QED
      BY <2>3, <3>2 DEF PartsAreRight
  <2>4. CASE t.kind \in {"downloader-settings", "root-folder", "direct-play", "graphics"}
    <3>1. ps = <<<<t.kind, t.of>>>>
      BY <2>4, PartsAre
    <3>2. (\A i \in DOMAIN ps : Fine(ps[i])) <=> Fine(<<t.kind, t.of>>)
      <4> HIDE DEF Fine
      <4> QED
        BY <1>2, <3>1
    <3> QED
      BY <2>4, <3>2 DEF PartsAreRight
  <2>5. CASE t.kind \in {"explain", "app-sync", "seerr"}
    BY <1>2, <2>5, PartsAre DEF PartsAreRight
  <2> QED
    BY <2>1, <2>2, <2>3, <2>4, <2>5 DEF PlannedTask, WiringTask, Kinds
<1> QED
  BY <1>1, <1>3

(* Two sequences of one make one of two. *)
LEMMA PairOfSingles == \A p, q : <<p>> \o <<q>> = <<p, q>>
<1> SUFFICES ASSUME NEW p, NEW q PROVE <<p>> \o <<q>> = <<p, q>>
  OBVIOUS
<1> DEFINE S == {p, q}
<1>1. /\ <<p>> \in Seq(S) /\ <<q>> \in Seq(S) /\ <<p, q>> \in Seq(S)
      /\ Len(<<p>>) = 1 /\ Len(<<q>>) = 1 /\ Len(<<p, q>>) = 2
  OBVIOUS
<1>2. PICK r : r = <<p>> \o <<q>>
  OBVIOUS
<1>3. r \in Seq(S) /\ Len(r) = 2 /\ r[1] = p /\ r[2] = q
  BY <1>1, <1>2, ConcatProperties
<1>4. r = <<p, q>>
  BY <1>1, <1>3
<1> QED
  BY <1>2, <1>4

(* What the listing lacks is to be written. *)
LEMMA LackingIs ==
  ASSUME NEW t
  PROVE  /\ t.kind = "libraries" =>
              LET m == t.of
              IN  \/ Lacking(t) = <<>> /\ <<"movies", m>> \in there /\ <<"tv", m>> \in there
                  \/ Lacking(t) = PartsOf(t)
                  \/ Lacking(t) = <<<<"tv", m>>>> /\ <<"movies", m>> \in there
                  \/ Lacking(t) = <<<<"movies", m>>>> /\ <<"tv", m>> \in there
         /\ t.kind = "download-client" =>
              Lacking(t) = PartsOf(t) \/ (Lacking(t) = <<>> /\ <<"category", t.of>> \in there)
         /\ t.kind \in {"downloader-settings", "root-folder", "direct-play", "graphics"} =>
              Lacking(t) = PartsOf(t) \/ (Lacking(t) = <<>> /\ <<t.kind, t.of>> \in there)
<1>1. ASSUME NEW p, PartsOf(t) = <<p>>
      PROVE  Lacking(t) = PartsOf(t) \/ (Lacking(t) = <<>> /\ p \in there)
  <2>1. DOMAIN PartsOf(t) = {1} /\ PartsOf(t)[1] = p /\ 2 \notin {1}
    BY <1>1
  <2>2. Lacking(t) = OnlyIf(p \notin there, p) \o <<>>
    BY <2>1 DEF Lacking, OnlyIf, Has
  <2>3. <<>> \in Seq({p}) /\ <<p>> \in Seq({p})
    OBVIOUS
  <2>4. <<>> \o <<>> = <<>> /\ <<p>> \o <<>> = <<p>>
    BY <2>3, ConcatEmptySeq
  <2> QED
    BY <1>1, <2>2, <2>4 DEF OnlyIf
<1>2. ASSUME NEW p, NEW q, PartsOf(t) = <<p, q>>
      PROVE  \/ Lacking(t) = <<>> /\ p \in there /\ q \in there
             \/ Lacking(t) = PartsOf(t)
             \/ Lacking(t) = <<q>> /\ p \in there
             \/ Lacking(t) = <<p>> /\ q \in there
  <2>1. DOMAIN PartsOf(t) = {1, 2} /\ PartsOf(t)[1] = p /\ PartsOf(t)[2] = q
    BY <1>2
  <2> DEFINE S == {p, q}
  <2>2. <<>> \in Seq(S) /\ <<p>> \in Seq(S) /\ <<q>> \in Seq(S) /\ <<p, q>> \in Seq(S)
    OBVIOUS
  <2>4. <<>> \o <<>> = <<>> /\ <<p>> \o <<>> = <<p>> /\ <<>> \o <<q>> = <<q>>
    BY <2>2, ConcatEmptySeq
  <2>5. <<p>> \o <<q>> = <<p, q>>
    BY PairOfSingles
  <2>3. Lacking(t) = OnlyIf(p \notin there, p) \o OnlyIf(q \notin there, q)
    BY <2>1 DEF Lacking, OnlyIf, Has
  <2> QED
    BY <1>2, <2>3, <2>4, <2>5 DEF OnlyIf
<1> QED
  BY <1>1, <1>2, PartsAre

------------------------------------------------------------------------------
(* What a request of the run comes to *)

(* The run is at a step of the plan, and knows what it needs of it. *)
RunIsKnown(x) ==
  /\ DOMAIN call = Actor /\ call["run"] = x /\ CallShape(x)
  /\ x.task \in PlannedTask /\ RequestFits(x)
  /\ Link(x.task) \notin touched => SightHolds(x)

(* It goes on with the step, and what it needs is still so. *)
GoesOnKnowing(x) ==
  \E new : /\ GoOn("run", new) /\ CallShape(new) /\ new.task = x.task /\ RequestFits(new)
           /\ Link(x.task) \notin touched => SightHolds(new)'

(* Or it ends the step, and says of it what is so. *)
EndsTruly(x) ==
  \E v \in Finals : /\ Conclude("run", v)
                    /\ v = "error" \/ Link(x.task) \in touched \/ InPlace(x.task)'

ComesToTheTruth(x) == GoesOnKnowing(x) \/ EndsTruly(x)

(* A field that is replaced leaves the others. *)
LEMMA OneField ==
  ASSUME NEW x, CallShape(x), NEW op
  PROVE  LET y == [x EXCEPT !.op = op]
         IN  /\ CallShape(y) /\ y.task = x.task
             /\ y.op = op /\ y.seen = x.seen /\ y.todo = x.todo
BY DEF CallShape

(* The same, of what is left to do. *)
LEMMA OneTodo ==
  ASSUME NEW x, CallShape(x), NEW todo
  PROVE  LET y == [x EXCEPT !.todo = todo]
         IN  /\ CallShape(y) /\ y.task = x.task
             /\ y.op = x.op /\ y.seen = x.seen /\ y.todo = todo
BY DEF CallShape

(* The same, of what was seen. *)
LEMMA OneSeen ==
  ASSUME NEW x, CallShape(x), NEW seen, DOMAIN seen = {"had", "at", "ok"}
  PROVE  LET y == [x EXCEPT !.seen = seen]
         IN  /\ CallShape(y) /\ y.task = x.task
             /\ y.op = x.op /\ y.seen = seen /\ y.todo = x.todo
BY DEF CallShape

(* A step begins with nothing to rely on. *)
LEMMA FirstRelyOnNothing ==
  /\ \A x : x.op \in {"wait", "explain", "identity", "look", "confirm"} => SightHolds(x)
  /\ \A x : x.op \in {"list", "schema", "put", "post"} /\ x.task.kind # "download-client" =>
       SightHolds(x)
BY DEF SightHolds

(* The first request of a step belongs to it. *)
LEMMA FirstOpFits ==
  ASSUME NEW x, x.task \in PlannedTask, x.op \in {"wait", FirstOp(x.task)}
  PROVE  RequestFits(x) /\ SightHolds(x)
<1>1. /\ x.op \in {"wait", "explain", "identity", "look", "list"}
      /\ x.op = "list" => x.task.kind \in {"app-sync", "seerr"}
      /\ x.op = "identity" => x.task.kind = "libraries" /\ x.task.of = "existing-plex"
      /\ x.op = "look" => x.task.kind \notin {"explain", "app-sync", "seerr"}
      /\ x.op = "explain" => x.task.kind = "explain"
  BY DEF FirstOp
<1>2. RequestFits(x)
  BY <1>1 DEF RequestFits, KeepsEntry
<1> QED
  BY <1>1, <1>2, FirstRelyOnNothing

(* An attempt that went unanswered is begun again, or ends in an error. *)
LEMMA ApplyAgainIsTrue ==
  ASSUME NEW x, RunIsKnown(x), ApplyAgain("run")
  PROVE  ComesToTheTruth(x)
<1>1. CASE Conclude("run", "error")
  BY <1>1 DEF ComesToTheTruth, EndsTruly, Finals
<1>2. ASSUME NEW new, GoOn("run", new),
             new = [NoCall EXCEPT !.task = x.task, !.op = FirstOp(x.task), !.attempt = x.attempt + 1]
      PROVE  ComesToTheTruth(x)
  <2>1. CallShape(new) /\ new.task = x.task /\ new.op = FirstOp(x.task)
    BY <1>2 DEF CallShape, NoCall, NoSeen
  <2>2. RequestFits(new) /\ SightHolds(new)
    BY <2>1, FirstOpFits DEF RunIsKnown
  <2>3. SightHolds(new)'
    <3>1. new.op \in {"wait", "explain", "identity", "look", "list"}
          /\ (new.op = "list" => new.task.kind \in {"app-sync", "seerr"})
      BY <2>1 DEF FirstOp
    <3> QED
      BY <3>1 DEF SightHolds
  <2> QED
    BY <1>2, <2>1, <2>2, <2>3 DEF ComesToTheTruth, GoesOnKnowing
<1> QED
  BY <1>1, <1>2 DEF ApplyAgain, RunIsKnown

(* What makes a connection right, after the step. *)
LEMMA RightMeansThen ==
  \A t \in PlannedTask :
    InPlace(t)' <=> PartsAreRight(t)' /\ (t.kind \in KeepsEntry => EntryIsAccepted(Link(t))')
<1>1. RightIsPartsAndEntry'
  BY RightMeans, PTL
<1> QED
  BY <1>1 DEF RightIsPartsAndEntry

(* What was there when the listing was taken. *)
LEMMA LookIsTrue ==
  ASSUME NEW x, RunIsKnown(x), Look("run"), UNCHANGED <<install, world>>
  PROVE  ComesToTheTruth(x)
<1> DEFINE t    == x.task
           had  == {PartsOf(t)[i] : i \in {j \in DOMAIN PartsOf(t) : Has(t, j)}}
           lack == Lacking(t)
           new  == [x EXCEPT !.seen = [NoSeen EXCEPT !.had = had], !.todo = lack]
           Known == \A i \in DOMAIN PartsOf(t) : PartsOf(t)[i] \in had => PartsOf(t)[i] \in there
<1>1. /\ t \in PlannedTask /\ CallShape(x) /\ there' = there /\ entries' = entries /\ ids' = ids
      /\ visible' = visible /\ x.op = "look" /\ t.kind \notin {"explain", "app-sync", "seerr"}
  BY DEF RunIsKnown, RequestFits, Look, Asking, remote, install, world
<1>2. Known
  BY DEF Has
<1>3. \/ /\ t.kind = "libraries" /\ t.of = "existing-plex"
         /\ GoOn("run", [new EXCEPT !.op = "probe", !.todo = PartsOf(t)])
      \/ /\ t.kind = "media-server" /\ <<"connection", t.of>> \in had
         /\ GoOn("run", [new EXCEPT !.op = "sync"])
      \/ t.kind = "media-server" /\ GoOn("run", [new EXCEPT !.op = "connect"])
      \/ t.kind = "download-client" /\ lack = <<>> /\ GoOn("run", [new EXCEPT !.op = "list"])
      \/ /\ t.kind # "media-server" /\ lack # <<>> /\ GoOn("run", [new EXCEPT !.op = "write"])
      \/ /\ t.kind \notin {"media-server", "download-client"} /\ (lack = <<>> \/ t.of = "existing-plex")
         /\ (t.kind = "libraries" => t.of # "existing-plex")
         /\ Conclude("run", "done")
  <2>1. call["run"] = x
    BY DEF RunIsKnown
  <2>2. CASE t.kind = "libraries" /\ t.of = "existing-plex"
    BY <2>1, <2>2 DEF Look
  <2>3. CASE t.kind = "media-server"
    <3>1. GoOn("run", [new EXCEPT !.op = IF <<"connection", t.of>> \in had
                                           THEN "sync" ELSE "connect"])
      <4>1. call["run"].task.kind = "media-server" /\ call["run"].task.kind # "libraries"
            /\ call["run"].task.kind # "download-client"
        BY <2>1, <2>3
      <4> HIDE DEF had, lack
      <4>2. GoOn("run", [[call["run"] EXCEPT !.seen = [NoSeen EXCEPT !.had = had], !.todo = lack]
                            EXCEPT !.op = IF <<"connection", t.of>> \in had
                                            THEN "sync" ELSE "connect"])
        BY <2>1, <4>1 DEF Look, had, lack
      <4> QED
        BY <2>1, <4>2
    <3> HIDE DEF new, had
    <3>2. CASE <<"connection", t.of>> \in had
      BY <2>3, <3>1, <3>2
    <3>3. CASE <<"connection", t.of>> \notin had
      BY <2>3, <3>1, <3>3
    <3> QED
      BY <3>2, <3>3
  <2>4. CASE t.kind = "download-client" /\ lack = <<>>
    BY <2>1, <2>4 DEF Look
  <2>5. CASE t.kind # "media-server" /\ t.of # "existing-plex" /\ lack # <<>>
    BY <2>1, <2>5 DEF Look
  <2>6. CASE ~(t.kind = "libraries" /\ t.of = "existing-plex") /\ t.kind # "media-server"
             /\ ~(t.kind = "download-client" /\ lack = <<>>)
             /\ ~(t.kind # "media-server" /\ t.of # "existing-plex" /\ lack # <<>>)
    <3>1. Conclude("run", "done")
      BY <2>1, <2>6, Zenon DEF Look
    <3>2. t.kind = "download-client" => t.of # "existing-plex"
      BY <1>1 DEF PlannedTask, WiringTask, MayBeAbout
    <3> QED
      BY <2>6, <3>1, <3>2
  <2> QED
    BY <2>2, <2>3, <2>4, <2>5, <2>6
<1>4. PICK parts : parts = had
  OBVIOUS
<1>5. DOMAIN [NoSeen EXCEPT !.had = parts] = {"had", "at", "ok"}
      /\ [NoSeen EXCEPT !.had = parts].had = parts
  BY DEF NoSeen
<1>6. PICK n : n = new
  OBVIOUS
<1>7. /\ CallShape(n) /\ n.task = t /\ n.seen.had = parts /\ n.todo = lack
  <2>1. PICK u : u = [x EXCEPT !.seen = [NoSeen EXCEPT !.had = parts]]
    OBVIOUS
  <2>2. CallShape(u) /\ u.task = t /\ u.seen.had = parts
    BY <1>1, <1>5, <2>1, OneSeen
  <2>3. n = [u EXCEPT !.todo = lack]
    BY <1>4, <1>6, <2>1
  <2> QED
    BY <2>2, <2>3, OneTodo
<1> HIDE DEF had, new, lack
<1>8. ASSUME NEW op, NEW y, GoOn("run", y), CallShape(y), y.task = t, y.op = op, y.seen.had = parts,
             RequestFits(y), SightHolds(y)
      PROVE  ComesToTheTruth(x)
  <2>1. SightHolds(y)'
    BY <1>1, <1>8 DEF SightHolds, FoldersAreSettled, Settled, EntryIsAccepted, TargetOf, Target
  <2> QED
    BY <1>8, <2>1 DEF ComesToTheTruth, GoesOnKnowing
<1>9. ASSUME NEW op, NEW y, y = [n EXCEPT !.op = op]
      PROVE  CallShape(y) /\ y.task = t /\ y.op = op /\ y.seen.had = parts /\ y.todo = lack
  BY <1>7, <1>9, OneField
<1>10. CASE /\ t.kind = "libraries" /\ t.of = "existing-plex"
            /\ GoOn("run", [new EXCEPT !.op = "probe", !.todo = PartsOf(t)])
  <2>1. PICK u : u = [n EXCEPT !.op = "probe"]
    OBVIOUS
  <2>2. PICK y : y = [u EXCEPT !.todo = PartsOf(t)]
    OBVIOUS
  <2>3. GoOn("run", y)
    BY <1>6, <1>10, <2>1, <2>2
  <2>4. CallShape(u) /\ u.task = t /\ u.op = "probe" /\ u.seen.had = parts
    BY <1>9, <2>1
  <2>5. CallShape(y) /\ y.task = t /\ y.op = "probe" /\ y.seen.had = parts /\ y.todo = PartsOf(t)
    BY <2>2, <2>4, OneTodo
  <2>6. RequestFits(y)
    BY <1>10, <2>5, PartsAre DEF RequestFits, TodoFits
  <2>7. SightHolds(y)
    BY <1>2, <1>4, <1>10, <2>5, PartsAre DEF SightHolds, FoldersAreSettled
  <2> QED
    BY <1>8, <2>3, <2>5, <2>6, <2>7
<1>11. CASE /\ t.kind = "media-server" /\ <<"connection", t.of>> \in had
            /\ GoOn("run", [new EXCEPT !.op = "sync"])
  <2>1. PICK y : y = [n EXCEPT !.op = "sync"]
    OBVIOUS
  <2>2. GoOn("run", y)
    BY <1>6, <1>11, <2>1
  <2>3. CallShape(y) /\ y.task = t /\ y.op = "sync" /\ y.seen.had = parts
    BY <1>9, <2>1
  <2>4. RequestFits(y)
    BY <1>11, <2>3 DEF RequestFits
  <2>5. <<"connection", t.of>> \in there
    BY <1>11 DEF had, Has
  <2>6. SightHolds(y)
    BY <1>2, <1>4, <1>11, <2>3, <2>5 DEF SightHolds
  <2> QED
    BY <1>8, <2>2, <2>3, <2>4, <2>6
<1>12. CASE t.kind = "media-server" /\ GoOn("run", [new EXCEPT !.op = "connect"])
  <2>1. PICK y : y = [n EXCEPT !.op = "connect"]
    OBVIOUS
  <2>2. GoOn("run", y)
    BY <1>6, <1>12, <2>1
  <2>3. CallShape(y) /\ y.task = t /\ y.op = "connect" /\ y.seen.had = parts
    BY <1>9, <2>1
  <2>4. RequestFits(y)
    BY <1>12, <2>3 DEF RequestFits
  <2>5. SightHolds(y)
    BY <1>2, <1>4, <1>12, <2>3 DEF SightHolds
  <2> QED
    BY <1>8, <2>2, <2>3, <2>4, <2>5
<1>13. CASE t.kind = "download-client" /\ lack = <<>> /\ GoOn("run", [new EXCEPT !.op = "list"])
  <2>1. PICK y : y = [n EXCEPT !.op = "list"]
    OBVIOUS
  <2>2. GoOn("run", y)
    BY <1>6, <1>13, <2>1
  <2>3. CallShape(y) /\ y.task = t /\ y.op = "list" /\ y.seen.had = parts
    BY <1>9, <2>1
  <2>4. RequestFits(y)
    BY <1>13, <2>3 DEF RequestFits, KeepsEntry
  <2>5. <<"category", t.of>> \in there
    <3>1. PartsOf(t) # <<>>
      BY <1>13, PartsAre
    <3> QED
      BY <1>13, <3>1, LackingIs DEF lack
  <2>6. SightHolds(y)
    BY <1>13, <2>3, <2>5 DEF SightHolds
  <2> QED
    BY <1>8, <2>2, <2>3, <2>4, <2>6
<1>14. CASE t.kind # "media-server" /\ lack # <<>> /\ GoOn("run", [new EXCEPT !.op = "write"])
  <2>1. PICK y : y = [n EXCEPT !.op = "write"]
    OBVIOUS
  <2>2. GoOn("run", y)
    BY <1>6, <1>14, <2>1
  <2>3. CallShape(y) /\ y.task = t /\ y.op = "write" /\ y.seen.had = parts /\ y.todo = lack
    BY <1>9, <2>1
  <2>5. t.kind = "libraries" => FoldersAreSettled(y)
    BY <1>14, <2>3, LackingIs, PartsAre DEF FoldersAreSettled, Settled, lack
  <2>6. t.kind # "libraries" => y.todo = PartsOf(t)
    <3>1. t.kind \in {"libraries", "download-client", "downloader-settings", "root-folder",
                      "direct-play", "graphics"}
      BY <1>1, <1>14 DEF PlannedTask, WiringTask, Kinds
    <3> QED
      BY <1>14, <2>3, <3>1, LackingIs DEF lack
  <2>7. SightHolds(y)
    BY <1>2, <1>4, <2>3, <2>5, <2>6 DEF SightHolds
  <2>8. RequestFits(y)
    BY <1>1, <1>14, <2>3, <2>5, <2>6 DEF RequestFits, TodoFits, FoldersAreSettled
  <2> QED
    BY <1>8, <2>2, <2>3, <2>7, <2>8
<1>15. CASE /\ t.kind \notin {"media-server", "download-client"}
            /\ (lack = <<>> \/ t.of = "existing-plex")
            /\ (t.kind = "libraries" => t.of # "existing-plex")
            /\ Conclude("run", "done")
  <2>1. t.kind \in {"libraries", "downloader-settings", "root-folder", "direct-play", "graphics"}
    BY <1>1, <1>15 DEF PlannedTask, WiringTask, Kinds
  <2>2. t.of # "existing-plex"
    BY <1>1, <1>15, <2>1 DEF PlannedTask, WiringTask, MayBeAbout
  <2>3. lack = <<>> /\ PartsOf(t) # <<>>
    BY <1>15, <2>1, <2>2, PartsAre
  <2>4. PartsAreRight(t)'
    <3>1. PICK k, o : k = t.kind /\ o = t.of
      OBVIOUS
    <3>2. CASE k = "libraries"
      <4>1. <<"movies", o>> \in there /\ <<"tv", o>> \in there
        <5>1. \/ lack = <<>> /\ <<"movies", t.of>> \in there /\ <<"tv", t.of>> \in there
              \/ lack = PartsOf(t)
              \/ lack = <<<<"tv", t.of>>>>
              \/ lack = <<<<"movies", t.of>>>>
          BY <3>1, <3>2, LackingIs DEF lack
        <5>2. \A p : <<p>> # <<>>
          OBVIOUS
        <5> QED
          BY <2>3, <3>1, <5>1, <5>2
      <4>2. <<"movies", o>> \in there' /\ <<"tv", o>> \in there'
        BY <1>1, <4>1 DEF world
      <4> QED
        BY <3>1, <3>2, <4>2 DEF PartsAreRight, Settled
    <3>3. CASE k \in {"downloader-settings", "root-folder", "direct-play", "graphics"}
      <4>1. <<k, o>> \in there
        BY <2>3, <3>1, <3>3, LackingIs DEF lack
      <4>2. <<k, o>> \in there'
        BY <1>1, <4>1 DEF world
      <4> QED
        BY <3>1, <3>3, <4>2 DEF PartsAreRight
    <3> QED
      BY <2>1, <3>1, <3>2, <3>3
  <2>5. InPlace(t)'
    BY <1>1, <2>1, <2>4, RightMeansThen DEF KeepsEntry
  <2> QED
    BY <1>15, <2>5 DEF ComesToTheTruth, EndsTruly, Finals
<1> QED
  BY <1>3, <1>10, <1>11, <1>12, <1>13, <1>14, <1>15

(* Of two folders the second is left. *)
LEMMA RestFits ==
  ASSUME NEW x, x.task.kind = "libraries", TodoFits(x)
  PROVE  LET rest == Tail(x.todo)
         IN  /\ Len(x.todo) # 1 => rest = <<<<"tv", x.task.of>>>>
             /\ rest # <<>> => rest = <<<<"tv", x.task.of>>>>
<1>1. \A p : Tail(<<p>>) = <<>> /\ Len(<<p>>) = 1
  OBVIOUS
<1>2. \A p, q : Tail(<<p, q>>) = <<q>>
  OBVIOUS
<1> QED
  BY <1>1, <1>2 DEF TodoFits

(* After a folder of the owner's Plex, the next, or the end. *)
LEMMA NextFolderIsTrue ==
  ASSUME NEW x, RunIsKnown(x), x.task.kind = "libraries", x.task.of = "existing-plex", TodoFits(x),
         NEW seen, DOMAIN seen = {"had", "at", "ok"}, seen.had = x.seen.had,
         Link(x.task) \notin touched =>
           /\ FoldersAreSettled(x)'
           /\ seen.ok => x.seen.ok
           /\ Settled("existing-plex", Head(x.todo)[1], seen.ok)'
           /\ \A i \in DOMAIN PartsOf(x.task) :
                PartsOf(x.task)[i] \in seen.had => PartsOf(x.task)[i] \in there',
         NextFolder("run", seen)
  PROVE  ComesToTheTruth(x)
<1> DEFINE m == "existing-plex"
           free == Link(x.task) \notin touched
<1>1. CallShape(x) /\ call["run"] = x /\ x.task \in PlannedTask
  BY DEF RunIsKnown
<1>2. ASSUME free
      PROVE  /\ Len(x.todo) = 1 => Settled(m, "movies", seen.ok)' /\ Settled(m, "tv", seen.ok)'
             /\ Len(x.todo) # 1 => /\ Tail(x.todo) = <<<<"tv", m>>>>
                                   /\ Settled(m, "movies", seen.ok)'
  <2>1. \/ x.todo = <<<<"movies", m>>, <<"tv", m>>>>
        \/ x.todo = <<<<"tv", m>>>> /\ Settled(m, "movies", x.seen.ok)'
        \/ x.todo = <<<<"movies", m>>>> /\ Settled(m, "tv", x.seen.ok)'
    BY <1>2 DEF FoldersAreSettled
  <2>2. seen.ok => x.seen.ok
    BY <1>2
  <2>3. \A f : Settled(m, f, x.seen.ok)' => Settled(m, f, seen.ok)'
    BY <2>2 DEF Settled
  <2>4. Settled(m, Head(x.todo)[1], seen.ok)'
    BY <1>2
  <2>5. \A p : Len(<<p>>) = 1 /\ Head(<<p>>) = p
    OBVIOUS
  <2>6. \A p, q : Len(<<p, q>>) = 2 /\ Head(<<p, q>>) = p /\ Tail(<<p, q>>) = <<q>>
    OBVIOUS
  <2>7. \A f : <<f, m>>[1] = f
    OBVIOUS
  <2>8. CASE x.todo = <<<<"movies", m>>, <<"tv", m>>>>
    <3>1. Len(x.todo) = 2 /\ Head(x.todo)[1] = "movies" /\ Tail(x.todo) = <<<<"tv", m>>>>
      BY <2>6, <2>7, <2>8
    <3> QED
      BY <2>4, <3>1
  <2>9. CASE x.todo = <<<<"tv", m>>>> /\ Settled(m, "movies", x.seen.ok)'
    <3>1. Len(x.todo) = 1 /\ Head(x.todo)[1] = "tv"
      BY <2>5, <2>7, <2>9
    <3> QED
      BY <2>3, <2>4, <2>9, <3>1
  <2>10. CASE x.todo = <<<<"movies", m>>>> /\ Settled(m, "tv", x.seen.ok)'
    <3>1. Len(x.todo) = 1 /\ Head(x.todo)[1] = "movies"
      BY <2>5, <2>7, <2>10
    <3> QED
      BY <2>3, <2>4, <2>10, <3>1
  <2> QED
    BY <2>1, <2>8, <2>9, <2>10
<1>3. CASE Len(x.todo) = 1 /\ Conclude("run", IF seen.ok THEN "done" ELSE "skipped")
  <2>1. free => InPlace(x.task)'
    <3> SUFFICES ASSUME free PROVE InPlace(x.task)'
      OBVIOUS
    <3>1. Settled(m, "movies", seen.ok)' /\ Settled(m, "tv", seen.ok)'
      BY <1>2, <1>3
    <3>2. PartsAreRight(x.task)'
      BY <3>1 DEF PartsAreRight, Settled
    <3> QED
      BY <1>1, <3>2, RightMeansThen DEF KeepsEntry
  <2> QED
    BY <1>3, <2>1 DEF ComesToTheTruth, EndsTruly, Finals
<1>4. CASE /\ Len(x.todo) = 1
           /\ GoOn("run", [x EXCEPT !.op = "relist", !.seen = seen, !.todo = <<>>])
  <2>1. PICK u : u = [x EXCEPT !.op = "relist"]
    OBVIOUS
  <2>2. PICK w : w = [u EXCEPT !.seen = seen]
    OBVIOUS
  <2>3. PICK y : y = [w EXCEPT !.todo = <<>>]
    OBVIOUS
  <2>4. CallShape(u) /\ u.task = x.task /\ u.op = "relist" /\ u.todo = x.todo
    BY <1>1, <2>1, OneField
  <2>5. CallShape(w) /\ w.task = x.task /\ w.op = "relist" /\ w.seen = seen
    BY <2>2, <2>4, OneSeen
  <2>6. CallShape(y) /\ y.task = x.task /\ y.op = "relist" /\ y.seen = seen
    BY <2>3, <2>5, OneTodo
  <2>7. free => SightHolds(y)'
    BY <1>2, <1>4, <2>6 DEF SightHolds
  <2>8. RequestFits(y)
    BY <2>6 DEF RequestFits
  <2> QED
    BY <1>4, <2>1, <2>2, <2>3, <2>6, <2>7, <2>8 DEF ComesToTheTruth, GoesOnKnowing
<1>5. CASE /\ Len(x.todo) # 1
           /\ GoOn("run", [x EXCEPT !.op = "probe", !.seen = seen, !.todo = Tail(@)])
  <2>1. PICK u : u = [x EXCEPT !.op = "probe"]
    OBVIOUS
  <2>2. PICK w : w = [u EXCEPT !.seen = seen]
    OBVIOUS
  <2>3. PICK y : y = [w EXCEPT !.todo = Tail(x.todo)]
    OBVIOUS
  <2>4. CallShape(u) /\ u.task = x.task /\ u.op = "probe" /\ u.todo = x.todo
    BY <1>1, <2>1, OneField
  <2>5. CallShape(w) /\ w.task = x.task /\ w.op = "probe" /\ w.seen = seen
    BY <2>2, <2>4, OneSeen
  <2>6. CallShape(y) /\ y.task = x.task /\ y.op = "probe" /\ y.seen = seen /\ y.todo = Tail(x.todo)
    BY <2>3, <2>5, OneTodo
  <2>7. free => SightHolds(y)'
    BY <1>2, <1>5, <2>6 DEF SightHolds, FoldersAreSettled
  <2>8. RequestFits(y)
    BY <1>5, <2>6, RestFits DEF RequestFits, TodoFits
  <2>9. GoOn("run", y)
    BY <1>5, <2>1, <2>2, <2>3
  <2> QED
    BY <2>6, <2>7, <2>8, <2>9 DEF ComesToTheTruth, GoesOnKnowing
<1> QED
  BY <1>1, <1>3, <1>4, <1>5 DEF NextFolder, EndOfProbes

(* A look at what is written next. *)
LEMMA ProbeIsTrue ==
  ASSUME NEW x, RunIsKnown(x), Probe("run"), UNCHANGED <<install, world>>
  PROVE  ComesToTheTruth(x)
<1> DEFINE folder == Head(x.todo)
           free == Link(x.task) \notin touched
<1>1. /\ CallShape(x) /\ call["run"] = x /\ x.task \in PlannedTask /\ x.op = "probe"
      /\ x.task.kind = "libraries" /\ x.task.of = "existing-plex" /\ TodoFits(x)
      /\ there' = there /\ entries' = entries /\ ids' = ids /\ visible' = visible
  BY DEF RunIsKnown, RequestFits, Probe, Asking, remote, install, world
<1>2. DOMAIN x.seen = {"had", "at", "ok"}
  BY <1>1 DEF CallShape
<1>3. ASSUME free
      PROVE  /\ FoldersAreSettled(x) /\ FoldersAreSettled(x)'
             /\ \A i \in DOMAIN PartsOf(x.task) :
                  PartsOf(x.task)[i] \in x.seen.had => PartsOf(x.task)[i] \in there'
  <2>1. SightHolds(x)
    BY <1>3 DEF RunIsKnown
  <2>2. FoldersAreSettled(x)
    BY <1>1, <2>1 DEF SightHolds
  <2> QED
    BY <1>1, <2>1, <2>2 DEF SightHolds, FoldersAreSettled, Settled
<1>4. free => \/ folder = <<"movies", "existing-plex">>
              \/ folder = <<"tv", "existing-plex">>
  <2>1. \A p : Head(<<p>>) = p
    OBVIOUS
  <2>2. \A p, q : Head(<<p, q>>) = p
    OBVIOUS
  <2> QED
    BY <1>1, <1>3, <2>1, <2>2 DEF FoldersAreSettled
<1>5. CASE folder[1] \notin visible /\ NextFolder("run", [x.seen EXCEPT !.ok = FALSE])
  <2>1. PICK seen : seen = [x.seen EXCEPT !.ok = FALSE]
    OBVIOUS
  <2>2. DOMAIN seen = {"had", "at", "ok"} /\ seen.had = x.seen.had /\ ~seen.ok
    BY <1>2, <2>1
  <2>3. Settled("existing-plex", folder[1], seen.ok)'
    BY <1>1, <1>5, <2>2 DEF Settled
  <2>4. NextFolder("run", seen)
    BY <1>5, <2>1
  <2> HIDE DEF folder
  <2>5. free => /\ FoldersAreSettled(x)'
                /\ seen.ok => x.seen.ok
                /\ Settled("existing-plex", Head(x.todo)[1], seen.ok)'
                /\ \A i \in DOMAIN PartsOf(x.task) :
                     PartsOf(x.task)[i] \in seen.had => PartsOf(x.task)[i] \in there'
    BY <1>3, <2>2, <2>3 DEF folder
  <2> QED
    BY <1>1, <2>2, <2>4, <2>5, NextFolderIsTrue
<1>6. CASE folder \in x.seen.had /\ NextFolder("run", x.seen)
  <2>1. free => Settled("existing-plex", folder[1], x.seen.ok)'
    <3> SUFFICES ASSUME free PROVE Settled("existing-plex", folder[1], x.seen.ok)'
      OBVIOUS
    <3>1. PartsOf(x.task) = <<<<"movies", "existing-plex">>, <<"tv", "existing-plex">>>>
      BY <1>1, PartsAre
    <3>2. \E i \in DOMAIN PartsOf(x.task) : folder = PartsOf(x.task)[i]
      <4>1. DOMAIN PartsOf(x.task) = {1, 2}
        BY <3>1
      <4> HIDE DEF folder
      <4> QED
        BY <1>4, <3>1, <4>1
    <3>3. folder \in there'
      BY <1>3, <1>6, <3>2
    <3>4. folder = <<folder[1], "existing-plex">>
      BY <1>4
    <3> QED
      BY <3>3, <3>4 DEF Settled
  <2>2. free => /\ FoldersAreSettled(x)'
                /\ x.seen.ok => x.seen.ok
                /\ Settled("existing-plex", Head(x.todo)[1], x.seen.ok)'
                /\ \A i \in DOMAIN PartsOf(x.task) :
                     PartsOf(x.task)[i] \in x.seen.had => PartsOf(x.task)[i] \in there'
    BY <1>3, <2>1
  <2> QED
    BY <1>1, <1>2, <1>6, <2>2, NextFolderIsTrue
<1>7. CASE Request("run", "write")
  <2>1. PICK y : y = [x EXCEPT !.op = "write"]
    OBVIOUS
  <2>2. /\ CallShape(y) /\ y.task = x.task /\ y.op = "write" /\ y.seen = x.seen
        /\ y.todo = x.todo
    BY <1>1, <2>1, OneField
  <2>3. GoOn("run", y)
    BY <1>1, <1>7, <2>1 DEF Request
  <2>4. free => SightHolds(y)'
    BY <1>1, <1>3, <2>2 DEF SightHolds, FoldersAreSettled
  <2>5. RequestFits(y)
    BY <1>1, <2>2 DEF RequestFits, TodoFits
  <2> QED
    BY <2>2, <2>3, <2>4, <2>5 DEF ComesToTheTruth, GoesOnKnowing
<1>8. \/ folder[1] \notin visible /\ NextFolder("run", [x.seen EXCEPT !.ok = FALSE])
      \/ folder \in x.seen.had /\ NextFolder("run", x.seen)
      \/ Request("run", "write")
  <2>1. CASE folder[1] \notin visible
    BY <1>1, <2>1 DEF Probe
  <2>2. CASE folder[1] \in visible /\ folder \in x.seen.had
    BY <1>1, <2>2 DEF Probe
  <2>3. CASE folder[1] \in visible /\ folder \notin x.seen.had
    BY <1>1, <2>3 DEF Probe
  <2> QED
    BY <2>1, <2>2, <2>3
<1> QED
  BY <1>5, <1>6, <1>7, <1>8

(* Where the step goes on with another request, and all it needs is there. *)
LEMMA AnotherRequest ==
  ASSUME NEW x, RunIsKnown(x), NEW op, Request("run", op),
         \A y : CallShape(y) /\ y.task = x.task /\ y.op = op /\ y.seen = x.seen /\ y.todo = x.todo
                  => RequestFits(y) /\ (Link(x.task) \notin touched => SightHolds(y)')
  PROVE  ComesToTheTruth(x)
<1>1. PICK y : y = [x EXCEPT !.op = op]
  OBVIOUS
<1>2. CallShape(y) /\ y.task = x.task /\ y.op = op /\ y.seen = x.seen /\ y.todo = x.todo
  BY <1>1, OneField DEF RunIsKnown
<1>3. GoOn("run", y)
  BY <1>1 DEF Request, RunIsKnown
<1> QED
  BY <1>2, <1>3 DEF ComesToTheTruth, GoesOnKnowing

(* That the Plex is the one the owner linked is known; the listing follows. *)
LEMMA IdentityIsTrue ==
  ASSUME NEW x, RunIsKnown(x), Identity("run")
  PROVE  ComesToTheTruth(x)
<1>1. x.op = "identity" /\ x.task.kind = "libraries"
  BY DEF RunIsKnown, RequestFits, Identity, Asking
<1>2. \A y : y.task = x.task /\ y.op = "look" => RequestFits(y) /\ SightHolds(y)'
  BY <1>1 DEF RequestFits, SightHolds
<1> QED
  BY <1>2, AnotherRequest DEF Identity

(* The schema is fetched, and a new entry is to be posted. *)
LEMMA SchemaIsTrue ==
  ASSUME NEW x, RunIsKnown(x), Schema("run"), UNCHANGED <<install, world>>
  PROVE  ComesToTheTruth(x)
<1>1. /\ x.op = "schema" /\ there' = there /\ x.task.kind \in KeepsEntry
      /\ Link(x.task) \notin touched => SightHolds(x)
  BY DEF RunIsKnown, RequestFits, Schema, Asking, remote
<1>2. \A y : y.task = x.task /\ y.op = "post" => /\ RequestFits(y)
                                                 /\ Link(x.task) \notin touched => SightHolds(y)'
  BY <1>1 DEF RequestFits, SightHolds
<1> QED
  BY <1>2, AnotherRequest DEF Schema

(* After the last listing the folders are settled. *)
LEMMA RelistIsTrue ==
  ASSUME NEW x, RunIsKnown(x), Relist("run"), UNCHANGED <<install, world>>
  PROVE  ComesToTheTruth(x)
<1>1. /\ x.op = "relist" /\ there' = there /\ visible' = visible /\ x.task.kind = "libraries"
      /\ x.task \in PlannedTask
      /\ Conclude("run", IF x.seen.ok THEN "done" ELSE "skipped")
      /\ Link(x.task) \notin touched => SightHolds(x)
  BY DEF RunIsKnown, RequestFits, Relist, Asking, remote, world
<1>2. Link(x.task) \notin touched => PartsAreRight(x.task)'
  BY <1>1 DEF SightHolds, PartsAreRight, Settled
<1>3. Link(x.task) \notin touched => InPlace(x.task)'
  BY <1>1, <1>2, RightMeansThen DEF KeepsEntry
<1> QED
  BY <1>1, <1>3 DEF ComesToTheTruth, EndsTruly, Finals

(* A setting is done when the read-back has it. *)
LEMMA ConfirmIsTrue ==
  ASSUME NEW x, RunIsKnown(x), Confirm("run"), UNCHANGED <<install, world>>
  PROVE  ComesToTheTruth(x)
<1>1. /\ x.op = "confirm" /\ there' = there /\ x.task.kind \in {"direct-play", "graphics"}
      /\ x.task \in PlannedTask
      /\ Conclude("run", IF Has(x.task, 1) THEN "done" ELSE "error")
  BY DEF RunIsKnown, RequestFits, Confirm, Asking, remote
<1>2. Has(x.task, 1) => PartsAreRight(x.task)'
  <2>1. PartsOf(x.task)[1] = <<x.task.kind, x.task.of>>
    BY <1>1, PartsAre
  <2> QED
    BY <1>1, <2>1 DEF Has, PartsAreRight
<1>3. Has(x.task, 1) => InPlace(x.task)'
  BY <1>1, <1>2, RightMeansThen DEF KeepsEntry
<1> QED
  BY <1>1, <1>3 DEF ComesToTheTruth, EndsTruly, Finals

(* An entry that is as wanted is done; another is to be written. *)
LEMMA ListIsTrue ==
  ASSUME LinksAreSound, AppsAreSyncedWhereTheyAre, NEW x, RunIsKnown(x), List("run"),
         UNCHANGED <<install, world>>
  PROVE  ComesToTheTruth(x)
<1> DEFINE t  == x.task
           l  == Link(t)
           i  == FindEntry(t)
           ok == i > 0 /\ AsWanted(t, entries[l][i])
           free == l \notin touched
<1>1. /\ x.op = "list" /\ there' = there /\ entries' = entries /\ ids' = ids /\ visible' = visible
      /\ t.kind \in KeepsEntry /\ t \in PlannedTask /\ CallShape(x) /\ call["run"] = x
      /\ free => SightHolds(x)
  BY DEF RunIsKnown, RequestFits, List, Asking, remote, world, install
<1>2. l \in EntryLinks
  BY <1>1 DEF PlannedTask, WiringTask, MayBeAbout, KeepsEntry, EntryLinks, Partner, Link
<1>3. /\ i \in 0 .. Len(entries[l]) /\ entries[l] \in Seq(Entry)
      /\ i # 0 => entries[l][i].points = TargetOf(l) \/ entries[l][i].named
  BY <1>2, FindEntryFinds DEF LinksAreSound
<1>4. ok => EntryIsAccepted(l)
  <2> SUFFICES ASSUME ok PROVE EntryIsAccepted(l)
    OBVIOUS
  <2>1. i \in DOMAIN entries[l] /\ entries[l][i].good
    <3> HIDE DEF i, l
    <3>1. i \in 1 .. Len(entries[l])
      BY <1>3
    <3> QED
      BY <1>3, <3>1, LenProperties DEF AsWanted
  <2>2. \/ entries[l][i].points = TargetOf(l)
        \/ l[1] = "app-sync" /\ entries[l][i].named /\ entries[l][i].points = NoApp
    <3>1. CASE t.kind = "app-sync"
      <4>1. l = <<"app-sync", t.of>> /\ t.of \in Partner
        BY <1>1, <3>1 DEF Link, PlannedTask, WiringTask, MayBeAbout, Partner
      <4>2. entries[l][i].points \in {t.of, NoApp}
        <5> HIDE DEF i, l
        <5> QED
          BY <2>1, <4>1 DEF AppsAreSyncedWhereTheyAre
      <4>3. TargetOf(l) = t.of /\ l[1] = "app-sync"
        BY <4>1 DEF TargetOf, Target
      <4>4. entries[l][i].points = TargetOf(l) \/ entries[l][i].named
        BY <1>3
      <4> HIDE DEF i, l
      <4> QED
        BY <4>2, <4>3, <4>4
    <3>2. CASE t.kind # "app-sync"
      BY <3>2, TargetIsTargetOf DEF AsWanted, At
    <3> QED
      BY <3>1, <3>2
  <2> HIDE DEF i, l
  <2> QED
    BY <2>1, <2>2 DEF EntryIsAccepted
<1>5. EntryIsAccepted(l) => EntryIsAccepted(l)'
  BY <1>1 DEF EntryIsAccepted, TargetOf, Target
<1>6. \/ t.kind = "seerr" /\ \E new : /\ GoOn("run", new) /\ CallShape(new) /\ new.task = t
                                      /\ new.op = "test" /\ new.seen.ok = ok
      \/ t.kind # "seerr" /\ \E new : /\ GoOn("run", new) /\ CallShape(new) /\ new.task = t
                                      /\ new.op \in {"put", "schema"}
      \/ t.kind # "seerr" /\ ok /\ Conclude("run", "done")
  <2>1. PICK found, fine : found = i /\ fine = ok
    OBVIOUS
  <2>2. PICK seen : seen = [NoSeen EXCEPT !.at = found, !.ok = fine]
    OBVIOUS
  <2>3. DOMAIN seen = {"had", "at", "ok"} /\ seen.ok = fine
    BY <2>2 DEF NoSeen
  <2>4. PICK n : n = [x EXCEPT !.seen = seen]
    OBVIOUS
  <2>5. CallShape(n) /\ n.task = t /\ n.seen = seen
    BY <1>1, <2>3, <2>4, OneSeen
  <2>6. ASSUME NEW op PROVE LET y == [n EXCEPT !.op = op]
                            IN  CallShape(y) /\ y.task = t /\ y.op = op /\ y.seen = seen
    BY <2>5, OneField
  <2>7. [x EXCEPT !.seen = [NoSeen EXCEPT !.at = i, !.ok = ok]] = n
    BY <2>1, <2>2, <2>4
  <2> HIDE DEF i, ok, l
  <2>8. CASE t.kind = "seerr"
    <3>1. GoOn("run", [n EXCEPT !.op = "test"])
      BY <1>1, <2>7, <2>8 DEF List, i, ok, l
    <3>2. PICK new : /\ GoOn("run", new) /\ CallShape(new) /\ new.task = t
                     /\ new.op = "test" /\ new.seen = seen
      BY <2>6, <3>1
    <3>3. new.seen.ok = ok
      BY <2>1, <2>3, <3>2, Zenon
    <3> QED
      BY <2>8, <3>2, <3>3, Zenon
  <2>9. CASE t.kind # "seerr" /\ ok
    BY <1>1, <2>9 DEF List, i, ok, l
  <2>10. CASE t.kind # "seerr" /\ ~ok
    <3>1. GoOn("run", [n EXCEPT !.op = IF i > 0 THEN "put" ELSE "schema"])
      BY <1>1, <2>7, <2>10 DEF List, i, ok, l
    <3>2. PICK op \in {"put", "schema"} : op = IF i > 0 THEN "put" ELSE "schema"
      OBVIOUS
    <3> QED
      BY <2>6, <2>10, <3>1, <3>2
  <2> QED
    BY <2>8, <2>9, <2>10
<1> HIDE DEF ok, i, l
<1>7. ASSUME NEW new, GoOn("run", new), CallShape(new), new.task = t, t.kind = "seerr",
             new.op = "test", new.seen.ok = ok
      PROVE  ComesToTheTruth(x)
  <2>1. RequestFits(new)
    BY <1>7 DEF RequestFits
  <2>2. SightHolds(new)'
    BY <1>4, <1>5, <1>7 DEF SightHolds, l
  <2> QED
    BY <1>7, <2>1, <2>2 DEF ComesToTheTruth, GoesOnKnowing
<1>8. ASSUME NEW new, GoOn("run", new), CallShape(new), new.task = t,
             new.op \in {"put", "schema"}
      PROVE  ComesToTheTruth(x)
  <2>1. RequestFits(new)
    BY <1>1, <1>8 DEF RequestFits
  <2>2. free => SightHolds(new)'
    BY <1>1, <1>8 DEF SightHolds
  <2> QED
    BY <1>8, <2>1, <2>2 DEF ComesToTheTruth, GoesOnKnowing, l
<1>9. CASE t.kind # "seerr" /\ ok /\ Conclude("run", "done")
  <2>1. free => PartsAreRight(t)'
    BY <1>1, <1>9 DEF SightHolds, PartsAreRight, KeepsEntry
  <2>2. free => InPlace(t)'
    BY <1>1, <1>4, <1>5, <1>9, <2>1, RightMeansThen DEF l
  <2> QED
    BY <1>9, <2>2 DEF ComesToTheTruth, EndsTruly, Finals, l
<1> QED
  BY <1>6, <1>7, <1>8, <1>9

(* What Seerr has tested is done if it was as wanted. *)
LEMMA TestIsTrue ==
  ASSUME NEW x, RunIsKnown(x), Test("run"), UNCHANGED <<install, world>>
  PROVE  ComesToTheTruth(x)
<1>1. /\ x.op = "test" /\ there' = there /\ entries' = entries /\ ids' = ids
      /\ x.task.kind = "seerr" /\ x.task \in PlannedTask /\ call["run"] = x
      /\ Link(x.task) \notin touched => SightHolds(x)
  BY DEF RunIsKnown, RequestFits, Test, Asking, remote, install
<1>2. \/ Conclude("run", "error")
      \/ x.seen.ok /\ Conclude("run", "done")
      \/ \E op \in {"put", "post"} : Request("run", op)
  BY <1>1 DEF Test
<1>3. CASE x.seen.ok /\ Conclude("run", "done")
  <2>1. Link(x.task) \notin touched => EntryIsAccepted(Link(x.task))'
    BY <1>1, <1>3 DEF SightHolds, EntryIsAccepted, TargetOf, Target
  <2>2. PartsAreRight(x.task)'
    BY <1>1 DEF PartsAreRight
  <2>3. Link(x.task) \notin touched => InPlace(x.task)'
    BY <1>1, <2>1, <2>2, RightMeansThen
  <2> QED
    BY <1>3, <2>3 DEF ComesToTheTruth, EndsTruly, Finals
<1>4. ASSUME NEW op \in {"put", "post"}, Request("run", op)
      PROVE  ComesToTheTruth(x)
  <2>1. \A y : y.task = x.task /\ y.op = op => RequestFits(y) /\ SightHolds(y)'
    BY <1>1 DEF RequestFits, SightHolds, KeepsEntry
  <2> QED
    BY <1>4, <2>1, AnotherRequest
<1>5. CASE Conclude("run", "error")
  BY <1>5 DEF ComesToTheTruth, EndsTruly, Finals
<1> QED
  BY <1>2, <1>3, <1>4, <1>5

(* Seerr is skipped only where it has none of the libraries to turn on. *)
LEMMA SyncIsTrue ==
  ASSUME NEW x, RunIsKnown(x), Sync("run"), UNCHANGED <<install, world>>
  PROVE  ComesToTheTruth(x)
<1> DEFINE m == x.task.of
           free == Link(x.task) \notin touched
<1>1. /\ x.op = "sync" /\ there' = there /\ x.task.kind = "media-server"
      /\ x.task \in PlannedTask /\ call["run"] = x
      /\ free => SightHolds(x)
  BY DEF RunIsKnown, RequestFits, Sync, Asking, remote
<1>2. CASE Request("run", "enable")
  <2>1. \A y : y.task = x.task /\ y.op = "enable" /\ y.seen = x.seen =>
                 RequestFits(y) /\ (free => SightHolds(y)')
    BY <1>1 DEF RequestFits, SightHolds
  <2> QED
    BY <1>2, <2>1, AnotherRequest
<1>3. CASE /\ there \cap {<<"movies", m>>, <<"tv", m>>} = {}
           /\ Conclude("run", "skipped")
  <2>1. <<"movies", m>> \notin there /\ <<"tv", m>> \notin there
    BY <1>3
  <2>2. free => PartsAreRight(x.task)'
    BY <1>1, <2>1 DEF SightHolds, PartsAreRight
  <2>3. free => InPlace(x.task)'
    BY <1>1, <2>2, RightMeansThen DEF KeepsEntry
  <2> QED
    BY <1>3, <2>3 DEF ComesToTheTruth, EndsTruly, Finals
<1> QED
  BY <1>1, <1>2, <1>3 DEF Sync

(* Whatever was read, the run goes on knowing or ends the step truly. *)
LEMMA ReadIsTrue ==
  ASSUME LinksAreSound, AppsAreSyncedWhereTheyAre, NEW x, RunIsKnown(x), Read("run"),
         UNCHANGED <<install, world>>
  PROVE  ComesToTheTruth(x)
BY IdentityIsTrue, LookIsTrue, ProbeIsTrue, RelistIsTrue, ConfirmIsTrue, ListIsTrue,
   SchemaIsTrue, TestIsTrue, SyncIsTrue DEF Read

(* What a write adds; what was there stays. *)
LEMMA EffectAdds ==
  ASSUME NEW c, NEW x, call[c] = x, Effect(c)
  PROVE  /\ there \subseteq there'
         /\ x.op = "write"   => Head(x.todo) \in there'
         /\ x.op = "connect" => <<"connection", x.task.of>> \in there'
         /\ x.op = "enable"  => <<"enabled", x.task.of>> \in there'
         /\ x.op \notin {"post", "put"} => entries' = entries
<1> DEFINE part == CASE x.op = "write"   -> {Head(x.todo)}
                     [] x.op = "connect" -> {<<"connection", x.task.of>>}
                     [] x.op = "enable"  -> {<<"enabled", x.task.of>>}
                     [] x.op = "scan"    -> {<<"scan", "seerr">>}
                     [] OTHER            -> {}
<1>1. there' = there \cup part
  BY DEF Effect
<1>2. /\ x.op = "write"   => part = {Head(x.todo)}
      /\ x.op = "connect" => part = {<<"connection", x.task.of>>}
      /\ x.op = "enable"  => part = {<<"enabled", x.task.of>>}
  OBVIOUS
<1>3. x.op \notin {"post", "put"} => entries' = entries
  BY DEF Effect
<1> HIDE DEF part
<1> QED
  BY <1>1, <1>2, <1>3

(* A folder that is settled stays so while nothing is taken away. *)
LEMMA SettledStays ==
  ASSUME NEW m, NEW folder, NEW ok, there \subseteq there', visible' = visible
  PROVE  Settled(m, folder, ok) => Settled(m, folder, ok)'
BY DEF Settled

(* After a write of a part, the next part, the read-back or the end. *)
LEMMA AfterWriteIsTrue ==
  ASSUME NEW x, RunIsKnown(x), x.op = "write", AfterWrite("run"),
         there \subseteq there', visible' = visible,
         x.task.kind \in {"direct-play", "graphics"} \/ Head(x.todo) \in there'
  PROVE  ComesToTheTruth(x)
<1> DEFINE t == x.task
           m == t.of
           rest == Tail(x.todo)
           free == Link(t) \notin touched
<1>1. /\ t \in PlannedTask /\ CallShape(x) /\ call["run"] = x
      /\ t.kind \notin {"explain", "app-sync", "seerr", "media-server"}
      /\ free => SightHolds(x)
      /\ TodoFits(x)
  BY DEF RunIsKnown, RequestFits
<1>2. t.kind # "libraries" /\ free => x.todo = PartsOf(t)
  BY <1>1 DEF SightHolds
<1>3. ASSUME t.kind = "libraries", free
      PROVE  /\ FoldersAreSettled(x) /\ FoldersAreSettled(x)'
             /\ \A i \in DOMAIN PartsOf(t) : PartsOf(t)[i] \in x.seen.had => PartsOf(t)[i] \in there'
  <2>1. FoldersAreSettled(x)
    BY <1>1, <1>3 DEF SightHolds
  <2>2. FoldersAreSettled(x)'
    BY <2>1, SettledStays DEF FoldersAreSettled
  <2> QED
    BY <1>1, <1>3, <2>1, <2>2 DEF SightHolds
<1>4. CASE t.kind = "download-client"
  <2>1. Request("run", "list")
    BY <1>1, <1>4 DEF AfterWrite
  <2>2. free => <<"category", m>> \in there'
    <3>1. \A p : Head(<<p>>) = p
      OBVIOUS
    <3> QED
      BY <1>2, <1>4, <3>1, PartsAre
  <2>3. \A y : y.task = t /\ y.op = "list" => RequestFits(y) /\ (free => SightHolds(y)')
    BY <1>4, <2>2 DEF RequestFits, SightHolds, KeepsEntry
  <2> QED
    BY <2>1, <2>3, AnotherRequest
<1>5. CASE t.kind \in {"direct-play", "graphics"}
  <2>1. Request("run", "confirm")
    BY <1>1, <1>5 DEF AfterWrite
  <2>2. \A y : y.task = t /\ y.op = "confirm" => RequestFits(y) /\ SightHolds(y)'
    BY <1>5 DEF RequestFits, SightHolds
  <2> QED
    BY <2>1, <2>2, AnotherRequest
<1>6. CASE t.kind = "libraries" /\ m = "existing-plex"
  <2>1. PICK seen : seen = [x.seen EXCEPT !.at = 1]
    OBVIOUS
  <2>2. DOMAIN seen = {"had", "at", "ok"} /\ seen.had = x.seen.had /\ seen.ok = x.seen.ok
    BY <1>1, <2>1 DEF CallShape
  <2>3. NextFolder("run", seen)
    BY <1>1, <1>6, <2>1 DEF AfterWrite
  <2>4. free => Settled("existing-plex", Head(x.todo)[1], seen.ok)'
    <3> SUFFICES ASSUME free PROVE Head(x.todo) = <<Head(x.todo)[1], "existing-plex">>
      BY <1>6 DEF Settled
    <3>1. \A p : Head(<<p>>) = p
      OBVIOUS
    <3>2. \A p, q : Head(<<p, q>>) = p
      OBVIOUS
    <3> QED
      BY <1>3, <1>6, <3>1, <3>2 DEF FoldersAreSettled
  <2>5. free => /\ FoldersAreSettled(x)'
                /\ seen.ok => x.seen.ok
                /\ Settled("existing-plex", Head(x.todo)[1], seen.ok)'
                /\ \A i \in DOMAIN PartsOf(t) :
                     PartsOf(t)[i] \in seen.had => PartsOf(t)[i] \in there'
    BY <1>3, <1>6, <2>2, <2>4
  <2> QED
    BY <1>1, <1>6, <2>2, <2>3, <2>5, NextFolderIsTrue
<1>7. CASE t.kind = "libraries" /\ m # "existing-plex"
  <2>1. free => \/ /\ x.todo = <<<<"movies", m>>, <<"tv", m>>>> /\ rest = <<<<"tv", m>>>>
                   /\ <<"movies", m>> \in there'
                \/ /\ Len(x.todo) = 1 /\ rest = <<>>
                   /\ <<"movies", m>> \in there' /\ <<"tv", m>> \in there'
    <3> SUFFICES ASSUME free
                 PROVE  \/ /\ x.todo = <<<<"movies", m>>, <<"tv", m>>>> /\ rest = <<<<"tv", m>>>>
                           /\ <<"movies", m>> \in there'
                        \/ /\ Len(x.todo) = 1 /\ rest = <<>>
                           /\ <<"movies", m>> \in there' /\ <<"tv", m>> \in there'
      OBVIOUS
    <3>1. \A p : Head(<<p>>) = p /\ Tail(<<p>>) = <<>> /\ Len(<<p>>) = 1
      OBVIOUS
    <3>2. \A p, q : Head(<<p, q>>) = p /\ Tail(<<p, q>>) = <<q>>
      OBVIOUS
    <3>3. \/ x.todo = <<<<"movies", m>>, <<"tv", m>>>>
          \/ x.todo = <<<<"tv", m>>>> /\ <<"movies", m>> \in there'
          \/ x.todo = <<<<"movies", m>>>> /\ <<"tv", m>> \in there'
      BY <1>3, <1>7 DEF FoldersAreSettled, Settled
    <3> QED
      BY <1>7, <3>1, <3>2, <3>3
  <2>2. CASE rest # <<>> /\ GoOn("run", [x EXCEPT !.todo = rest])
    <3>1. PICK y : y = [x EXCEPT !.todo = rest]
      OBVIOUS
    <3>2. CallShape(y) /\ y.task = t /\ y.op = "write" /\ y.seen = x.seen /\ y.todo = rest
      BY <1>1, <3>1, OneTodo
    <3>3. RequestFits(y)
      BY <1>1, <1>7, <2>2, <3>2, RestFits DEF RequestFits, TodoFits
    <3>4. free => SightHolds(y)'
      BY <1>3, <1>7, <2>1, <2>2, <3>2 DEF SightHolds, FoldersAreSettled, Settled
    <3> QED
      BY <2>2, <3>1, <3>2, <3>3, <3>4 DEF ComesToTheTruth, GoesOnKnowing
  <2>3. CASE rest = <<>> /\ Conclude("run", "done")
    <3>1. <<<<"tv", m>>>> # <<>>
      OBVIOUS
    <3>2. free => PartsAreRight(t)'
      BY <1>7, <2>1, <2>3, <3>1 DEF PartsAreRight, Settled
    <3>3. free => InPlace(t)'
      BY <1>1, <1>7, <3>2, RightMeansThen DEF KeepsEntry
    <3> QED
      BY <2>3, <3>3 DEF ComesToTheTruth, EndsTruly, Finals
  <2>4. \/ rest # <<>> /\ GoOn("run", [x EXCEPT !.todo = rest])
        \/ rest = <<>> /\ Conclude("run", "done")
    <3>1. CASE rest # <<>>
      BY <1>1, <1>7, <3>1 DEF AfterWrite
    <3>2. CASE rest = <<>>
      BY <1>1, <1>7, <3>2 DEF AfterWrite
    <3> QED
      BY <3>1, <3>2
  <2> QED
    BY <2>2, <2>3, <2>4
<1>8. CASE t.kind \in {"downloader-settings", "root-folder"}
  <2>1. Conclude("run", "done")
    BY <1>1, <1>8 DEF AfterWrite
  <2>2. free => <<t.kind, m>> \in there'
    <3>1. \A p : Head(<<p>>) = p
      OBVIOUS
    <3> QED
      BY <1>2, <1>8, <3>1, PartsAre
  <2>3. free => PartsAreRight(t)'
    BY <1>8, <2>2 DEF PartsAreRight
  <2>4. free => InPlace(t)'
    BY <1>1, <1>8, <2>3, RightMeansThen DEF KeepsEntry
  <2> QED
    BY <2>1, <2>4 DEF ComesToTheTruth, EndsTruly, Finals
<1> QED
  BY <1>1, <1>4, <1>5, <1>6, <1>7, <1>8 DEF PlannedTask, WiringTask, Kinds

(* A new entry, or one that is changed, is as it is wanted. *)
LEMMA EntryIsWritten ==
  ASSUME LinksAreSound, NEW c \in Actor, NEW x, call[c] = x, x.op \in {"put", "post"}, ~Gone(c),
         Effect(c), ids' = ids, Link(x.task) \in EntryLinks
  PROVE  EntryIsAccepted(Link(x.task))'
<1> DEFINE t  == x.task
           l  == Link(t)
           at == x.seen.at
           mine == [points |-> Target(t, ids), named |-> TRUE, good |-> TRUE]
<1>1. EntriesAreSound(l) /\ entries \in [EntryLinks -> Seq(Entry)] /\ TargetOf(l)' = TargetOf(l)
  BY DEF LinksAreSound, TargetOf, Target
<1>2. PICK seq \in Seq(Entry) : seq = entries[l]
  BY <1>1
<1>3. mine.good /\ mine.points = TargetOf(l)
  BY TargetIsTargetOf
<1>4. CASE x.op = "post"
  <2>1. entries' = [entries EXCEPT ![l] = Append(entries[l], mine)]
    BY <1>4 DEF Effect
  <2>2. PICK e : e = mine
    OBVIOUS
  <2>3. entries'[l] = Append(seq, e)
    <3> HIDE DEF l, mine
    <3> QED
      BY <1>1, <1>2, <2>1, <2>2 DEF l
  <2>4. e \in Entry
    BY <1>3, <2>2, TargetIsAnApp DEF Entry
  <2>5. Len(seq) + 1 \in DOMAIN Append(seq, e) /\ Append(seq, e)[Len(seq) + 1] = e
    BY <2>4, AppendProperties, LenProperties
  <2> QED
    BY <1>1, <1>3, <2>2, <2>3, <2>5 DEF EntryIsAccepted
<1>5. CASE x.op = "put"
  <2> DEFINE named == t.kind = "download-client" \/ entries[l][at].named
  <2>1. entries' = [entries EXCEPT ![l][at] = [mine EXCEPT !.named = named]]
    BY <1>5 DEF Effect
  <2>2. PICK e : e = [mine EXCEPT !.named = named]
    OBVIOUS
  <2>3. e.good /\ e.points = TargetOf(l)
    <3> HIDE DEF named
    <3> QED
      BY <1>3, <2>2
  <2>4. at \in 1 .. Len(seq)
    <3>1. LooksAreSound(x)
      BY DEF LinksAreSound, Actor
    <3>2. at \in Nat \ {0}
      BY <1>5, <3>1 DEF LooksAreSound
    <3>3. ~(at > Len(seq))
      BY <1>2, <1>5 DEF Gone
    <3> QED
      BY <1>2, <3>2, <3>3, LenProperties
  <2>5. entries'[l] = [seq EXCEPT ![at] = e]
    <3> HIDE DEF l, mine, named, at
    <3> QED
      BY <1>1, <1>2, <2>1, <2>2 DEF l
  <2>6. at \in DOMAIN [seq EXCEPT ![at] = e] /\ [seq EXCEPT ![at] = e][at] = e
    BY <1>2, <2>4, LenProperties
  <2> QED
    BY <1>1, <2>3, <2>5, <2>6 DEF EntryIsAccepted
<1> QED
  BY <1>4, <1>5

(* Whatever was written, the run goes on knowing or ends the step truly. *)
LEMMA WriteIsTrue ==
  ASSUME LinksAreSound, NEW x, RunIsKnown(x), Write("run"), UNCHANGED <<install, world>>
  PROVE  ComesToTheTruth(x)
<1> DEFINE t == x.task
           m == t.of
           free == Link(t) \notin touched
<1>1. /\ t \in PlannedTask /\ CallShape(x) /\ call["run"] = x /\ RequestFits(x)
      /\ free => SightHolds(x)
      /\ Effect("run") /\ ~Gone("run") /\ Proceed("run") /\ x.op \in Writes
      /\ ids' = ids /\ visible' = visible
  BY DEF RunIsKnown, Write, install, world
<1>2. CASE x.op = "write"
  <2>1. AfterWrite("run")
    BY <1>1, <1>2 DEF Proceed
  <2> QED
    BY <1>1, <1>2, <2>1, EffectAdds, AfterWriteIsTrue
<1>3. CASE x.op = "connect"
  <2>1. Request("run", "sync") /\ t.kind = "media-server"
    BY <1>1, <1>3 DEF Proceed, RequestFits
  <2>2. free => \A i \in DOMAIN PartsOf(t) : PartsOf(t)[i] \in x.seen.had => PartsOf(t)[i] \in there'
    BY <1>1, <1>3, EffectAdds DEF SightHolds
  <2>3. <<"connection", m>> \in there'
    BY <1>1, <1>3, EffectAdds
  <2>4. \A y : y.task = t /\ y.op = "sync" /\ y.seen = x.seen => RequestFits(y) /\ (free => SightHolds(y)')
    BY <2>1, <2>2, <2>3 DEF RequestFits, SightHolds
  <2> QED
    BY <2>1, <2>4, AnotherRequest
<1>4. CASE x.op = "enable"
  <2>1. /\ t.kind = "media-server"
        /\ \/ Request("run", "scan")
           \/ Conclude("run", "done")
    BY <1>1, <1>4 DEF Proceed, RequestFits
  <2>2. free => <<"connection", m>> \in there' /\ <<"enabled", m>> \in there'
    BY <1>1, <1>4, EffectAdds DEF SightHolds
  <2>3. \A y : y.task = t /\ y.op = "scan" => RequestFits(y) /\ (free => SightHolds(y)')
    BY <2>1, <2>2 DEF RequestFits, SightHolds
  <2>4. free => PartsAreRight(t)'
    BY <2>1, <2>2 DEF PartsAreRight
  <2>5. free => InPlace(t)'
    BY <1>1, <2>1, <2>4, RightMeansThen DEF KeepsEntry
  <2>6. CASE Request("run", "scan")
    BY <2>3, <2>6, AnotherRequest
  <2>7. CASE Conclude("run", "done")
    BY <2>5, <2>7 DEF ComesToTheTruth, EndsTruly, Finals
  <2> QED
    BY <2>1, <2>6, <2>7
<1>5. CASE x.op = "scan"
  <2>1. t.kind = "media-server" /\ Conclude("run", "done")
    BY <1>1, <1>5 DEF Proceed, RequestFits
  <2>2. free => PartsAreRight(t)'
    BY <1>1, <1>5, <2>1, EffectAdds DEF SightHolds, PartsAreRight
  <2>3. free => InPlace(t)'
    BY <1>1, <2>1, <2>2, RightMeansThen DEF KeepsEntry
  <2> QED
    BY <2>1, <2>3 DEF ComesToTheTruth, EndsTruly, Finals
<1>6. CASE x.op \in {"put", "post"}
  <2>1. t.kind \in KeepsEntry /\ Conclude("run", "done")
    BY <1>1, <1>6 DEF Proceed, RequestFits
  <2>2. Link(t) \in EntryLinks
    BY <1>1, <2>1 DEF PlannedTask, WiringTask, MayBeAbout, KeepsEntry, EntryLinks, Partner, Link
  <2>3. EntryIsAccepted(Link(t))'
    BY <1>1, <1>6, <2>2, EntryIsWritten DEF Actor
  <2>4. free => PartsAreRight(t)'
    BY <1>1, <1>6, <2>1, EffectAdds DEF SightHolds, PartsAreRight, KeepsEntry
  <2>5. free => InPlace(t)'
    BY <1>1, <2>3, <2>4, RightMeansThen
  <2> QED
    BY <2>1, <2>5 DEF ComesToTheTruth, EndsTruly, Finals
<1> QED
  BY <1>1, <1>2, <1>3, <1>4, <1>5, <1>6 DEF Writes

(* What every request of the run comes to is the truth. *)
LEMMA RunStepIsTrue ==
  ASSUME LinksAreSound, AppsAreSyncedWhereTheyAre, NEW x, RunIsKnown(x), Step("run")
  PROVE  ComesToTheTruth(x)
<1>1. UNCHANGED <<install, world>>
  BY DEF Step
<1>2. CASE Read("run")
  BY <1>1, <1>2, ReadIsTrue
<1>3. CASE Write("run")
  BY <1>1, <1>3, WriteIsTrue
<1>4. CASE Unserved("run") \/ AnswerLost("run")
  BY <1>4, ApplyAgainIsTrue DEF Unserved, AnswerLost
<1>5. CASE Refused("run")
  BY <1>5 DEF Refused, ComesToTheTruth, EndsTruly, Finals
<1>6. CASE Ignored
  <2>1. /\ x.op = "write" /\ x.task.kind \in {"direct-play", "graphics"} /\ AfterWrite("run")
        /\ there' = there /\ visible' = visible
    BY <1>1, <1>6 DEF Ignored, Asking, RunIsKnown, remote, world
  <2> QED
    BY <2>1, AfterWriteIsTrue
<1> QED
  BY <1>2, <1>3, <1>4, <1>5, <1>6 DEF Step

------------------------------------------------------------------------------
(* What the run knows stays so *)

Learnt == PlanIsFollowed /\ RunKnows /\ AppsAreSyncedWhereTheyAre

(* The step of a link, told from the name of a part. *)
KindOf(name) ==
  CASE name \in {"movies", "tv"}          -> "libraries"
    [] name = "category"                  -> "download-client"
    [] name \in {"connection", "enabled"} -> "media-server"
    [] OTHER                              -> name

(* No two steps share a part. *)
LEMMA PartTellsLink ==
  ASSUME NEW t \in PlannedTask, NEW i \in DOMAIN PartsOf(t)
  PROVE  t.kind = KindOf(PartsOf(t)[i][1]) /\ t.of = PartsOf(t)[i][2]
<1>1. /\ \A a : DOMAIN <<a>> = {1} /\ <<a>>[1] = a
      /\ \A a, b : DOMAIN <<a, b>> = {1, 2} /\ <<a, b>>[1] = a /\ <<a, b>>[2] = b
      /\ DOMAIN <<>> = {}
  OBVIOUS
<1>2. CASE t.kind = "libraries"
  <2>1. PartsOf(t)[i] \in {<<"movies", t.of>>, <<"tv", t.of>>}
    BY <1>1, <1>2, PartsAre
  <2> QED
    BY <1>2, <2>1 DEF KindOf
<1>3. CASE t.kind = "media-server"
  <2>1. PartsOf(t)[i] \in {<<"connection", t.of>>, <<"enabled", t.of>>}
    BY <1>1, <1>3, PartsAre
  <2> QED
    BY <1>3, <2>1 DEF KindOf
<1>4. CASE t.kind = "download-client"
  <2>1. PartsOf(t)[i] = <<"category", t.of>>
    BY <1>1, <1>4, PartsAre
  <2> QED
    BY <1>4, <2>1 DEF KindOf
<1>5. CASE t.kind \in {"downloader-settings", "root-folder", "direct-play", "graphics"}
  <2>1. PartsOf(t)[i] = <<t.kind, t.of>>
    BY <1>1, <1>5, PartsAre
  <2> QED
    BY <1>5, <2>1 DEF KindOf
<1>6. CASE t.kind \in {"explain", "app-sync", "seerr"}
  BY <1>1, <1>6, PartsAre
<1> QED
  BY <1>2, <1>3, <1>4, <1>5, <1>6 DEF PlannedTask, WiringTask, Kinds

(* Two links share no part. *)
LEMMA PartsAreApart ==
  \A t, u \in PlannedTask :
    \A i \in DOMAIN PartsOf(t), j \in DOMAIN PartsOf(u) :
      PartsOf(t)[i] = PartsOf(u)[j] => Link(t) = Link(u)
BY PartTellsLink DEF Link

(* The steps of the plan in progress. *)
LEMMA StepsArePlanned ==
  ASSUME RowsTellTheRun, PlanIsFollowed, run.on
  PROVE  /\ run.plan \in Seq(WiringTask) /\ Len(run.plan) \in Nat /\ run.at \in 1 .. Len(run.plan)
         /\ Tasks(run.plan) = Wanted(run.who, ids, graphics, Kinds)
         /\ \A i \in 1 .. Len(run.plan) : run.plan[i] \in PlannedTask /\ run.plan[i] \in Tasks(run.plan)
<1>1. run.plan \in Seq(WiringTask) /\ Tasks(run.plan) = Wanted(run.who, ids, graphics, Kinds)
  BY PlanIsASequence, PlanHolds DEF PlanIsFollowed
<1>2. Len(run.plan) \in Nat /\ DOMAIN run.plan = 1 .. Len(run.plan)
  BY <1>1, LenProperties
<1>3. \A i \in 1 .. Len(run.plan) : run.plan[i] \in Tasks(run.plan)
  BY <1>2 DEF Tasks
<1> QED
  BY <1>1, <1>2, <1>3 DEF Wanted, RowsTellTheRun

(* What the invariants say of the step the run is at. *)
LEMMA KnownIsKnown ==
  ASSUME RowsTellTheRun, LinksAreSound, Learnt, run.on
  PROVE  RunIsKnown(call["run"]) /\ call["run"].task = run.plan[run.at]
<1>1. call["run"].task \in PlannedTask /\ call["run"].task = run.plan[run.at]
  BY StepsArePlanned DEF Learnt, PlanIsFollowed
<1> QED
  BY <1>1 DEF RunIsKnown, RowsTellTheRun, LinksAreSound, Learnt, RunKnows, Actor

(* A step begins by waiting for its apps, or with its first request. *)
LEMMA CallForBegins ==
  ASSUME NEW t, NEW ready
  PROVE  CallFor(t, ready).task = t /\ CallFor(t, ready).op \in {"wait", FirstOp(t)}
<1>1. PICK op \in {"wait", FirstOp(t)} : op = IF ToProve(t, ready) = <<>> THEN FirstOp(t) ELSE "wait"
  OBVIOUS
<1>2. CallFor(t, ready) = [NoCall EXCEPT !.task = t, !.op = op]
  BY <1>1 DEF CallFor
<1> QED
  BY <1>2 DEF NoCall

(* At its beginning a step relies on nothing. *)
LEMMA BeginningIsKnown ==
  ASSUME NEW x, x.task \in PlannedTask, x.op \in {"wait", FirstOp(x.task)}
  PROVE  RequestFits(x) /\ SightHolds(x) /\ SightHolds(x)'
<1>1. RequestFits(x) /\ SightHolds(x)
  BY FirstOpFits
<1>2. /\ x.op \in {"wait", "explain", "identity", "look", "list"}
      /\ x.op = "list" => x.task.kind \in {"app-sync", "seerr"}
  BY DEF FirstOp
<1>3. SightHolds(x)'
  BY <1>2 DEF SightHolds
<1> QED
  BY <1>1, <1>3

(* A run begins with its first step, and its plan is the one for its app. *)
LEMMA BeginRunIsKnown ==
  ASSUME RowsTellTheRun, ~run.on, NEW who \in App \cup {NoApp}, NEW plan, BeginRun(who, plan),
         plan = PlanFor(who, ids', graphics')
  PROVE  PlanIsFollowed' /\ RunKnows' /\ call'["hook"] = call["hook"]
<1>1. DOMAIN call = Actor /\ run.on = FALSE
  BY DEF RowsTellTheRun
<1>2. CASE plan = <<>>
  <2>1. run' = run /\ call' = [call EXCEPT !["run"] = NoCall]
    BY <1>2 DEF BeginRun, SetCall
  <2> QED
    BY <1>1, <2>1 DEF PlanIsFollowed, RunKnows, Actor
<1>3. CASE plan # <<>>
  <2>1. /\ run' = [on |-> TRUE, who |-> who, plan |-> plan, at |-> 1, ready |-> {}]
        /\ call' = [call EXCEPT !["run"] = CallFor(plan[1], {})]
    BY <1>3 DEF BeginRun, SetCall
  <2>2. PICK S, g : S = ids' /\ g = graphics'
    OBVIOUS
  <2>3. plan = PlanFor(who, S, g)
    BY <2>2
  <2>4. plan \in Seq(WiringTask) /\ Tasks(plan) = Wanted(who, S, g, Kinds)
    BY <2>3, PlanIsASequence, PlanHolds
  <2>5. plan[1] \in PlannedTask
    <3>1. 1 \in DOMAIN plan
      BY <1>3, <2>4
    <3>2. plan[1] \in Tasks(plan)
      BY <3>1 DEF Tasks
    <3> QED
      BY <2>4, <3>2 DEF Wanted
  <2>6. call'["run"] = CallFor(plan[1], {}) /\ call'["hook"] = call["hook"]
    BY <1>1, <2>1 DEF Actor
  <2>7. PICK x : x = CallFor(plan[1], {})
    OBVIOUS
  <2>8. x.task = plan[1] /\ x.op \in {"wait", FirstOp(x.task)}
    BY <2>7, CallForBegins
  <2>9. RequestFits(x) /\ SightHolds(x)'
    BY <2>5, <2>8, BeginningIsKnown
  <2>10. RunKnows'
    BY <2>6, <2>7, <2>9 DEF RunKnows
  <2>11. PlanIsFollowed'
    BY <2>1, <2>6, <2>7, <2>8 DEF PlanIsFollowed
  <2> QED
    BY <2>6, <2>10, <2>11
<1> QED
  BY <1>2, <1>3

(* After a step, the run is at the next one, or over. *)
LEMMA FinalFrameIsKnown ==
  ASSUME RowsTellTheRun, Learnt, run.on, UNCHANGED install, NEW v, FinalFrame(v)
  PROVE  PlanIsFollowed' /\ RunKnows' /\ call'["hook"] = call["hook"]
<1>1. DOMAIN call = Actor /\ DOMAIN run = {"on", "who", "plan", "at", "ready"}
      /\ ids' = ids /\ graphics' = graphics
  BY DEF RowsTellTheRun, install
<1>2. CASE run.at = Len(run.plan)
  <2>1. run' = NoOne /\ call' = [call EXCEPT !["run"] = NoCall]
    BY <1>2 DEF FinalFrame, NextTask, EndRun, SetCall
  <2> QED
    BY <1>1, <2>1 DEF PlanIsFollowed, RunKnows, NoOne, Actor
<1>3. CASE run.at # Len(run.plan)
  <2> DEFINE t == run.plan[run.at + 1]
  <2>1. /\ run' = [run EXCEPT !.at = run.at + 1]
        /\ call' = [call EXCEPT !["run"] = CallFor(t, run.ready)]
    BY <1>3 DEF FinalFrame, NextTask, SetCall
  <2>2. run'.at = run.at + 1 /\ run'.plan = run.plan /\ run'.who = run.who
    BY <1>1, <2>1
  <2>3. t \in PlannedTask
    <3>1. run.at + 1 \in 1 .. Len(run.plan)
      BY <1>3, StepsArePlanned DEF Learnt
    <3> QED
      BY <3>1, StepsArePlanned DEF Learnt
  <2>4. PICK x : x = CallFor(t, run.ready)
    OBVIOUS
  <2> HIDE DEF t
  <2>5. call'["run"] = x /\ call'["hook"] = call["hook"]
    BY <1>1, <2>1, <2>4 DEF Actor
  <2>6. x.task = t /\ x.op \in {"wait", FirstOp(x.task)}
    BY <2>4, CallForBegins
  <2>7. RequestFits(x) /\ SightHolds(x)'
    BY <2>3, <2>6, BeginningIsKnown
  <2>8. RunKnows'
    BY <2>5, <2>7 DEF RunKnows
  <2>9. PlanIsFollowed'
    BY <1>1, <2>2, <2>5, <2>6 DEF PlanIsFollowed, Learnt, t
  <2> QED
    BY <2>5, <2>8, <2>9
<1> QED
  BY <1>2, <1>3

(* What the owner changes of another link is not what the run relies on. *)
LEMMA SightStays ==
  ASSUME NEW x, x.task \in PlannedTask, RequestFits(x), SightHolds(x), ids' = ids,
         \A i \in DOMAIN PartsOf(x.task) : PartsOf(x.task)[i] \in there => PartsOf(x.task)[i] \in there',
         x.task.kind = "libraries" /\ x.task.of = "existing-plex" => visible' = visible,
         x.task.kind \in KeepsEntry => entries'[Link(x.task)] = entries[Link(x.task)]
  PROVE  SightHolds(x)'
<1> DEFINE t == x.task
           m == t.of
<1>1. \A p : p \in {PartsOf(t)[i] : i \in DOMAIN PartsOf(t)} /\ p \in there => p \in there'
  OBVIOUS
<1>2. /\ t.kind = "libraries" => \A folder \in {"movies", "tv"} : <<folder, m>> \in there => <<folder, m>> \in there'
      /\ t.kind = "download-client" =>
           (<<"category", m>> \in there => <<"category", m>> \in there')
      /\ t.kind = "media-server" =>
           \A part \in {"connection", "enabled"} : <<part, m>> \in there => <<part, m>> \in there'
  <2>1. \A a : DOMAIN <<a>> = {1} /\ <<a>>[1] = a
    OBVIOUS
  <2>2. \A a, b : DOMAIN <<a, b>> = {1, 2} /\ <<a, b>>[1] = a /\ <<a, b>>[2] = b
    OBVIOUS
  <2>3. CASE t.kind = "libraries"
    <3>1. PartsOf(t) = <<<<"movies", m>>, <<"tv", m>>>>
      BY <2>3, PartsAre
    <3>2. DOMAIN PartsOf(t) = {1, 2} /\ PartsOf(t)[1] = <<"movies", m>> /\ PartsOf(t)[2] = <<"tv", m>>
      BY <2>2, <3>1
    <3> QED
      BY <2>3, <3>2
  <2>4. CASE t.kind = "media-server"
    <3>1. PartsOf(t) = <<<<"connection", m>>, <<"enabled", m>>>>
      BY <2>4, PartsAre
    <3>2. DOMAIN PartsOf(t) = {1, 2} /\ PartsOf(t)[1] = <<"connection", m>> /\ PartsOf(t)[2] = <<"enabled", m>>
      BY <2>2, <3>1
    <3> QED
      BY <2>4, <3>2
  <2>5. CASE t.kind = "download-client"
    <3>1. PartsOf(t) = <<<<"category", m>>>>
      BY <2>5, PartsAre
    <3>2. DOMAIN PartsOf(t) = {1} /\ PartsOf(t)[1] = <<"category", m>>
      BY <2>1, <3>1
    <3> QED
      BY <2>5, <3>2
  <2> QED
    BY <2>3, <2>4, <2>5
<1>3. x.op \in {"probe", "write"} /\ t.kind = "libraries" => FoldersAreSettled(x)'
  <2> SUFFICES ASSUME x.op \in {"probe", "write"}, t.kind = "libraries" PROVE FoldersAreSettled(x)'
    OBVIOUS
  <2>1. FoldersAreSettled(x)
    BY DEF SightHolds
  <2>2. \A folder \in {"movies", "tv"} : Settled(m, folder, x.seen.ok) => Settled(m, folder, x.seen.ok)'
    BY <1>2 DEF Settled
  <2> QED
    BY <2>1, <2>2 DEF FoldersAreSettled
<1>4. x.op = "relist" => Settled(m, "movies", x.seen.ok)' /\ Settled(m, "tv", x.seen.ok)'
  <2> SUFFICES ASSUME x.op = "relist"
               PROVE  Settled(m, "movies", x.seen.ok)' /\ Settled(m, "tv", x.seen.ok)'
    OBVIOUS
  <2>1. t.kind = "libraries" /\ Settled(m, "movies", x.seen.ok) /\ Settled(m, "tv", x.seen.ok)
    BY DEF SightHolds, RequestFits
  <2> QED
    BY <1>2, <2>1 DEF Settled
<1>5. x.op = "test" /\ x.seen.ok => EntryIsAccepted(Link(t))'
  BY DEF SightHolds, RequestFits, EntryIsAccepted, TargetOf, Target, KeepsEntry
<1> QED
  BY <1>2, <1>3, <1>4, <1>5 DEF SightHolds, RequestFits

(* What is planned of the install are steps told by their links. *)
LEMMA PlannedIsTask ==
  /\ \A t \in Planned : t \in PlannedTask
  /\ Planned = Wanted(NoApp, ids, graphics, Kinds)
<1>1. Planned = Wanted(NoApp, ids, graphics, Kinds)
  BY PlanHolds DEF Planned, PlanWiring
<1> QED
  BY <1>1 DEF Wanted

(* What the owner changes by hand: a part or an entry of one link. *)
LEMMA EditChanges ==
  ASSUME NEW t \in Planned, Edit(t)
  PROVE  /\ ids' = ids /\ graphics' = graphics /\ run' = run /\ rows' = rows /\ call' = call
         /\ told' = told /\ gaps' = gaps
         /\ t \in PlannedTask /\ touched' = touched \cup {Link(t)}
         /\ \A u \in PlannedTask : Link(u) # Link(t) =>
              /\ \A i \in DOMAIN PartsOf(u) : PartsOf(u)[i] \in there <=> PartsOf(u)[i] \in there'
              /\ u.kind = "libraries" /\ u.of = "existing-plex" => visible' = visible
              /\ entries'[Link(u)] = entries[Link(u)]
         /\ there' \subseteq there
<1>1. /\ ids' = ids /\ graphics' = graphics /\ run' = run /\ rows' = rows /\ call' = call
      /\ told' = told /\ gaps' = gaps
      /\ t \in PlannedTask /\ touched' = touched \cup {Link(t)}
  BY PlannedIsTask DEF Edit, install, report
<1>2. CASE \E i \in DOMAIN PartsOf(t) : EditPart(t, i)
  <2>1. PICK i \in DOMAIN PartsOf(t) : /\ there' = there \ {PartsOf(t)[i]}
                                       /\ entries' = entries /\ visible' = visible
    BY <1>2 DEF EditPart
  <2>2. ASSUME NEW u \in PlannedTask, Link(u) # Link(t), NEW j \in DOMAIN PartsOf(u)
        PROVE  PartsOf(u)[j] \in there <=> PartsOf(u)[j] \in there'
    BY <1>1, <2>1, <2>2, PartsAreApart
  <2> QED
    BY <1>1, <2>1, <2>2
<1>3. CASE EditEntry(t)
  <2>1. there' = there /\ visible' = visible /\ \E new : entries' = [entries EXCEPT ![Link(t)] = new]
    BY <1>3 DEF EditEntry
  <2>2. \A l : l # Link(t) => entries'[l] = entries[l]
    BY <2>1
  <2> QED
    BY <1>1, <2>1, <2>2
<1>4. CASE MapFolders(t)
  <2>1. t.kind = "libraries" /\ t.of = "existing-plex" /\ there' = there /\ entries' = entries
    BY <1>4 DEF MapFolders, remote
  <2> QED
    BY <1>1, <2>1 DEF Link
<1> QED
  BY <1>2, <1>3, <1>4 DEF Edit

(* What the owner edits is marked, and the run relies on it no more. *)
LEMMA EditKeepsKnowledge ==
  ASSUME RowsTellTheRun, LinksAreSound, Learnt, NEW t \in Planned, Edit(t)
  PROVE  PlanIsFollowed' /\ RunKnows'
<1>1. /\ ids' = ids /\ graphics' = graphics /\ run' = run /\ call' = call
      /\ touched' = touched \cup {Link(t)}
  BY EditChanges
<1>2. PlanIsFollowed'
  BY <1>1 DEF Learnt, PlanIsFollowed
<1>3. RunKnows'
  <2> SUFFICES ASSUME run.on PROVE RunKnows'
    BY <1>1 DEF RunKnows
  <2>1. PICK x : x = call["run"]
    OBVIOUS
  <2>2. RunIsKnown(x)
    BY <2>1, KnownIsKnown
  <2>3. ASSUME Link(x.task) \notin touched' PROVE SightHolds(x)'
    <3>1. Link(x.task) \notin touched /\ Link(x.task) # Link(t)
      BY <1>1, <2>3
    <3>2. x.task \in PlannedTask /\ RequestFits(x) /\ SightHolds(x)
      BY <2>2, <3>1 DEF RunIsKnown
    <3> QED
      BY <1>1, <3>1, <3>2, EditChanges, SightStays
  <2> QED
    BY <1>1, <2>1, <2>2, <2>3 DEF RunKnows, RunIsKnown
<1> QED
  BY <1>2, <1>3

(* What is written to an application's entry says where the app is. *)
LEMMA EffectKeepsAppsSynced ==
  ASSUME LinksAreSound, AppsAreSyncedWhereTheyAre, ids' = ids, NEW c \in Actor, ~Gone(c), Effect(c)
  PROVE  AppsAreSyncedWhereTheyAre'
<1> SUFFICES ASSUME NEW p \in Partner,
                    NEW i \in DOMAIN entries'[<<"app-sync", p>>]
             PROVE  entries'[<<"app-sync", p>>][i].points \in {p, NoApp}
  BY DEF AppsAreSyncedWhereTheyAre
<1> DEFINE t    == call[c].task
           at   == call[c].seen.at
           mine == [points |-> Target(t, ids), named |-> TRUE, good |-> TRUE]
<1>1. PICK k : k = <<"app-sync", p>>
  OBVIOUS
<1>2. PICK l : l = Link(t)
  OBVIOUS
<1>3. /\ k \in EntryLinks /\ entries \in [EntryLinks -> Seq(Entry)] /\ LooksAreSound(call[c])
      /\ k[1] = "app-sync" /\ k[2] = p
  BY <1>1 DEF LinksAreSound, EntryLinks, KeepsEntry
<1>4. PICK seq \in Seq(Entry) : seq = entries[k]
  BY <1>3
<1>5. \A j \in DOMAIN seq : seq[j].points \in {p, NoApp}
  BY <1>1, <1>4 DEF AppsAreSyncedWhereTheyAre
<1>6. mine.points = TargetOf(l)
  BY <1>2, TargetIsTargetOf
<1>7. l = k => TargetOf(l) = p
  BY <1>3 DEF TargetOf, Target
<1>8. CASE entries' = entries
  BY <1>1, <1>4, <1>5, <1>8
<1>9. CASE call[c].op = "post"
  <2>1. PICK e : e = mine
    OBVIOUS
  <2>2. entries' = [entries EXCEPT ![l] = Append(entries[l], e)]
    BY <1>2, <1>9, <2>1 DEF Effect
  <2>3. CASE l # k
    <3>1. entries'[k] = entries[k]
      BY <1>3, <2>2, <2>3
    <3> QED
      BY <1>1, <1>4, <1>5, <3>1
  <2>4. CASE l = k
    <3>1. entries'[k] = Append(seq, e)
      BY <1>3, <1>4, <2>2, <2>4
    <3>2. e.points = p
      BY <1>6, <1>7, <2>1, <2>4
    <3>3. i \in 1 .. Len(seq) + 1 /\ Append(seq, e)[i] = IF i <= Len(seq) THEN seq[i] ELSE e
      BY <1>1, <1>4, <3>1
    <3>4. CASE i <= Len(seq)
      <4>1. i \in DOMAIN seq
        BY <1>4, <3>3, <3>4
      <4> QED
        BY <1>1, <1>5, <3>1, <3>3, <3>4, <4>1
    <3>5. CASE ~(i <= Len(seq))
      BY <1>1, <3>1, <3>2, <3>3, <3>5
    <3> QED
      BY <3>4, <3>5
  <2> QED
    BY <2>3, <2>4
<1>10. CASE call[c].op = "put"
  <2> DEFINE named == t.kind = "download-client" \/ entries[l][at].named
  <2>1. PICK e : e = [mine EXCEPT !.named = named]
    OBVIOUS
  <2>2. e.points = TargetOf(l)
    <3> HIDE DEF named
    <3> QED
      BY <1>6, <2>1
  <2>3. entries' = [entries EXCEPT ![l][at] = e]
    BY <1>2, <1>10, <2>1 DEF Effect
  <2> HIDE DEF at
  <2>4. CASE l # k
    <3>1. entries'[k] = entries[k]
      BY <1>3, <2>3, <2>4
    <3> QED
      BY <1>1, <1>4, <1>5, <3>1
  <2>5. CASE l = k
    <3>1. entries'[k] = [seq EXCEPT ![at] = e]
      BY <1>3, <1>4, <2>3, <2>5
    <3>2. i \in DOMAIN seq /\ (i = at => entries'[k][i] = e) /\ (i # at => entries'[k][i] = seq[i])
      BY <1>1, <1>4, <3>1
    <3> QED
      BY <1>1, <1>5, <1>7, <2>2, <2>5, <3>2
  <2> QED
    BY <2>4, <2>5
<1> QED
  BY <1>8, <1>9, <1>10 DEF Effect

(* The owner points an application's entry to no app. *)
LEMMA EditKeepsAppsSynced ==
  ASSUME LinksAreSound, AppsAreSyncedWhereTheyAre, NEW t, Edit(t)
  PROVE  AppsAreSyncedWhereTheyAre'
<1> SUFFICES ASSUME NEW p \in Partner,
                    NEW i \in DOMAIN entries'[<<"app-sync", p>>]
             PROVE  entries'[<<"app-sync", p>>][i].points \in {p, NoApp}
  BY DEF AppsAreSyncedWhereTheyAre
<1>1. PICK k : k = <<"app-sync", p>>
  OBVIOUS
<1>2. PICK l : l = Link(t)
  OBVIOUS
<1>3. k \in EntryLinks /\ entries \in [EntryLinks -> Seq(Entry)]
  BY <1>1 DEF LinksAreSound, EntryLinks, KeepsEntry
<1>4. \A j \in DOMAIN entries[k] : entries[k][j].points \in {p, NoApp}
  BY <1>1 DEF AppsAreSyncedWhereTheyAre
<1>5. CASE entries' = entries
  BY <1>1, <1>4, <1>5
<1>6. CASE Len(entries[l]) = 1 /\ EditEntry(t)
  <2>1. PICK e : e = entries[l][1]
    OBVIOUS
  <2>2. CASE l # k
    <3>1. \E new : entries' = [entries EXCEPT ![l] = new]
      BY <1>2, <1>6 DEF EditEntry
    <3>2. entries'[k] = entries[k]
      BY <1>3, <2>2, <3>1
    <3> QED
      BY <1>1, <1>4, <3>2
  <2>3. CASE l = k
    <3>1. PICK new \in {<<>>, <<[e EXCEPT !.good = FALSE]>>, <<[e EXCEPT !.named = FALSE]>>,
                        <<[e EXCEPT !.points = NoApp]>>} :
            entries' = [entries EXCEPT ![l] = new]
      BY <1>2, <1>6, <2>1 DEF EditEntry
    <3>2. entries'[k] = new
      BY <1>3, <2>3, <3>1
    <3>3. e \in Entry /\ e.points \in {p, NoApp}
      <4>1. PICK seq \in Seq(Entry) : seq = entries[l]
        BY <1>3, <2>3
      <4>2. 1 \in DOMAIN seq /\ seq[1] \in Entry
        BY <1>6, <4>1
      <4> QED
        BY <1>4, <2>1, <2>3, <4>1, <4>2
    <3>4. /\ [e EXCEPT !.good = FALSE].points \in {p, NoApp}
          /\ [e EXCEPT !.named = FALSE].points \in {p, NoApp}
          /\ [e EXCEPT !.points = NoApp].points \in {p, NoApp}
      BY <3>3 DEF Entry
    <3>5. \A a : DOMAIN <<a>> = {1} /\ <<a>>[1] = a
      OBVIOUS
    <3>6. DOMAIN <<>> = {}
      OBVIOUS
    <3>7. ASSUME NEW f, f.points \in {p, NoApp}, new = <<f>>
          PROVE  entries'[k][i].points \in {p, NoApp}
      <4>1. entries'[k] = <<f>>
        BY <3>2, <3>7
      <4>2. DOMAIN <<f>> = {1} /\ <<f>>[1] = f
        BY <3>5
      <4>3. i \in {1}
        BY <1>1, <4>1, <4>2
      <4>4. entries'[k][i] = f
        BY <4>1, <4>2, <4>3
      <4> QED
        BY <3>7, <4>4
    <3> DEFINE worse   == [e EXCEPT !.good = FALSE]
               renamed == [e EXCEPT !.named = FALSE]
               moved   == [e EXCEPT !.points = NoApp]
    <3>8. worse.points \in {p, NoApp} /\ renamed.points \in {p, NoApp} /\ moved.points \in {p, NoApp}
      BY <3>4
    <3>9. new = <<>> \/ new = <<worse>> \/ new = <<renamed>> \/ new = <<moved>>
      BY <3>1
    <3> HIDE DEF worse, renamed, moved
    <3>10. new = <<worse>> => entries'[k][i].points \in {p, NoApp}
      BY <3>7, <3>8
    <3>11. new = <<renamed>> => entries'[k][i].points \in {p, NoApp}
      BY <3>7, <3>8
    <3>12. new = <<moved>> => entries'[k][i].points \in {p, NoApp}
      BY <3>7, <3>8
    <3>13. new # <<>>
      BY <1>1, <3>2, <3>6
    <3>14. entries'[k][i].points \in {p, NoApp}
      BY <3>9, <3>10, <3>11, <3>12, <3>13
    <3> QED
      BY <1>1, <3>14
  <2> QED
    BY <2>2, <2>3
<1> QED
  BY <1>2, <1>5, <1>6 DEF Edit, EditPart, MapFolders, remote

(* What is written changes no more than parts and entries. *)
LEMMA StepKeepsAppsSynced ==
  ASSUME LinksAreSound, AppsAreSyncedWhereTheyAre, NEW c \in Actor, Step(c)
  PROVE  AppsAreSyncedWhereTheyAre'
<1>1. ids' = ids
  BY DEF Step, install
<1>2. CASE UNCHANGED remote
  BY <1>2 DEF remote, AppsAreSyncedWhereTheyAre
<1>3. CASE Effect(c) /\ ~Gone(c)
  BY <1>1, <1>3, EffectKeepsAppsSynced
<1>4. UNCHANGED remote \/ (Effect(c) /\ ~Gone(c))
  BY DEF Step, Read, Write, Unserved, AnswerLost, Refused, Ignored, Identity, Look, Probe, Relist,
         Confirm, List, Schema, Test, Sync
<1> QED
  BY <1>2, <1>3, <1>4

(* An add wires an app. *)
LEMMA WiredIsAnApp ==
  ASSUME NEW a \in App, NEW S
  PROVE  Wires(a, S) \in App
<1>1. Rider \subseteq App
  BY WiringAssumption DEF WiredApps
<1> QED
  BY <1>1 DEF Wires, RidersOf

(* What is known when a run begins. *)
LEMMA BeginningLearns ==
  ASSUME RowsTellTheRun, Learnt, ~run.on, NEW who \in App \cup {NoApp}, NEW plan, BeginRun(who, plan),
         plan = PlanFor(who, ids', graphics'), entries' = entries
  PROVE  Learnt'
<1>1. PlanIsFollowed' /\ RunKnows' /\ call'["hook"] = call["hook"]
  BY BeginRunIsKnown
<1> QED
  BY <1>1 DEF Learnt, AppsAreSyncedWhereTheyAre

(* What is known after a step. *)
LEMMA FinalFrameLearns ==
  ASSUME RowsTellTheRun, Learnt, run.on, UNCHANGED install, NEW v, FinalFrame(v),
         AppsAreSyncedWhereTheyAre'
  PROVE  Learnt'
<1>1. PlanIsFollowed' /\ RunKnows' /\ call'["hook"] = call["hook"]
  BY FinalFrameIsKnown
<1> QED
  BY <1>1 DEF Learnt

(* A request of the run. *)
LEMMA RunStepLearns ==
  ASSUME RowsTellTheRun, LinksAreSound, Learnt, Step("run")
  PROVE  Learnt'
<1>1. call["run"] # NoCall
  BY StepIsEither DEF Actor
<1>2. run.on
  BY <1>1 DEF RowsTellTheRun
<1>3. PICK x : x = call["run"]
  OBVIOUS
<1>4. RunIsKnown(x) /\ x.task = run.plan[run.at]
  BY <1>2, <1>3, KnownIsKnown
<1>5. ComesToTheTruth(x)
  BY <1>4, RunStepIsTrue DEF Learnt
<1>6. UNCHANGED install /\ AppsAreSyncedWhereTheyAre'
  BY StepKeepsAppsSynced DEF Step, Learnt, Actor
<1>7. CASE GoesOnKnowing(x)
  <2>1. PICK new : /\ GoOn("run", new) /\ CallShape(new) /\ new.task = x.task /\ RequestFits(new)
                   /\ Link(x.task) \notin touched => SightHolds(new)'
    BY <1>7 DEF GoesOnKnowing
  <2>2. call' = [call EXCEPT !["run"] = new] /\ UNCHANGED <<run, rows, report, touched>>
    BY <2>1 DEF GoOn, SetCall
  <2>3. call'["run"] = new /\ call'["hook"] = call["hook"]
    BY <2>2 DEF RowsTellTheRun, Actor
  <2>4. PlanIsFollowed'
    BY <1>2, <1>4, <1>6, <2>1, <2>2, <2>3 DEF PlanIsFollowed, Learnt, install
  <2>5. RunKnows'
    BY <2>1, <2>2, <2>3 DEF RunKnows
  <2> QED
    BY <1>6, <2>4, <2>5 DEF Learnt
<1>8. CASE EndsTruly(x)
  <2>1. PICK v : FinalFrame(v)
    BY <1>8 DEF EndsTruly, Conclude
  <2> QED
    BY <1>2, <1>6, <2>1, FinalFrameLearns
<1> QED
  BY <1>5, <1>7, <1>8 DEF ComesToTheTruth

(* What the run relies on is still so when the hook has written an entry.    *)
LEMMA HookLeavesSight ==
  ASSUME LinksAreSound, NEW x, x.task \in PlannedTask, RequestFits(x), SightHolds(x),
         ids' = ids, visible' = visible,
         Effect("hook"), ~Gone("hook"), call["hook"].op \in {"put", "post"}
  PROVE  SightHolds(x)'
<1> DEFINE t == x.task
<1>1. there' = there
  BY DEF Effect
<1>2. \A m, folder, ok : Settled(m, folder, ok)' <=> Settled(m, folder, ok)
  BY <1>1 DEF Settled
<1>3. FoldersAreSettled(x)' <=> FoldersAreSettled(x)
  BY <1>2 DEF FoldersAreSettled
<1>4. x.op = "test" /\ x.seen.ok => EntryIsAccepted(Link(t))'
  <2> SUFFICES ASSUME x.op = "test", x.seen.ok PROVE EntryIsAccepted(Link(t))'
    OBVIOUS
  <2>1. EntryIsAccepted(Link(t)) /\ t.kind = "seerr"
    BY DEF SightHolds, RequestFits
  <2>2. Link(t) \in EntryLinks
    BY <2>1 DEF Link, EntryLinks, KeepsEntry, PlannedTask, WiringTask, MayBeAbout, Partner
  <2>3. PICK l : l = Link(t)
    OBVIOUS
  <2>4. PICK h : h = call["hook"]
    OBVIOUS
  <2> HIDE DEF t
  <2>5. CASE l = Link(h.task)
    <3>1. EntryIsAccepted(Link(h.task))'
      BY <2>2, <2>3, <2>4, <2>5, EntryIsWritten DEF Actor
    <3> QED
      BY <2>3, <2>5, <3>1
  <2>6. CASE l # Link(h.task)
    <3>1. entries'[l] = entries[l]
      BY <2>2, <2>3, <2>4, <2>6, EffectKeepsToItsLink DEF LinksAreSound
    <3> QED
      BY <2>1, <2>3, <3>1 DEF EntryIsAccepted, TargetOf, Target
  <2> QED
    BY <2>5, <2>6
<1> QED
  BY <1>1, <1>2, <1>3, <1>4 DEF SightHolds

(* A request of the hook. *)
LEMMA HookStepLearns ==
  ASSUME RowsTellTheRun, LinksAreSound, Learnt, Step("hook")
  PROVE  Learnt'
<1>1. /\ run' = run /\ touched' = touched /\ ids' = ids /\ graphics' = graphics
      /\ visible' = visible /\ call'["run"] = call["run"]
      /\ \/ UNCHANGED remote
         \/ Effect("hook") /\ ~Gone("hook") /\ call["hook"].op \in {"put", "post"}
  BY HookStays DEF RowsTellTheRun, install, world
<1>2. PlanIsFollowed'
  BY <1>1 DEF PlanIsFollowed, Learnt
<1>3. RunKnows'
  <2> SUFFICES ASSUME run.on PROVE RunKnows'
    BY <1>1 DEF RunKnows
  <2>1. PICK x : x = call["run"]
    OBVIOUS
  <2>2. RunIsKnown(x)
    BY <2>1, KnownIsKnown
  <2>3. x.task \in PlannedTask /\ RequestFits(x) /\ (Link(x.task) \notin touched => SightHolds(x))
    BY <2>2 DEF RunIsKnown
  <2>4. SightHolds(x) => SightHolds(x)'
    <3>1. CASE UNCHANGED remote
      BY <1>1, <3>1 DEF SightHolds, EntryIsAccepted, FoldersAreSettled, Settled, TargetOf, remote
    <3>2. CASE Effect("hook") /\ ~Gone("hook") /\ call["hook"].op \in {"put", "post"}
      BY <1>1, <2>3, <3>2, HookLeavesSight
    <3> QED
      BY <1>1, <3>1, <3>2
  <2> QED
    BY <1>1, <2>1, <2>3, <2>4 DEF RunKnows
<1> QED
  BY <1>2, <1>3, StepKeepsAppsSynced DEF Learnt, Actor

(* An app of the step is proved ready. *)
LEMMA ReadyLearns ==
  ASSUME RowsTellTheRun, LinksAreSound, Learnt, ProveReady
  PROVE  Learnt'
<1> DEFINE t   == call["run"].task
           now == run.ready \cup {Head(ToProve(t, run.ready))}
<1>1. call["run"] # NoCall
  BY DEF ProveReady, NoCall
<1>2. run.on
  BY <1>1 DEF RowsTellTheRun
<1>3. t \in PlannedTask /\ t = run.plan[run.at]
  BY <1>2, KnownIsKnown DEF RunIsKnown
<1>4. /\ run' = [run EXCEPT !.ready = now] /\ call' = [call EXCEPT !["run"] = CallFor(t, now)]
      /\ UNCHANGED <<install, remote, touched>>
  BY DEF ProveReady, SetCall
<1>5. PICK x : x = CallFor(t, now)
  OBVIOUS
<1>6. x.task = t /\ x.op \in {"wait", FirstOp(x.task)}
  BY <1>5, CallForBegins
<1> HIDE DEF now
<1>7. /\ run'.plan = run.plan /\ run'.at = run.at /\ run'.who = run.who /\ run'.on = run.on
      /\ call'["run"] = x /\ call'["hook"] = call["hook"]
  BY <1>4, <1>5 DEF RowsTellTheRun, Actor
<1>8. RequestFits(x) /\ SightHolds(x)'
  BY <1>3, <1>6, BeginningIsKnown
<1>9. RunKnows'
  BY <1>7, <1>8 DEF RunKnows
<1>10. PlanIsFollowed'
  BY <1>2, <1>3, <1>4, <1>6, <1>7 DEF PlanIsFollowed, Learnt, install
<1>11. AppsAreSyncedWhereTheyAre'
  BY <1>4, <1>7 DEF AppsAreSyncedWhereTheyAre, Learnt, remote
<1> QED
  BY <1>9, <1>10, <1>11 DEF Learnt

(* A run that is resumed begins again at its first step. *)
LEMMA RestartLearns ==
  ASSUME RowsTellTheRun, LinksAreSound, Learnt, Restart
  PROVE  Learnt'
<1>1. /\ run.on /\ run' = [run EXCEPT !.at = 1, !.ready = {}]
      /\ call' = [c \in Actor |-> IF c = "run" THEN CallFor(run.plan[1], {}) ELSE NoCall]
      /\ UNCHANGED <<install, remote>>
  BY DEF Restart
<1>2. /\ run'.plan = run.plan /\ run'.at = 1 /\ run'.who = run.who
  BY <1>1 DEF RowsTellTheRun
<1>3. 1 \in 1 .. Len(run.plan) /\ run.plan[1] \in PlannedTask
  BY <1>1, StepsArePlanned DEF Learnt
<1>4. PICK x : x = CallFor(run.plan[1], {})
  OBVIOUS
<1>5. x.task = run.plan[1] /\ x.op \in {"wait", FirstOp(x.task)}
  BY <1>4, CallForBegins
<1>6. call'["run"] = x /\ call'["hook"] = NoCall
  BY <1>1, <1>4 DEF Actor
<1>7. RequestFits(x) /\ SightHolds(x)'
  BY <1>3, <1>5, BeginningIsKnown
<1>8. RunKnows' /\ PlanIsFollowed'
  <2>1. RunKnows'
    BY <1>6, <1>7 DEF RunKnows
  <2>2. PlanIsFollowed'
    BY <1>1, <1>2, <1>5, <1>6 DEF PlanIsFollowed, Learnt, install
  <2> QED
    BY <2>1, <2>2
<1>9. AppsAreSyncedWhereTheyAre'
  BY <1>1, <1>6 DEF AppsAreSyncedWhereTheyAre, Learnt, remote, NoCall
<1> QED
  BY <1>8, <1>9 DEF Learnt

(* The apps come up, or nothing happens. *)
LEMMA LeftAloneStaysLearnt ==
  ASSUME Learnt, UNCHANGED <<install, remote, visible, run, call, touched>>
  PROVE  Learnt'
<1>1. RunKnows'
  BY DEF Learnt, RunKnows, SightHolds, EntryIsAccepted, FoldersAreSettled, Settled, TargetOf, install, remote
<1>2. PlanIsFollowed'
  BY DEF Learnt, PlanIsFollowed, install
<1>3. AppsAreSyncedWhereTheyAre'
  BY DEF Learnt, AppsAreSyncedWhereTheyAre, remote
<1> QED
  BY <1>1, <1>2, <1>3 DEF Learnt

(* Whatever is done keeps what the run knows true. *)
LEMMA NextKeepsLearnt ==
  ASSUME RowsTellTheRun, LinksAreSound, Learnt, [Next]_vars
  PROVE  Learnt'
<1>1. CASE Deploy
  <2>1. ~run.on /\ BeginRun(NoApp, PlanFor(NoApp, ids', graphics')) /\ entries' = entries
    BY <1>1 DEF Deploy, install, remote, PlanWiring
  <2> QED
    BY <2>1, BeginningLearns
<1>2. CASE ProveReady
  BY <1>2, ReadyLearns
<1>3. CASE NeverReady \/ SayWhyNot
  <2>1. call["run"] # NoCall
    BY <1>3 DEF NeverReady, SayWhyNot, NoCall
  <2>2. run.on
    BY <2>1 DEF RowsTellTheRun
  <2>3. UNCHANGED install /\ (\E v : FinalFrame(v)) /\ AppsAreSyncedWhereTheyAre'
    BY <1>3 DEF NeverReady, SayWhyNot, remote, Learnt, AppsAreSyncedWhereTheyAre
  <2> QED
    BY <2>2, <2>3, FinalFrameLearns
<1>4. CASE Step("run")
  BY <1>4, RunStepLearns
<1>5. CASE Step("hook")
  BY <1>5, HookStepLearns
<1>6. ASSUME NEW a \in App, Add(a)
      PROVE  Learnt'
  <2>1. PICK w \in App : w = Wires(a, ids)
    BY WiredIsAnApp
  <2>2. ~run.on /\ BeginRun(w, PlanFor(w, ids', graphics')) /\ entries' = entries
    BY <1>6, <2>1 DEF Add, Free, remote, PlanAbout
  <2> QED
    BY <2>2, BeginningLearns
<1>7. ASSUME NEW a \in App, NEW newAnswers \in BOOLEAN, Reconnect(a, newAnswers)
      PROVE  Learnt'
  <2>1. ~run.on /\ BeginRun(a, PlanFor(a, ids', graphics')) /\ entries' = entries
    BY <1>7 DEF Reconnect, Free, install, PlanAbout
  <2> QED
    BY <2>1, BeginningLearns
<1>8. ASSUME NEW a \in App, Disconnect(a)
      PROVE  Learnt'
  <2>1. /\ call' = call /\ run' = run /\ entries' = entries /\ ~run.on
    BY <1>8 DEF Disconnect, remote, Free
  <2> QED
    BY <2>1 DEF Learnt, PlanIsFollowed, RunKnows, AppsAreSyncedWhereTheyAre
<1>9. CASE Restart
  BY <1>9, RestartLearns
<1>10. CASE Refresh
  <2>1. /\ \E new : call' = [call EXCEPT !["hook"] = new]
        /\ run' = run /\ UNCHANGED <<install, remote, visible, touched>>
    BY <1>10 DEF Refresh, SetCall, world
  <2>3. call'["run"] = call["run"]
    BY <2>1 DEF RowsTellTheRun, Actor
  <2>4. RunKnows'
    BY <2>1, <2>3 DEF Learnt, RunKnows, SightHolds, EntryIsAccepted, FoldersAreSettled, Settled, TargetOf, install, remote
  <2>5. PlanIsFollowed' /\ AppsAreSyncedWhereTheyAre'
    BY <2>1, <2>3 DEF Learnt, PlanIsFollowed, AppsAreSyncedWhereTheyAre, install, remote
  <2> QED
    BY <2>4, <2>5 DEF Learnt
<1>11. CASE ComesUp \/ UNCHANGED vars
  BY <1>11, LeftAloneStaysLearnt DEF ComesUp, vars, world
<1>12. ASSUME NEW t \in Planned, Edit(t)
       PROVE  Learnt'
  BY <1>12, EditKeepsKnowledge, EditKeepsAppsSynced DEF Learnt
<1> QED
  BY <1>1, <1>2, <1>3, <1>4, <1>5, <1>6, <1>7, <1>8, <1>9, <1>10, <1>11, <1>12 DEF Next, RunStep

(* Before the first run there is nothing to know. *)
LEMMA InitIsLearnt == Init => Learnt
<1> SUFFICES ASSUME Init PROVE Learnt
  OBVIOUS
<1>1. run = NoOne /\ call = [c \in Actor |-> NoCall] /\ entries = [l \in EntryLinks |-> <<>>]
  BY DEF Init
<1>2. \A p \in Partner : <<"app-sync", p>> \in EntryLinks
  BY DEF EntryLinks, KeepsEntry
<1>3. DOMAIN <<>> = {}
  OBVIOUS
<1> QED
  BY <1>1, <1>2, <1>3 DEF Learnt, PlanIsFollowed, RunKnows, AppsAreSyncedWhereTheyAre, NoOne, NoCall, Actor

(* A verdict of "done" or "skipped" is true when it is given. *)
LEMMA VerdictsAreTrue ==
  ASSUME RowsTellTheRun, LinksAreSound, Learnt, [Next]_vars
  PROVE  Concluded("done") => \A t \in {run.plan[run.at]} : InPlace(t)' \/ Link(t) \in touched
<1> SUFFICES ASSUME Concluded("done"), NEW t, t = run.plan[run.at]
             PROVE  InPlace(t)' \/ Link(t) \in touched
  OBVIOUS
<1>1. run.on /\ rows'[run.at] = "done" /\ rows' # rows
  BY DEF Concluded
<1>2. Len(rows) \in Nat /\ DOMAIN rows = 1 .. Len(rows) /\ run.at \in DOMAIN rows
  BY <1>1 DEF RowsTellTheRun
<1>3. CASE Step("run")
  <2>1. PICK x : x = call["run"]
    OBVIOUS
  <2>2. RunIsKnown(x) /\ x.task = t
    BY <1>1, <2>1, KnownIsKnown
  <2>3. ComesToTheTruth(x)
    BY <1>3, <2>2, RunStepIsTrue DEF Learnt
  <2>4. ~GoesOnKnowing(x)
    BY <1>1 DEF GoesOnKnowing, GoOn
  <2>5. PICK v \in Finals : FinalFrame(v) /\ (v = "error" \/ Link(x.task) \in touched \/ InPlace(x.task)')
    BY <2>3, <2>4 DEF ComesToTheTruth, EndsTruly, Conclude
  <2>6. v = "done"
    BY <1>1, <1>2, <2>5 DEF FinalFrame
  <2> QED
    BY <2>2, <2>5, <2>6
<1>4. CASE NeverReady \/ SayWhyNot
  BY <1>1, <1>2, <1>4 DEF NeverReady, SayWhyNot, FinalFrame
<1>5. CASE ProveReady \/ Refresh \/ ComesUp \/ UNCHANGED vars
  BY <1>1, <1>5 DEF ProveReady, Refresh, ComesUp, vars
<1>6. CASE Step("hook")
  BY <1>1, <1>6, HookStays DEF Learnt, RowsTellTheRun
<1>7. CASE Deploy \/ (\E a \in App : Add(a) \/ Disconnect(a)) \/ \E a \in App, b \in BOOLEAN : Reconnect(a, b)
  BY <1>1, <1>7 DEF Deploy, Add, Disconnect, Reconnect, Free
<1>8. CASE Restart
  <2>1. rows' = [i \in DOMAIN rows |-> IF i = 1 THEN "running" ELSE "waiting"]
    BY <1>8 DEF Restart
  <2>2. rows'[run.at] \in {"running", "waiting"}
    BY <1>2, <2>1
  <2> QED
    BY <1>1, <2>2
<1>9. CASE \E u \in Planned : Edit(u)
  BY <1>1, <1>9 DEF Edit
<1> QED
  BY <1>3, <1>4, <1>5, <1>6, <1>7, <1>8, <1>9 DEF Next, RunStep

(* A step whose row says "done" has brought its connection about, whatever   *)
(* was refused, lost, retried or restarted on the way, and whatever the hook *)
(* did meanwhile, unless the owner edited that connection while the step was *)
(* at work, or gave an application's entry another address before it.        *)
THEOREM DoneIsTrue == Spec => DoneIsThere
<1> DEFINE IInv == RowsTellTheRun /\ LinksAreSound /\ Learnt
<1>1. Init => IInv
  BY InitIsSound, InitIsLearnt
<1>2. IInv /\ [Next]_vars => IInv'
  BY NextKeepsTheReport, NextKeepsLinksSound, NextKeepsLearnt
<1>3. IInv /\ [Next]_vars => [Concluded("done") => \A t \in {run.plan[run.at]} : InPlace(t)' \/ Link(t) \in touched]_vars
  BY VerdictsAreTrue
<1>4. [Concluded("done") => \A t \in {run.plan[run.at]} : InPlace(t)' \/ Link(t) \in touched]_vars
        => [Concluded("done") => \A t \in {run.plan[run.at]} :
              Right(t)' \/ Misdirected(t)' \/ Link(t) \in touched]_vars
  BY DEF InPlace
<1> QED
  BY <1>1, <1>2, <1>3, <1>4, PTL DEF Spec, DoneIsThere

------------------------------------------------------------------------------
(* Nothing is silently missing *)

(* The gap of an app names links the app is concerned in. *)
GapsAreAbout ==
  /\ DOMAIN gaps = App
  /\ \A a \in App : \A l \in gaps[a] : a \in AboutOf(l[1], l[2])

Excused(l) == l \in told \cup touched \cup UNION {gaps[a] : a \in App}

(* The steps of the run: those to come, and those that ended in an error.    *)
InRun(t)  == run.on /\ (run.who = NoApp \/ run.who \in t.about)
Later(t)  == \E i \in run.at + 1 .. Len(run.plan) : run.plan[i] = t
Comes(t)  == \E i \in run.at .. Len(run.plan) : run.plan[i] = t
Failed(t) == \E i \in 1 .. run.at - 1 : run.plan[i] = t /\ rows[i] = "error"

AnsweredFor(t) ==
  IF InRun(t) THEN Comes(t) \/ Failed(t) \/ Link(t) \in touched ELSE Excused(Link(t))

(* Every connection the install calls for is there, or the run is still to   *)
(* see to it, or the owner was told, or will be when the run ends.           *)
Accounted ==
  /\ GapsAreAbout
  /\ Deployed =>
       \A t \in PlannedTask : CallsFor(ids, graphics, t) => InPlace(t) \/ AnsweredFor(t)

(* A folder is added to a library only by the write of it. *)
LEMMA WhatIsNew ==
  ASSUME NEW c, Effect(c), NEW folder \in {"movies", "tv"}, NEW m,
         <<folder, m>> \in there', <<folder, m>> \notin there
  PROVE  call[c].op = "write" /\ <<folder, m>> = Head(call[c].todo)
<1> DEFINE x == call[c]
           part == CASE x.op = "write"   -> {Head(x.todo)}
                     [] x.op = "connect" -> {<<"connection", x.task.of>>}
                     [] x.op = "enable"  -> {<<"enabled", x.task.of>>}
                     [] x.op = "scan"    -> {<<"scan", "seerr">>}
                     [] OTHER            -> {}
<1>1. there' = there \cup part
  BY DEF Effect
<1>2. <<folder, m>> \in part
  BY <1>1
<1>3. x.op = "write" => part = {Head(x.todo)}
  OBVIOUS
<1>4. x.op # "write" => part \in {{}, {<<"connection", x.task.of>>}, {<<"enabled", x.task.of>>},
                                  {<<"scan", "seerr">>}}
  OBVIOUS
<1> HIDE DEF part, x
<1>5. x.op = "write"
  BY <1>2, <1>4
<1> QED
  BY <1>2, <1>3, <1>5 DEF x

(* What is right stays so while nothing it rests on is changed. *)
LEMMA RightStays ==
  ASSUME there' = there, entries' = entries, visible' = visible, NEW t \in PlannedTask,
         t.kind = "download-client" => (Vpn \in ids <=> Vpn \in ids'), InPlace(t)
  PROVE  InPlace(t)'
<1>1. Target(t, ids') = Target(t, ids)
  BY DEF Target
<1>2. Right(t) => Right(t)'
  BY <1>1 DEF Right, Has, At
<1>3. Misdirected(t) => Misdirected(t)'
  BY DEF Misdirected
<1> QED
  BY <1>2, <1>3 DEF InPlace

(* A write leaves right what was, except that Seerr has to turn on a library *)
(* that was not there.                                                       *)
LEMMA EffectKeepsRight ==
  ASSUME LinksAreSound, NEW c \in Actor, NEW x, call[c] = x, ~Gone(c), Effect(c),
         ids' = ids, visible' = visible, NEW t \in PlannedTask, InPlace(t),
         t.kind = "media-server" /\ x.op = "write" =>
           \A folder \in {"movies", "tv"} : Head(x.todo) # <<folder, t.of>>
  PROVE  InPlace(t)'
<1>1. there \subseteq there'
  BY EffectAdds
<1>2. PartsAreRight(t) /\ (t.kind \in KeepsEntry => EntryIsAccepted(Link(t)))
  BY RightMeans DEF RightIsPartsAndEntry
<1>3. PartsAreRight(t)'
  <2>1. \A folder \in {"movies", "tv"} :
          t.kind = "media-server" /\ <<folder, t.of>> \notin there => <<folder, t.of>> \notin there'
    BY WhatIsNew
  <2>2. \A folder : Settled(t.of, folder, FALSE) => Settled(t.of, folder, FALSE)'
    BY <1>1, SettledStays
  <2> QED
    BY <1>1, <1>2, <2>1, <2>2 DEF PartsAreRight
<1>4. ASSUME t.kind \in KeepsEntry PROVE EntryIsAccepted(Link(t))'
  <2>1. PICK l : l = Link(t)
    OBVIOUS
  <2>2. PICK k : k = Link(x.task)
    OBVIOUS
  <2>3. l \in EntryLinks
    BY <1>4, <2>1 DEF Link, EntryLinks, KeepsEntry, PlannedTask, WiringTask, MayBeAbout, Partner
  <2>4. CASE x.op \notin {"put", "post"}
    <3>1. entries' = entries
      BY <2>4, EffectAdds
    <3> QED
      BY <1>2, <1>4, <3>1 DEF EntryIsAccepted, TargetOf, Target
  <2>5. CASE x.op \in {"put", "post"} /\ l = k
    BY <2>1, <2>2, <2>3, <2>5, EntryIsWritten
  <2>6. CASE x.op \in {"put", "post"} /\ l # k
    <3>1. \E new : entries' = [entries EXCEPT ![k] = new]
      BY <2>2, <2>6 DEF Effect
    <3>2. entries'[l] = entries[l]
      BY <2>3, <2>6, <3>1 DEF LinksAreSound
    <3> QED
      BY <1>2, <1>4, <2>1, <3>2 DEF EntryIsAccepted, TargetOf, Target
  <2> QED
    BY <2>4, <2>5, <2>6
<1> QED
  BY <1>3, <1>4, RightMeansThen

(* The plan of the run holds what is in it. *)
LEMMA InThePlan ==
  ASSUME RowsTellTheRun, Learnt, NEW t \in PlannedTask, CallsFor(ids, graphics, t), InRun(t)
  PROVE  \E i \in 1 .. Len(run.plan) : run.plan[i] = t
<1>1. run.on /\ t \in Wanted(run.who, ids, graphics, Kinds)
  BY DEF InRun, Wanted, PlannedTask, WiringTask
<1>2. t \in Tasks(run.plan)
  BY <1>1, StepsArePlanned DEF Learnt
<1>3. DOMAIN run.plan = 1 .. Len(run.plan)
  BY <1>1, StepsArePlanned, LenProperties DEF Learnt
<1> QED
  BY <1>2, <1>3 DEF Tasks

(* Every step of the plan is one the run sees to. *)
LEMMA PlannedIsInRun ==
  ASSUME RowsTellTheRun, Learnt, run.on, NEW i \in 1 .. Len(run.plan)
  PROVE  InRun(run.plan[i]) /\ run.plan[i] \in PlannedTask
<1>1. run.plan[i] \in Wanted(run.who, ids, graphics, Kinds) /\ run.plan[i] \in PlannedTask
  BY StepsArePlanned DEF Learnt
<1> QED
  BY <1>1 DEF InRun, Wanted

(* A request changes what is in the apps by one write, or not at all. *)
LEMMA StepEither ==
  ASSUME NEW c \in Actor, Step(c)
  PROVE  /\ ids' = ids /\ visible' = visible
         /\ UNCHANGED remote \/ (Effect(c) /\ ~Gone(c))
<1>1. ids' = ids /\ visible' = visible
  BY DEF Step, install, world
<1> QED
  BY <1>1 DEF Step, Read, Write, Unserved, AnswerLost, Refused, Ignored, Identity, Look, Probe,
              Relist, Confirm, List, Schema, Test, Sync

(* When a library is made, its step in Seerr is still to come. *)
LEMMA RunKeepsRight ==
  ASSUME RowsTellTheRun, LinksAreSound, Learnt, run.on, Step("run"),
         NEW t \in PlannedTask, CallsFor(ids, graphics, t), InPlace(t)
  PROVE  InPlace(t)' \/ (InRun(t) /\ Later(t))
<1>1. PICK x : x = call["run"]
  OBVIOUS
<1>2. RunIsKnown(x) /\ x.task = run.plan[run.at]
  BY <1>1, KnownIsKnown
<1>3. ids' = ids /\ visible' = visible /\ (UNCHANGED remote \/ (Effect("run") /\ ~Gone("run")))
  BY StepEither DEF Actor
<1>4. CASE UNCHANGED remote
  BY <1>3, <1>4, RightStays DEF remote
<1>5. CASE /\ Effect("run") /\ ~Gone("run")
           /\ t.kind = "media-server" /\ x.op = "write" =>
                \A folder \in {"movies", "tv"} : Head(x.todo) # <<folder, t.of>>
  BY <1>1, <1>3, <1>5, EffectKeepsRight DEF Actor
<1>6. ASSUME NEW folder \in {"movies", "tv"}, t.kind = "media-server", x.op = "write",
             Head(x.todo) = <<folder, t.of>>
      PROVE  InRun(t) /\ Later(t)
  <2>1. /\ x.task \in PlannedTask /\ TodoFits(x)
        /\ x.task.kind \in Kinds \ {"explain", "app-sync", "seerr", "media-server"}
    BY <1>2, <1>6 DEF RunIsKnown, RequestFits, PlannedTask, WiringTask
  <2>2. \A p : Head(<<p>>) = p
    OBVIOUS
  <2>3. \A p, q : Head(<<p, q>>) = p
    OBVIOUS
  <2>4. x.task.kind = "libraries"
    <3> SUFFICES ASSUME x.task.kind # "libraries" PROVE FALSE
      OBVIOUS
    <3>1. /\ x.todo = PartsOf(x.task)
          /\ x.task.kind \in {"download-client", "downloader-settings", "root-folder", "direct-play",
                              "graphics"}
      BY <2>1 DEF TodoFits, Kinds
    <3>2. x.todo \in {<<<<"category", x.task.of>>>>, <<<<x.task.kind, x.task.of>>>>}
      BY <3>1, PartsAre
    <3>3. Head(x.todo) \in {<<"category", x.task.of>>, <<x.task.kind, x.task.of>>}
      BY <2>2, <3>2
    <3> QED
      BY <1>6, <3>1, <3>3
  <2>5. x.task.of = t.of
    <3>1. Head(x.todo) \in {<<"movies", x.task.of>>, <<"tv", x.task.of>>}
      BY <2>1, <2>2, <2>3, <2>4 DEF TodoFits
    <3> QED
      BY <1>6, <3>1
  <2>6. x.task.about = {t.of} /\ t.about = {"seerr", t.of}
    BY <1>6, <2>1, <2>4, <2>5 DEF PlannedTask, AboutOf
  <2>7. run.at \in 1 .. Len(run.plan) /\ InRun(x.task)
    BY <1>2, StepsArePlanned, PlannedIsInRun DEF Learnt
  <2>8. InRun(t)
    BY <2>6, <2>7 DEF InRun
  <2>9. PICK j \in 1 .. Len(run.plan) : run.plan[j] = t
    BY <2>8, InThePlan
  <2>10. run.at < j
    <3>1. run.plan = PlanFor(run.who, ids, graphics)
      BY DEF Learnt, PlanIsFollowed
    <3>2. run.plan[run.at].kind = "libraries" /\ run.plan[j].kind = "media-server"
      BY <1>2, <1>6, <2>4, <2>9
    <3> QED
      BY <2>7, <2>9, <3>1, <3>2, PlanHolds
  <2>11. j \in run.at + 1 .. Len(run.plan)
    BY <2>7, <2>9, <2>10, StepsArePlanned DEF Learnt
  <2> QED
    BY <2>8, <2>9, <2>11 DEF Later
<1> QED
  BY <1>3, <1>4, <1>5, <1>6

(* When a step ends, it is said of it that it failed, or what it stands for  *)
(* is there; and at the end of the run that is what is told.                 *)
LEMMA FinalFrameAccounts ==
  ASSUME RowsTellTheRun, Learnt, Accounted, run.on, UNCHANGED install, NEW v \in Finals, FinalFrame(v),
         \A t \in PlannedTask : CallsFor(ids, graphics, t) /\ InPlace(t) =>
           InPlace(t)' \/ (InRun(t) /\ Later(t)),
         \A t : t = run.plan[run.at] => v = "error" \/ Link(t) \in touched \/ InPlace(t)'
  PROVE  Accounted'
<1> DEFINE n == Len(run.plan)
<1>1. /\ n \in Nat /\ Len(rows) = n /\ run.at \in 1 .. n /\ DOMAIN rows = 1 .. n
      /\ DOMAIN run = {"on", "who", "plan", "at", "ready"}
  BY StepsArePlanned, LenProperties DEF RowsTellTheRun, Learnt
<1>2. \A i \in 1 .. n : rows'[i] = CASE i = run.at     -> v
                                     [] i = run.at + 1 -> "running"
                                     [] OTHER          -> rows[i]
  BY <1>1 DEF FinalFrame
<1>3. ids' = ids /\ graphics' = graphics /\ DOMAIN rows' = 1 .. n
  BY <1>1 DEF install, FinalFrame
<1>4. /\ GapsAreAbout
      /\ \A t \in PlannedTask : CallsFor(ids, graphics, t) => InPlace(t) \/ AnsweredFor(t)
  <2>1. Deployed
    BY <1>1 DEF Deployed
  <2> QED
    BY <2>1 DEF Accounted
<1>5. rows'[run.at] = v /\ \A i \in 1 .. run.at - 1 : rows'[i] = rows[i]
  BY <1>1, <1>2
<1>6. \A i \in 1 .. n : run.plan[i] \in PlannedTask /\ InRun(run.plan[i])
  BY PlannedIsInRun
<1>7. run.who \in App \cup {NoApp}
  BY DEF Learnt, PlanIsFollowed
<1>8. ASSUME NEW t \in PlannedTask, InRun(t), CallsFor(ids, graphics, t)
      PROVE  InPlace(t)' \/ Later(t) \/ Link(t) \in touched
               \/ \E i \in 1 .. run.at : run.plan[i] = t /\ rows'[i] = "error"
  <2>1. CASE InPlace(t)
    BY <1>8, <2>1
  <2>2. CASE Link(t) \in touched
    BY <2>2
  <2>3. CASE Failed(t)
    <3>1. PICK i \in 1 .. run.at - 1 : run.plan[i] = t /\ rows[i] = "error"
      BY <2>3 DEF Failed
    <3>2. i \in 1 .. run.at /\ rows'[i] = "error"
      BY <1>1, <1>5, <3>1
    <3> QED
      BY <3>1, <3>2
  <2>4. CASE Comes(t)
    <3>1. PICK i \in run.at .. n : run.plan[i] = t
      BY <2>4 DEF Comes
    <3>2. CASE i = run.at
      <4>1. v = "error" \/ Link(t) \in touched \/ InPlace(t)'
        BY <3>1, <3>2
      <4>2. run.at \in 1 .. run.at
        BY <1>1
      <4> QED
        BY <1>5, <3>1, <3>2, <4>1, <4>2
    <3>3. CASE i # run.at
      <4>1. i \in run.at + 1 .. n
        BY <1>1, <3>1, <3>3
      <4> QED
        BY <3>1, <4>1 DEF Later
    <3> QED
      BY <3>2, <3>3
  <2> QED
    BY <1>4, <1>8, <2>1, <2>2, <2>3, <2>4 DEF AnsweredFor
<1>9. ASSUME NEW t \in PlannedTask, ~InRun(t), CallsFor(ids, graphics, t)
      PROVE  InPlace(t)' \/ Excused(Link(t))
  BY <1>4, <1>9 DEF AnsweredFor
<1> HIDE DEF n
<1>10. CASE run.at # n
  <2> DEFINE next == run.plan[run.at + 1]
  <2>1. /\ run' = [run EXCEPT !.at = run.at + 1] /\ touched' = touched \ {Link(next)}
        /\ told' = told /\ gaps' = gaps
    BY <1>10 DEF FinalFrame, NextTask, report, n
  <2>2. run'.on = run.on /\ run'.at = run.at + 1 /\ run'.plan = run.plan /\ run'.who = run.who
    BY <1>1, <2>1
  <2>3. run.at + 1 \in 1 .. n /\ next \in PlannedTask /\ InRun(next)
    BY <1>1, <1>6, <1>10
  <2>4. ASSUME NEW t \in PlannedTask, CallsFor(ids, graphics, t)
        PROVE  InPlace(t)' \/ AnsweredFor(t)'
    <3>1. CASE InRun(t)
      <4>1. InRun(t)'
        BY <2>2, <3>1 DEF InRun
      <4>2. Later(t) => Comes(t)'
        BY <2>2 DEF Later, Comes
      <4>3. (\E i \in 1 .. run.at : run.plan[i] = t /\ rows'[i] = "error") => Failed(t)'
        <5>1. run'.at - 1 = run.at
          BY <1>1, <2>2
        <5> QED
          BY <2>2, <5>1 DEF Failed
      <4>4. Link(t) \in touched => Link(t) \in touched' \/ Comes(t)'
        <5>1. CASE Link(t) = Link(next)
          <6>1. t = next
            BY <2>3, <5>1, LinkTellsTask
          <6>2. run'.at \in run'.at .. Len(run'.plan)
            BY <1>1, <2>2, <2>3 DEF n
          <6> QED
            BY <2>2, <6>1, <6>2 DEF Comes
        <5>2. CASE Link(t) # Link(next)
          BY <2>1, <5>2
        <5> QED
          BY <5>1, <5>2
      <4> QED
        BY <1>8, <2>4, <3>1, <4>1, <4>2, <4>3, <4>4 DEF AnsweredFor
    <3>2. CASE ~InRun(t)
      <4>1. ~InRun(t)'
        BY <2>2, <3>2 DEF InRun
      <4>2. Link(t) # Link(next)
        BY <2>3, <3>2, LinkTellsTask
      <4>3. Excused(Link(t)) => Excused(Link(t))'
        BY <2>1, <4>2 DEF Excused
      <4> QED
        BY <1>9, <2>4, <3>2, <4>1, <4>3 DEF AnsweredFor
    <3> QED
      BY <3>1, <3>2
  <2>5. GapsAreAbout'
    BY <1>4, <2>1 DEF GapsAreAbout
  <2> QED
    BY <1>3, <2>4, <2>5 DEF Accounted
<1>11. CASE run.at = n
  <2> DEFINE Said == {Link(run.plan[i]) : i \in {j \in DOMAIN rows' : rows'[j] = "error"}}
  <2>1. /\ run' = NoOne /\ touched' = touched
        /\ run.who = NoApp => told' = Said /\ gaps' = gaps
        /\ run.who # NoApp => gaps' = [gaps EXCEPT ![run.who] = Said] /\ told' = told
    BY <1>11 DEF FinalFrame, NextTask, EndRun, FailedLinks, n
  <2>2. \A t : ~InRun(t)'
    BY <2>1 DEF InRun, NoOne
  <2>3. \A l \in Said : \E i \in 1 .. n : l = Link(run.plan[i])
    BY <1>3
  <2>4. \A l \in Said : run.who # NoApp => run.who \in AboutOf(l[1], l[2])
    <3> SUFFICES ASSUME NEW l \in Said, run.who # NoApp PROVE run.who \in AboutOf(l[1], l[2])
      OBVIOUS
    <3> HIDE DEF Said
    <3>1. PICK i \in 1 .. n : l = Link(run.plan[i])
      BY <2>3
    <3>2. PICK t \in PlannedTask : t = run.plan[i] /\ InRun(t)
      BY <1>6
    <3>3. t.about = AboutOf(t.kind, t.of) /\ l[1] = t.kind /\ l[2] = t.of
      BY <3>1, <3>2 DEF PlannedTask, Link
    <3> QED
      BY <3>2, <3>3 DEF InRun
  <2>5. \A i \in 1 .. run.at : rows'[i] = "error" => Link(run.plan[i]) \in Said
    BY <1>1, <1>3, <1>11
  <2> HIDE DEF Said
  <2>6. \A l \in Said : Excused(l)'
    <3>1. CASE run.who = NoApp
      BY <2>1, <3>1 DEF Excused
    <3>2. CASE run.who # NoApp
      <4>1. run.who \in App /\ gaps'[run.who] = Said
        BY <1>4, <1>7, <2>1, <3>2 DEF GapsAreAbout
      <4> QED
        BY <4>1 DEF Excused
    <3> QED
      BY <3>1, <3>2
  <2>7. GapsAreAbout'
    <3>1. CASE run.who = NoApp
      BY <1>4, <2>1, <3>1 DEF GapsAreAbout
    <3>2. CASE run.who # NoApp
      <4>1. gaps' = [gaps EXCEPT ![run.who] = Said] /\ DOMAIN gaps = App
        BY <1>4, <2>1, <3>2 DEF GapsAreAbout
      <4>2. ASSUME NEW a \in App, NEW l \in gaps'[a] PROVE a \in AboutOf(l[1], l[2])
        <5>1. CASE a = run.who
          BY <2>4, <3>2, <4>1, <4>2, <5>1
        <5>2. CASE a # run.who
          BY <1>4, <4>1, <4>2, <5>2 DEF GapsAreAbout
        <5> QED
          BY <5>1, <5>2
      <4> QED
        BY <4>1, <4>2 DEF GapsAreAbout
    <3> QED
      BY <3>1, <3>2
  <2>8. ASSUME NEW t \in PlannedTask, CallsFor(ids, graphics, t)
        PROVE  InPlace(t)' \/ Excused(Link(t))'
    <3>1. CASE InRun(t)
      <4>1. ~Later(t)
        BY <1>1, <1>11 DEF Later, n
      <4>2. Link(t) \in touched => Excused(Link(t))'
        BY <2>1 DEF Excused
      <4>3. (\E i \in 1 .. run.at : run.plan[i] = t /\ rows'[i] = "error") => Excused(Link(t))'
        BY <2>5, <2>6
      <4> QED
        BY <1>8, <2>8, <3>1, <4>1, <4>2, <4>3
    <3>2. CASE ~InRun(t)
      <4>1. run.who # NoApp /\ run.who \notin t.about
        BY <3>2 DEF InRun
      <4>2. /\ gaps' = [gaps EXCEPT ![run.who] = Said] /\ told' = told /\ touched' = touched
            /\ DOMAIN gaps = App
        BY <1>4, <2>1, <4>1 DEF GapsAreAbout
      <4>3. PICK l : l = Link(t)
        OBVIOUS
      <4>4. t.about = AboutOf(l[1], l[2])
        BY <4>3 DEF PlannedTask, Link
      <4>5. Excused(l) => Excused(l)'
        <5> SUFFICES ASSUME NEW a \in App, l \in gaps[a] PROVE l \in gaps'[a]
          BY <4>2 DEF Excused
        <5>1. a # run.who
          BY <1>4, <4>1, <4>4 DEF GapsAreAbout
        <5> QED
          BY <4>2, <5>1
      <4> QED
        BY <1>9, <2>8, <3>2, <4>3, <4>5
    <3> QED
      BY <3>1, <3>2
  <2> QED
    BY <1>3, <2>2, <2>7, <2>8 DEF Accounted, AnsweredFor
<1> QED
  BY <1>10, <1>11

(* A run about an app begins: what is not about it was answered for before. *)
LEMMA BeginningAccounts ==
  ASSUME RowsTellTheRun, ~run.on, GapsAreAbout, NEW who \in App \cup {NoApp}, NEW plan,
         BeginRun(who, plan), plan = PlanFor(who, ids', graphics'),
         \A t \in PlannedTask : CallsFor(ids', graphics', t) /\ who # NoApp /\ who \notin t.about =>
           InPlace(t)' \/ Excused(Link(t))
  PROVE  Accounted'
<1>1. PICK S, g : S = ids' /\ g = graphics'
  OBVIOUS
<1>2. /\ plan \in Seq(WiringTask) /\ Tasks(plan) = Wanted(who, S, g, Kinds)
      /\ Len(plan) \in Nat /\ DOMAIN plan = 1 .. Len(plan)
  BY <1>1, PlanIsASequence, PlanHolds, LenProperties
<1>3. \A t \in PlannedTask : CallsFor(S, g, t) /\ (who = NoApp \/ who \in t.about) =>
        \E i \in 1 .. Len(plan) : plan[i] = t
  <2> SUFFICES ASSUME NEW t \in PlannedTask, CallsFor(S, g, t), who = NoApp \/ who \in t.about
               PROVE  \E i \in 1 .. Len(plan) : plan[i] = t
    OBVIOUS
  <2>1. t \in Tasks(plan)
    BY <1>2 DEF Wanted, PlannedTask, WiringTask
  <2> QED
    BY <1>2, <2>1 DEF Tasks
<1>4. CASE plan = <<>>
  <2>1. /\ run' = run /\ told' = told /\ touched' = touched
        /\ gaps' = [a \in App |-> IF a = who THEN {} ELSE gaps[a]]
    BY <1>4 DEF BeginRun
  <2>2. GapsAreAbout'
    BY <2>1 DEF GapsAreAbout
  <2>3. ASSUME NEW t \in PlannedTask, CallsFor(S, g, t)
        PROVE  InPlace(t)' \/ Excused(Link(t))'
    <3>1. who # NoApp /\ who \notin t.about
      <4>1. Len(plan) = 0
        BY <1>4
      <4> QED
        BY <1>3, <2>3, <4>1
    <3>2. PICK l : l = Link(t)
      OBVIOUS
    <3>3. t.about = AboutOf(l[1], l[2])
      BY <3>2 DEF PlannedTask, Link
    <3>4. Excused(l) => Excused(l)'
      <4> SUFFICES ASSUME NEW a \in App, l \in gaps[a] PROVE l \in gaps'[a]
        BY <2>1 DEF Excused
      <4>1. a # who
        BY <3>1, <3>3 DEF GapsAreAbout
      <4> QED
        BY <2>1, <4>1
    <3> QED
      BY <1>1, <2>3, <3>1, <3>2, <3>4
  <2>4. \A t : ~InRun(t)'
    BY <2>1 DEF InRun
  <2> QED
    BY <1>1, <2>2, <2>3, <2>4 DEF Accounted, AnsweredFor
<1>5. CASE plan # <<>>
  <2>1. /\ run' = [on |-> TRUE, who |-> who, plan |-> plan, at |-> 1, ready |-> {}]
        /\ touched' = touched \ {Link(plan[1])} /\ told' = told /\ gaps' = gaps
    BY <1>5 DEF BeginRun, report
  <2>2. run'.on /\ run'.who = who /\ run'.plan = plan /\ run'.at = 1
    BY <2>1
  <2>3. GapsAreAbout'
    BY <2>1 DEF GapsAreAbout
  <2>4. plan[1] \in PlannedTask /\ (who = NoApp \/ who \in plan[1].about)
    <3>1. 1 \in DOMAIN plan
      BY <1>2, <1>5
    <3>2. plan[1] \in Tasks(plan)
      BY <3>1 DEF Tasks
    <3> QED
      BY <1>2, <3>2 DEF Wanted
  <2>5. ASSUME NEW t \in PlannedTask, CallsFor(S, g, t)
        PROVE  InPlace(t)' \/ AnsweredFor(t)'
    <3>1. CASE who = NoApp \/ who \in t.about
      <4>1. InRun(t)'
        BY <2>2, <3>1 DEF InRun
      <4>2. Comes(t)'
        BY <1>3, <2>2, <2>5, <3>1 DEF Comes
      <4> QED
        BY <4>1, <4>2 DEF AnsweredFor
    <3>2. CASE who # NoApp /\ who \notin t.about
      <4>1. ~InRun(t)'
        BY <2>2, <3>2 DEF InRun
      <4>2. Link(t) # Link(plan[1])
        BY <2>4, <3>2, LinkTellsTask
      <4>3. Excused(Link(t)) => Excused(Link(t))'
        BY <2>1, <4>2 DEF Excused
      <4> QED
        BY <1>1, <2>5, <3>2, <4>1, <4>3 DEF AnsweredFor
    <3> QED
      BY <3>1, <3>2
  <2> QED
    BY <1>1, <2>3, <2>5 DEF Accounted
<1> QED
  BY <1>4, <1>5

(* What an app that is new calls for is about that app. *)
LEMMA NewStepsAreAbout ==
  ASSUME NEW S, NEW g, NEW a, NEW C, C \subseteq {Vpn}, NEW t \in PlannedTask,
         CallsFor(S \cup {a} \cup C, g, t), ~CallsFor(S, g, t)
  PROVE  a \in t.about /\ a \in WiredApps
<1>1. /\ t.about = AboutOf(t.kind, t.of) /\ t.of \in WiredApps /\ Vpn \notin WiredApps
      /\ t.kind \in Kinds
  BY WiringAssumption DEF PlannedTask, WiringTask
<1>2. \A w \in WiredApps : w \in S \cup {a} \cup C => w \in S \/ w = a
  BY <1>1
<1>3. t.of \in S \/ t.of = a
  BY <1>1, <1>2 DEF CallsFor
<1>4. CASE t.of = a
  BY <1>1, <1>4 DEF AboutOf
<1>5. CASE t.of \in S
  <2>1. {"prowlarr", "sonarr", "radarr", "qbittorrent", "plex", "jellyfin", "seerr"} \subseteq WiredApps
    BY DEF WiredApps
  <2>2. t.kind = "explain" => FALSE
    BY <1>5 DEF CallsFor, Partner
  <2>3. t.kind = "app-sync" => a = "prowlarr"
    BY <1>2, <1>5, <2>1 DEF CallsFor
  <2>4. t.kind = "download-client" => a = "qbittorrent"
    BY <1>2, <1>5, <2>1 DEF CallsFor
  <2>5. t.kind \in {"media-server", "seerr"} => a = "seerr"
    BY <1>2, <1>5, <2>1 DEF CallsFor, IsFirstServer
  <2>6. t.kind \in {"explain", "app-sync", "download-client", "media-server", "seerr"}
    BY <1>1, <1>5 DEF CallsFor, Kinds
  <2> QED
    BY <1>1, <2>1, <2>2, <2>3, <2>4, <2>5, <2>6 DEF AboutOf
<1> QED
  BY <1>3, <1>4, <1>5

(* An add wires what is new, and what was moved. *)
LEMMA AddAccounts ==
  ASSUME RowsTellTheRun, Accounted, NEW a \in App, Add(a)
  PROVE  Accounted'
<1>1. PICK C : C \subseteq {Vpn} /\ ids' = ids \cup {a} \cup C /\ (Vpn \in C => a = "qbittorrent")
  <2>1. PICK withoutVpn \in BOOLEAN : ids' = ids \cup {a} \cup CompanionsFor(a, ids, withoutVpn)
    BY DEF Add
  <2>2. PICK C : C = CompanionsFor(a, ids, withoutVpn)
    OBVIOUS
  <2>3. C \subseteq {Vpn} /\ (Vpn \in C => a = "qbittorrent")
    BY <2>2, WiringAssumption DEF CompanionsFor
  <2> QED
    BY <2>1, <2>2, <2>3
<1>2. PICK who \in App : who = Wires(a, ids)
  BY WiredIsAnApp
<1>3. /\ ~run.on /\ Deployed /\ UNCHANGED <<graphics, remote, visible>>
      /\ BeginRun(who, PlanFor(who, ids', graphics'))
  BY <1>2 DEF Add, Free, PlanAbout, world
<1>4. a # Vpn => who = a
  BY <1>2 DEF Wires
<1>5. a = Vpn /\ "qbittorrent" \in ids => who = "qbittorrent"
  BY <1>2, WiringAssumption DEF Wires, RidersOf
<1>6. ASSUME NEW t \in PlannedTask, CallsFor(ids', graphics', t), who \notin t.about
      PROVE  InPlace(t)' \/ Excused(Link(t))
  <2>1. CallsFor(ids, graphics, t)
    <3> SUFFICES ASSUME ~CallsFor(ids, graphics, t) PROVE FALSE
      OBVIOUS
    <3>1. a \in t.about /\ a \in WiredApps
      BY <1>1, <1>3, <1>6, NewStepsAreAbout
    <3> QED
      BY <1>4, <1>6, <3>1, WiringAssumption
  <2>2. InPlace(t) \/ Excused(Link(t))
    BY <1>3, <2>1 DEF Accounted, AnsweredFor, InRun
  <2>3. t.kind = "download-client" => (Vpn \in ids <=> Vpn \in ids')
    <3> SUFFICES ASSUME t.kind = "download-client", Vpn \in ids', Vpn \notin ids PROVE FALSE
      BY <1>1
    <3>1. "qbittorrent" \in ids /\ "qbittorrent" \in t.about
      BY <2>1 DEF CallsFor, PlannedTask, AboutOf
    <3>2. "qbittorrent" # Vpn
      BY WiringAssumption DEF WiredApps
    <3> QED
      BY <1>1, <1>4, <1>5, <1>6, <3>1, <3>2
  <2> QED
    BY <1>3, <1>6, <2>2, <2>3, RightStays DEF remote
<1>7. PICK plan : plan = PlanFor(who, ids', graphics')
  OBVIOUS
<1> QED
  BY <1>3, <1>6, <1>7, BeginningAccounts DEF Accounted

(* A reconnect may save new answers, and then sees to the downloader. *)
LEMMA ReconnectAccounts ==
  ASSUME RowsTellTheRun, Accounted, NEW a \in App, NEW newAnswers \in BOOLEAN, Reconnect(a, newAnswers)
  PROVE  Accounted'
<1>1. /\ ~run.on /\ Deployed /\ UNCHANGED <<ids, graphics, entries, visible>>
      /\ BeginRun(a, PlanFor(a, ids', graphics'))
      /\ there' = there \/ there' = there \ {<<"downloader-settings", a>>}
  BY DEF Reconnect, Free, PlanAbout, world, install
<1>2. ASSUME NEW t \in PlannedTask, CallsFor(ids', graphics', t), a \notin t.about
      PROVE  InPlace(t)' \/ Excused(Link(t))
  <2>1. InPlace(t) \/ Excused(Link(t))
    BY <1>1, <1>2 DEF Accounted, AnsweredFor, InRun
  <2>2. ASSUME InPlace(t) PROVE InPlace(t)'
    <3>1. PartsAreRight(t) /\ (t.kind \in KeepsEntry => EntryIsAccepted(Link(t)))
      BY <2>2, RightMeans DEF RightIsPartsAndEntry
    <3>2. t.of # a
      BY <1>2 DEF PlannedTask, AboutOf
    <3>3. PartsAreRight(t)'
      BY <1>1, <3>1, <3>2 DEF PartsAreRight, Settled
    <3>4. t.kind \in KeepsEntry => EntryIsAccepted(Link(t))'
      BY <1>1, <3>1 DEF EntryIsAccepted, TargetOf, Target
    <3> QED
      BY <3>3, <3>4, RightMeansThen
  <2> QED
    BY <2>1, <2>2
<1>3. PICK plan : plan = PlanFor(a, ids', graphics')
  OBVIOUS
<1> QED
  BY <1>1, <1>2, <1>3, BeginningAccounts DEF Accounted

(* Only the owner's own Plex is disconnected, and with it goes its gap. *)
LEMMA DisconnectAccounts ==
  ASSUME RowsTellTheRun, Accounted, NEW a \in App, Disconnect(a)
  PROVE  Accounted'
<1>1. /\ ~run.on /\ Deployed /\ a \notin Managed /\ ids' = ids \ {a} /\ gaps' = [gaps EXCEPT ![a] = {}]
      /\ UNCHANGED <<graphics, remote, visible, run, rows, told, touched>>
  BY DEF Disconnect, Free, world
<1>2. a \in WiredApps => a = "existing-plex"
  BY <1>1, WiringAssumption
<1>3. GapsAreAbout'
  BY <1>1 DEF Accounted, GapsAreAbout
<1>4. ASSUME NEW t \in PlannedTask, CallsFor(ids \ {a}, graphics, t)
      PROVE  InPlace(t)' \/ Excused(Link(t))'
  <2>1. /\ t.about = AboutOf(t.kind, t.of) /\ t.of \in WiredApps /\ t.of \in ids /\ t.of # a
        /\ t.about \subseteq {"prowlarr", "qbittorrent", "seerr", t.of}
    BY <1>4 DEF PlannedTask, WiringTask, CallsFor, AboutOf
  <2>2. {"prowlarr", "sonarr", "radarr", "qbittorrent", "seerr", "plex", "jellyfin"} \subseteq WiredApps \ {a}
    BY <1>2 DEF WiredApps
  <2>3. a \notin t.about
    BY <2>1, <2>2
  <2>4. CallsFor(ids, graphics, t)
    BY <1>4, <2>2 DEF CallsFor, IsFirstServer, Partner
  <2>5. InPlace(t) \/ Excused(Link(t))
    BY <1>1, <2>4 DEF Accounted, AnsweredFor, InRun
  <2>6. Vpn \in ids <=> Vpn \in ids'
    BY <1>1, CatalogAssumption
  <2>7. InPlace(t) => InPlace(t)'
    BY <1>1, <2>6, RightStays DEF remote
  <2>8. PICK l : l = Link(t)
    OBVIOUS
  <2>9. t.about = AboutOf(l[1], l[2])
    BY <2>8 DEF PlannedTask, Link
  <2>10. Excused(l) => Excused(l)'
    <3> SUFFICES ASSUME NEW b \in App, l \in gaps[b] PROVE l \in gaps'[b]
      BY <1>1 DEF Excused
    <3>1. b # a
      BY <2>3, <2>9 DEF Accounted, GapsAreAbout
    <3> QED
      BY <1>1, <3>1
  <2> QED
    BY <2>5, <2>7, <2>8, <2>10
<1>5. \A t : ~InRun(t)'
  BY <1>1 DEF InRun
<1> QED
  BY <1>1, <1>3, <1>4, <1>5 DEF Accounted, AnsweredFor

(* As long as the report is not touched, what was answered for is. *)
LEMMA AnswersStay ==
  ASSUME RowsTellTheRun, Accounted, ids' = ids, graphics' = graphics, rows' = rows, told' = told, gaps' = gaps,
         touched \subseteq touched',
         run'.on = run.on /\ run'.who = run.who /\ run'.plan = run.plan /\ run'.at = run.at,
         \A t \in PlannedTask : CallsFor(ids, graphics, t) /\ InPlace(t) =>
           InPlace(t)' \/ Link(t) \in touched' \/ (InRun(t) /\ Later(t))
  PROVE  Accounted'
<1>1. GapsAreAbout' /\ (Deployed' <=> Deployed)
  BY DEF Accounted, GapsAreAbout, Deployed
<1>2. ASSUME NEW t \in PlannedTask, CallsFor(ids, graphics, t), Deployed
      PROVE  InPlace(t)' \/ AnsweredFor(t)'
  <2>1. InPlace(t) \/ AnsweredFor(t)
    BY <1>2 DEF Accounted
  <2>2. (InRun(t)' <=> InRun(t)) /\ (Comes(t)' <=> Comes(t)) /\ (Failed(t)' <=> Failed(t))
    BY DEF InRun, Comes, Failed
  <2>3. Excused(Link(t)) => Excused(Link(t))'
    BY DEF Excused
  <2>4. AnsweredFor(t) => AnsweredFor(t)'
    BY <2>2, <2>3 DEF AnsweredFor
  <2>5. Link(t) \in touched' => AnsweredFor(t)'
    BY DEF AnsweredFor, Excused
  <2>6. InRun(t) /\ Later(t) => AnsweredFor(t)'
    <3> SUFFICES ASSUME InRun(t), Later(t) PROVE Comes(t)
      BY <2>2 DEF AnsweredFor
    <3>1. PICK i \in run.at + 1 .. Len(run.plan) : run.plan[i] = t
      BY DEF Later
    <3>2. run.at \in Nat /\ Len(run.plan) \in Nat
      BY DEF InRun, RowsTellTheRun
    <3>3. i \in run.at .. Len(run.plan)
      BY <3>2
    <3> QED
      BY <3>1, <3>3 DEF Comes
  <2> QED
    BY <1>2, <2>1, <2>4, <2>5, <2>6
<1> QED
  BY <1>1, <1>2 DEF Accounted

(* An app gets ready. *)
LEMMA ReadyAccounts ==
  ASSUME RowsTellTheRun, Accounted, ProveReady
  PROVE  Accounted'
<1>1. PICK now : run' = [run EXCEPT !.ready = now]
  BY DEF ProveReady
<1>2. run'.on = run.on /\ run'.who = run.who /\ run'.plan = run.plan /\ run'.at = run.at
  BY <1>1 DEF RowsTellTheRun
<1>3. /\ ids' = ids /\ graphics' = graphics /\ rows' = rows /\ told' = told /\ gaps' = gaps
      /\ touched' = touched /\ there' = there /\ entries' = entries /\ visible' = visible
  BY DEF ProveReady, install, remote, world, report
<1> QED
  BY <1>2, <1>3, RightStays, AnswersStay

(* An app that does not get ready is an error, and an explanation stands for *)
(* no connection.                                                            *)
LEMMA WithoutRequestAccounts ==
  ASSUME RowsTellTheRun, LinksAreSound, Learnt, Accounted, NeverReady \/ SayWhyNot
  PROVE  Accounted'
<1>1. call["run"] # NoCall
  BY DEF NeverReady, SayWhyNot, NoCall
<1>2. run.on
  BY <1>1 DEF RowsTellTheRun
<1>3. UNCHANGED install /\ there' = there /\ entries' = entries /\ visible' = visible /\ ids' = ids
  BY DEF NeverReady, SayWhyNot, install, remote, world
<1>4. \A t \in PlannedTask : InPlace(t) => InPlace(t)'
  BY <1>3, RightStays
<1>5. CASE NeverReady
  <2>1. FinalFrame("error")
    BY <1>5 DEF NeverReady
  <2>2. "error" \in Finals
    BY DEF Finals
  <2> QED
    BY <1>2, <1>3, <1>4, <2>1, <2>2, FinalFrameAccounts
<1>6. CASE SayWhyNot
  <2>1. FinalFrame("skipped") /\ call["run"].op = "explain"
    BY <1>6 DEF SayWhyNot
  <2>2. "skipped" \in Finals
    BY DEF Finals
  <2>3. ASSUME NEW t, t = run.plan[run.at] PROVE InPlace(t)'
    <3>1. t \in PlannedTask /\ t.kind = "explain"
      BY <1>2, <2>1, <2>3, KnownIsKnown DEF RunIsKnown, RequestFits
    <3>2. t.kind \notin KeepsEntry /\ PartsAreRight(t)'
      BY <3>1 DEF KeepsEntry, PartsAreRight
    <3> QED
      BY <3>1, <3>2, RightMeansThen
  <2> QED
    BY <1>2, <1>3, <1>4, <2>1, <2>2, <2>3, FinalFrameAccounts
<1> QED
  BY <1>5, <1>6

(* A request of the run. *)
LEMMA RunStepAccounts ==
  ASSUME RowsTellTheRun, LinksAreSound, Learnt, Accounted, Step("run")
  PROVE  Accounted'
<1>1. call["run"] # NoCall
  BY StepIsEither DEF Actor
<1>2. run.on
  BY <1>1 DEF RowsTellTheRun
<1>3. PICK x : x = call["run"]
  OBVIOUS
<1>4. RunIsKnown(x) /\ x.task = run.plan[run.at]
  BY <1>2, <1>3, KnownIsKnown
<1>5. ComesToTheTruth(x)
  BY <1>4, RunStepIsTrue DEF Learnt
<1>6. UNCHANGED install /\ ids' = ids /\ graphics' = graphics
  BY DEF Step, install
<1>7. \A t \in PlannedTask : CallsFor(ids, graphics, t) /\ InPlace(t) =>
        InPlace(t)' \/ (InRun(t) /\ Later(t))
  BY <1>2, RunKeepsRight
<1>8. CASE GoesOnKnowing(x)
  <2>1. run' = run /\ rows' = rows /\ told' = told /\ gaps' = gaps /\ touched' = touched
    BY <1>8 DEF GoesOnKnowing, GoOn, report
  <2> QED
    BY <1>6, <1>7, <2>1, AnswersStay
<1>9. CASE EndsTruly(x)
  <2>1. PICK v \in Finals : FinalFrame(v) /\ (v = "error" \/ Link(x.task) \in touched \/ InPlace(x.task)')
    BY <1>9 DEF EndsTruly, Conclude
  <2>2. \A t : t = run.plan[run.at] => v = "error" \/ Link(t) \in touched \/ InPlace(t)'
    BY <1>4, <2>1
  <2> QED
    BY <1>2, <1>6, <1>7, <2>1, <2>2, FinalFrameAccounts
<1> QED
  BY <1>5, <1>8, <1>9 DEF ComesToTheTruth

(* A request of the hook. *)
LEMMA HookStepAccounts ==
  ASSUME RowsTellTheRun, LinksAreSound, Learnt, Accounted, Step("hook")
  PROVE  Accounted'
<1>1. /\ UNCHANGED <<run, rows, report, touched, install, world>>
      /\ \/ UNCHANGED remote
         \/ Effect("hook") /\ ~Gone("hook") /\ call["hook"].op \in {"put", "post"}
  BY HookStays DEF RowsTellTheRun, Learnt
<1>2. /\ ids' = ids /\ graphics' = graphics /\ run' = run /\ rows' = rows /\ told' = told
      /\ gaps' = gaps /\ touched' = touched /\ visible' = visible
  BY <1>1 DEF install, report, world
<1>3. ASSUME NEW t \in PlannedTask, InPlace(t) PROVE InPlace(t)'
  <2>1. CASE UNCHANGED remote
    BY <1>2, <1>3, <2>1, RightStays DEF remote
  <2>2. CASE Effect("hook") /\ ~Gone("hook") /\ call["hook"].op \in {"put", "post"}
    <3>1. PICK x : x = call["hook"]
      OBVIOUS
    <3>2. x.op # "write"
      BY <2>2, <3>1
    <3> QED
      BY <1>2, <1>3, <2>2, <3>1, <3>2, EffectKeepsRight DEF Actor
  <2> QED
    BY <1>1, <2>1, <2>2
<1> QED
  BY <1>2, <1>3, AnswersStay

(* A run that is resumed goes through all of its steps again. *)
LEMMA RestartAccounts ==
  ASSUME RowsTellTheRun, Learnt, Accounted, Restart
  PROVE  Accounted'
<1>1. /\ run.on /\ run' = [run EXCEPT !.at = 1, !.ready = {}]
      /\ touched' = touched \ {Link(run.plan[1])}
      /\ UNCHANGED <<install, remote, world, report>>
  BY DEF Restart
<1>2. run'.on = run.on /\ run'.plan = run.plan /\ run'.at = 1 /\ run'.who = run.who
  BY <1>1 DEF RowsTellTheRun
<1>3. /\ ids' = ids /\ graphics' = graphics /\ there' = there /\ entries' = entries
      /\ visible' = visible /\ told' = told /\ gaps' = gaps
  BY <1>1 DEF install, remote, world, report
<1>4. 1 \in 1 .. Len(run.plan) /\ Deployed
  BY <1>1, StepsArePlanned DEF Learnt, RowsTellTheRun, Deployed
<1>5. run.plan[1] \in PlannedTask /\ InRun(run.plan[1])
  BY <1>1, <1>4, PlannedIsInRun
<1>6. GapsAreAbout'
  BY <1>3 DEF Accounted, GapsAreAbout
<1>7. ASSUME NEW t \in PlannedTask, CallsFor(ids, graphics, t)
      PROVE  InPlace(t)' \/ AnsweredFor(t)'
  <2>1. InRun(t)' <=> InRun(t)
    BY <1>2 DEF InRun
  <2>2. CASE InRun(t)
    <3>1. Comes(t)'
      BY <1>2, <1>7, <2>2, InThePlan DEF Comes
    <3> QED
      BY <2>1, <2>2, <3>1 DEF AnsweredFor
  <2>3. CASE ~InRun(t)
    <3>1. Link(t) # Link(run.plan[1])
      BY <1>5, <2>3, LinkTellsTask
    <3>2. Excused(Link(t)) => Excused(Link(t))'
      BY <1>1, <1>3, <3>1 DEF Excused
    <3>3. InPlace(t) => InPlace(t)'
      BY <1>3, RightStays
    <3> QED
      BY <1>4, <1>7, <2>1, <2>3, <3>2, <3>3 DEF Accounted, AnsweredFor
  <2> QED
    BY <2>2, <2>3
<1> QED
  BY <1>3, <1>6, <1>7 DEF Accounted

(* The owner's edits are the owner's. *)
LEMMA EditAccounts ==
  ASSUME RowsTellTheRun, Accounted, NEW t \in Planned, Edit(t)
  PROVE  Accounted'
<1>1. /\ ids' = ids /\ graphics' = graphics /\ run' = run /\ rows' = rows /\ told' = told
      /\ gaps' = gaps /\ touched' = touched \cup {Link(t)} /\ there' \subseteq there
  BY EditChanges
<1>2. ASSUME NEW u \in PlannedTask, InPlace(u), Link(u) # Link(t) PROVE InPlace(u)'
  <2>1. /\ \A i \in DOMAIN PartsOf(u) : PartsOf(u)[i] \in there <=> PartsOf(u)[i] \in there'
        /\ u.kind = "libraries" /\ u.of = "existing-plex" => visible' = visible
        /\ entries'[Link(u)] = entries[Link(u)]
    BY <1>2, EditChanges
  <2>2. Target(u, ids') = Target(u, ids)
    BY <1>1 DEF Target
  <2>3. ASSUME Right(u) PROVE Right(u)'
    <3>1. ASSUME NEW i \in DOMAIN PartsOf(u)
          PROVE  \/ Has(u, i)'
                 \/ u.kind = "libraries" /\ u.of = "existing-plex" /\ PartsOf(u)[i][1] \notin visible'
                 \/ PartsOf(u)[i][1] = "enabled" /\ there' \cap {<<"movies", u.of>>, <<"tv", u.of>>} = {}
      BY <1>1, <2>1, <2>3, <3>1 DEF Right, Has
    <3> QED
      BY <2>1, <2>2, <2>3, <3>1 DEF Right, At
  <2>4. Misdirected(u) => Misdirected(u)'
    BY <2>1 DEF Misdirected
  <2> QED
    BY <1>2, <2>3, <2>4 DEF InPlace
<1> QED
  BY <1>1, <1>2, AnswersStay

(* Whatever is done leaves no connection unaccounted for. *)
LEMMA NextKeepsAccounts ==
  ASSUME RowsTellTheRun, LinksAreSound, Learnt, Accounted, [Next]_vars
  PROVE  Accounted'
<1>1. CASE Deploy
  <2>1. ~run.on /\ BeginRun(NoApp, PlanFor(NoApp, ids', graphics'))
    BY <1>1 DEF Deploy, install, PlanWiring
  <2>2. PICK plan : plan = PlanFor(NoApp, ids', graphics')
    OBVIOUS
  <2> QED
    BY <2>1, <2>2, BeginningAccounts DEF Accounted
<1>2. CASE ProveReady
  BY <1>2, ReadyAccounts
<1>3. CASE NeverReady \/ SayWhyNot
  BY <1>3, WithoutRequestAccounts
<1>4. CASE Step("run")
  BY <1>4, RunStepAccounts
<1>5. CASE Step("hook")
  BY <1>5, HookStepAccounts
<1>6. ASSUME NEW a \in App, Add(a) PROVE Accounted'
  BY <1>6, AddAccounts
<1>7. ASSUME NEW a \in App, NEW newAnswers \in BOOLEAN, Reconnect(a, newAnswers) PROVE Accounted'
  BY <1>7, ReconnectAccounts
<1>8. ASSUME NEW a \in App, Disconnect(a) PROVE Accounted'
  BY <1>8, DisconnectAccounts
<1>9. CASE Restart
  BY <1>9, RestartAccounts
<1>10. CASE Refresh \/ ComesUp \/ UNCHANGED vars
  <2>1. /\ ids' = ids /\ graphics' = graphics /\ run' = run /\ rows' = rows /\ told' = told
        /\ gaps' = gaps /\ touched' = touched /\ there' = there /\ entries' = entries
        /\ visible' = visible
    BY <1>10 DEF Refresh, ComesUp, vars, install, remote, world, report
  <2> QED
    BY <2>1, RightStays, AnswersStay
<1>11. ASSUME NEW t \in Planned, Edit(t) PROVE Accounted'
  BY <1>11, EditAccounts
<1> QED
  BY <1>1, <1>2, <1>3, <1>4, <1>5, <1>6, <1>7, <1>8, <1>9, <1>10, <1>11 DEF Next, RunStep

(* Before the first run nothing is promised. *)
LEMMA InitIsAccounted == Init => Accounted
BY DEF Init, Accounted, GapsAreAbout, Deployed

(* Without a run, what is answered for was told, is a gap or is the owner's. *)
LEMMA AccountedIsTold ==
  ASSUME Accounted
  PROVE  NothingIsSilentlyMissing
<1> SUFFICES ASSUME Deployed, ~run.on, NEW t \in Planned
             PROVE  InPlace(t) \/ Link(t) \in told \cup touched \cup UNION {gaps[a] : a \in App}
  BY DEF NothingIsSilentlyMissing, InPlace
<1>1. t \in PlannedTask /\ CallsFor(ids, graphics, t)
  BY PlannedIsTask DEF Wanted
<1>2. InPlace(t) \/ Excused(Link(t))
  BY <1>1 DEF Accounted, AnsweredFor, InRun
<1> QED
  BY <1>2 DEF Excused

(* After any sequence of adds, reconnects, disconnections, restarts and hand *)
(* edits, every connection the plan of the install calls for is there, or    *)
(* someone was told of it; but for an application's entry that the owner     *)
(* gave another address.                                                     *)
THEOREM NothingIsMissing == Spec => []NothingIsSilentlyMissing
<1> DEFINE IInv == RowsTellTheRun /\ LinksAreSound /\ Learnt /\ Accounted
<1>1. Init => IInv
  BY InitIsSound, InitIsLearnt, InitIsAccounted
<1>2. IInv /\ [Next]_vars => IInv'
  BY NextKeepsTheReport, NextKeepsLinksSound, NextKeepsLearnt, NextKeepsAccounts
<1>3. IInv => NothingIsSilentlyMissing
  BY AccountedIsTold
<1> QED
  BY <1>1, <1>2, <1>3, PTL DEF Spec
==============================================================================
