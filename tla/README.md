# Marrquee in TLA+

Marrquee is a small web program a home owner runs on a NAS. A wizard asks
which media apps are wanted; Marrquee writes a compose file, has Docker start
the apps one by one, wires them together over their own APIs, and then shows a
Hub from which apps are added, connected again, moved behind a VPN or taken
off. Everything happens in one Python process on one asyncio loop: nothing
runs in parallel, but any two things that *await* are interleaved, the process
can be restarted at any await, and Docker, the VPN and the apps can fail or
answer late. These modules say what the program does at that level, TLC checks
them on small catalogs, and TLAPS proves a part for every catalog.

## 1. Inventory

All paths are under `src/src/marrquee/`.

| Component | State | Operations | Hard behaviours | What makes it correct |
|---|---|---|---|---|
| **Deploy manager** `deploy.py` | the snapshot (`phase`, `apps`, `adding`), also in `deploy.json`; `_task`; subscribers | `start`, `add_app`, `retry_add`, `reconnect_app`, `change_vpn`, `cancel_add`, `disconnect_app`, `apply_login`, `return_to_ready`, `resume_if_interrupted`; six kinds of background run | a run is a dozen awaits on Docker, requests arrive between them, every await may fail or be the last before a restart | one run at a time; what the Hub shows exists; a failure always becomes something the owner can answer; a resumed run repeats the one cut off |
| **App catalog** `catalog.py` | none (constants) | deploy order, `needs_any` / `excludes_any`, `network_via`, companions | rules asked at add, at disconnect and by the wizard, not at cancel | the rules hold of every Hub that can be reached |
| **Compose file** `compose.py` | `compose.yaml` | `build_stack_plan`, render, write | rider behind the VPN or on its own network, who publishes its port | no plan for a rider without VPN unless confirmed |
| **Docker client** `docker_client.py` | Docker's containers | `compose up` (`--no-recreate` or not), stop, forced remove, inspect, exec | `--no-recreate` keeps what exists; a container can be created and not start; removing the VPN strands its rider | someone else's container is never touched |
| **Saved install** `install.py`, `state.py`, `storage.py` | `install.json`, the marker in the storage root | save, load, grow, shrink, mark, clash lookup | several files written at different points of a run | install and Hub agree; the marker covers only what is ours |
| **Running without VPN** `without_vpn.py` | `without_vpn.json` | confirm, undo, withdraw | wizard, Hub and a finished move all write it | never withdrawn under a downloader that runs on it |
| **Web wizard** `routes/wizard.py`, `questions.py` | install.json, answers | one POST per page | its guard is read once, then awaits; second tabs | never changes a stack under a run |
| **Hub routes** `routes/hub.py`, `routes/api.py`, `routes/deploy.py` | none | the POSTs of the Hub, event stream | guards live in the routes and in the manager | each request is refused or done whole |
| **Process start** `main.py` | none | read the snapshot, resume | restart in every state | whatever was under way is picked up |
| **Login** `login.py`, `login_apply.py` | login generation, `applied` map | save, record applied | login changed during a login run | an app is marked only with the login it has |
| **Wiring engine** `wiring/engine.py`, `steps.py`, clients | outcomes | plan, wait ready, look, apply, retry | an answer lost after the work was done; entries the owner has edited; a hook beside the run | re-running never doubles what it can recognise; done is true |
| **Media server wiring** `wiring/plex_steps.py` … | libraries, Seerr's entries | Plex, Jellyfin, Seerr steps | writes whose answer is lost; an owner's Plex that cannot see the folders | as above |
| **Plex** `plex.py`, `routes/plex.py` | token, claim file, `existing_plex.json`, pending PINs | sign in, claim, connect, disconnect | a code that expires during a download; requests that look, await and then save | no code or record is left behind, none is missing |
| **Jellyfin and Seerr set-up** `jellyfin.py`, `seerr.py` | the key in `jellyfin.json`; what is set up in the app | first-time setup, one request at a time | every request may do its work and lose its answer, at any point the process may be killed | gone through again it finds its own work; Seerr opens with its rules |
| **VPN** `vpn.py`, `vpn_control.py` | none (the tunnel is Gluetun's) | verdict from state, health, log, status and address | refused and slow look alike; health lags behind the tunnel | a VPN called up has just carried traffic |
| **Monitors** (Recyclarr, drive check) `recyclarr.py`, `hardlinks.py` | one task, `_again` flag, last result | request, run, join | requests while one is in flight | each request is followed by a run that started after it |
| **qBittorrent and seeding** `qbittorrent.py`, `seeding.py` | one file | read and write settings | none | |
| **Hub view** `hub.py`, `health.py`, `links.py`, `deploy_screen.py` | none | render | none | offers match what the routes accept |
| **Words and addresses** `words.py`, `addresses.py`, … | none | format | none | |

How they interact. Routes call the manager (plain calls on the loop). The
manager starts a run as an asyncio task and keeps only the newest handle. A run
reads `install.json` and `adding`, writes the marker and `compose.yaml`, calls
Docker, then the wiring engine, and says everything through the snapshot, which
is written to `deploy.json` in the same step and pushed to the subscribers. At
start-up the snapshot alone decides what is resumed. The wizard and the
break-glass confirmation share `install.json` and `without_vpn.json` with the
runs and know of them only through `phase`.

The hazards this gives rise to are listed, each at its line, in `PROJECT.json`.

## 2. The modules

    Catalog  <-  Docker  <-  DeployManager  <-  MCDeployManager        (TLC)
                                           <-  DeployManager_proofs
                                               <-  DeployManagerHub_proofs  (TLAPS)
    Catalog  <-  WiringPlan  <-  WiringEngine  <-  MCWiring
                                           <-  WiringEngine_proofs
                                 WiringEngine  =>  WiringReport   (refinement)
    BringUp  <-  Tunnel, PlexClaim, JellyfinSetup, SeerrSetup
                                           <-  BringUps  <-  BringUps_proofs
    EventStream, HardlinkMonitor  <-  HubPages     <-  HubPages_proofs
    PlexConnect                                    <-  PlexConnect_proofs
    RecyclarrMonitor                               <-  RecyclarrMonitor_proofs
    Login                                          <-  Login_proofs

`DeployManager` has the whole of the manager and takes each bring-up and each
wiring pass as one step. The other modules each model one part in the detail
`DeployManager` leaves out and take the rest of the manager as the requests and
runs that part can see. All but the catalogs of `DeployManager` and
`WiringEngine` are checked as they are. `MCServices` puts the four parts that
work beside the manager into one run: it EXTENDS `Login`, `RecyclarrMonitor`,
`PlexConnect` and `HubPages`, which is why their `Init`, `Next`, `Spec` and type
invariants carry the part's name. The four share no variable, so nothing one of
them does can depend on where the others are; a variable `part`, chosen at the
start, is the one that moves, and the run has the sum of their states instead of
the product.

In all of them a step is the code between two awaits: asyncio runs that much
without giving way. The one exception is named at `PlexConnect` below. A kill
of the process falls between steps too, unless a module says otherwise.

**`Catalog`** - constant operators: which apps there are and in which order,
which ride the VPN's network, `Unavailable`, `CompanionsFor`, `PlanBuilds`. The
catalog's facts a proof needs are in `CatalogAssumption`: the order is strict,
there is one rider at most (qBittorrent) and it comes after the VPN. All three
are true of the table in `catalog.py`. So is `RulesAssumption`, which the
theorem about the rules needs: an exclusion is written on both sides, no app
needs itself, and the VPN has no rule. TLC evaluates both on the catalogs of the
runs.

**`Docker`** - what the manager can do to containers. A container is `own`,
`via` (in the VPN container's network namespace), `orphan` (in the namespace of
a VPN container removed under it), `foreign` or `none`; `tunnel` records of the
VPN's container whether a run has proven it, whether answers were saved after
it was made, and whether it publishes its rider's port. `docker-compose up`
creates in one step and starts in a second one, because it may fail in between.

**`DeployManager`** - the manager, with the files it shares with the wizard.

| Variable | Code |
|---|---|
| `install`, `noVpn`, `marker`, `compose` | `install.json`, `without_vpn.json`, the marker of the storage root, `compose.yaml`: each by the app ids in it |
| `phase`, `apps`, `adding` | the snapshot; `adding` is the `AppAdd` of the one add, change, restore or reconnect |
| `runs`, `task` | the asyncio tasks alive, and `self._task`; `pc` is the await a run is parked on, `todo` what its loop has left, the other fields its local variables |
| `cancel` | `cancel_add` while it awaits Docker |

A step is the code between two awaits. A background run goes through `begin`,
`probe`, `clash`, `self_id`, `stop` / `remove` (per mover), `unseat` (the VPN's
container goes), `up` / `start` / `ready` (per app), `logins`, `wire`; each
kind of run skips what its code skips. `Break` is the failure of any await of a
run and its time limit. Every request (`Start`, `AddApp`, `RetryAdd`,
`Reconnect`, `ChangeVpn`, `Disconnect`, `CancelAdd`, `ApplyLogin`, the wizard's
pages and the confirmation) is one action with the refusals of its route and of
the manager as guards. `Restart` drops tasks and starts what
`resume_if_interrupted` starts.

What is abstracted: a login is always saved, so the "no login" refusal does not
occur; there is one storage root; keys and answers are not data, only their
freshness (`tunnel.stale`) is; the wizard's choices are the sets its grid
offers; the pass over names that looks for a clash is atomic; the writing of
files does not fail; a task that has ended is the same as none. The inside of
the wiring pass, of the bring-ups and of the tunnel's verdict is one step each
here; `WiringEngine` and `BringUps` have it in full. The `wiring_gaps` of an
add are left to `WiringEngine` as well.

**`RecyclarrMonitor`** - the background task that has Recyclarr sync.

| Variable | Code |
|---|---|
| `saved`, `installed`, `file` | a version number for `install.json` and `answers.json`, whether Recyclarr is among the apps, the version `recyclarr.yml` was rendered from |
| `pc`, `again` | the await `_task` is parked on, `_again` |
| `exec`, `ownLog`, `newest` | the exec of the run under way, the log it wrote, the newest log of the folder |
| `startFailed`, `runFailed`, `ending` | `_start_failed_at` and `_run_failed_at` as `_is_stale_failure` sees them (set, and no newer log); how the last task ended |
| `read`, `asked` | what the run under way read; what was saved when the last request came (what the properties speak of, no state of the code's) |

`RunEnds` is the end of `_run_once` together with the `while self._again` of
`_run_until_settled`: there is no await between the two, so it is one step.
`exec` and the logs belong to Docker and Recyclarr and move on their own; any
log at all may appear at any time, as the container has a daily sync of its
own. A restart forgets requests, as the code does.

**`Login`** - login.json, the appliers and the runs that use them.

| Variable | Code |
|---|---|
| `login`, `applied` | `generation` and `applied` of `login.json` |
| `carries` | the generation whose name and password each app really asks for |
| `run` | the run under way: a deploy or an add that reads the login for each app (`_put_login`), or a login run that keeps the one it was started with (`gen`), with the apps left and those that accepted |
| `finale`, `posting` | whether the Hub exists; a wizard page past its guard that waits for its form |

A login is its generation. The requests of one applier to one app are a step
with every outcome they can have: done, done with the answer lost, not done,
and for Jellyfin the new name with the old password. A request that timed out
is assumed not to be carried out later still. In which order a run takes the
apps is left open. The catalog's login kinds are constants.

**`WiringPlan`, `WiringReport`, `WiringEngine`** - `plan_wiring`, what a wiring
run promises, and the engine with every `ensure_*` step.

`PlanFor` is `plan_wiring`: the tasks an install calls for, in the order of the
code, kept or left out by `only_app`. `PlanWiring` is the whole of it (a
deploy), `PlanAbout` the part an add or a reconnect picks. The choice is made
task by task while the list is put together, which comes to the same list as
the code's filter at the end and can be reasoned about. A task is a record of its kind, the app
it is of, the apps it proves ready first and the apps it is about. What a task
brings about is either a set of *parts* (folders, categories, libraries,
settings: looked up by what they are) or an *entry* in another app's list
(looked up by where it points, then by its name).

| Variable | Code |
|---|---|
| `ids`, `graphics` | the install the wiring works for |
| `there`, `entries`, `visible`, `down` | what is set up in the apps: parts, entries, the folders the owner's Plex sees; the apps that do not answer |
| `run`, `rows` | `WiringEngine.run`: plan, current task, `ready_apps`; the frames it yields |
| `call` | for the run and for the hook after a sync: the task being applied, the request awaited, what the last look saw, the attempt |
| `told`, `gaps` | the failed links named in the finale, `wiring_gaps` per app |
| `touched`, `budget` | what the owner edited since the task began (for a property); what is left of the bounds |

A step is one HTTP request, with the code up to the next one. Every request may
be served, refused, not served, or served with its answer lost; only what the
code takes for "no answer" leads to another attempt. `WiringReport` is the
abstract specification: one verdict per step, in order, that stands, and an
end. `WiringEngine` implements it: the frames are the report's rows
(`Report == INSTANCE WiringReport WITH rows <- rows`), and `ReportIsKept` is
`Report!Spec`.

An entry is reduced to where it points (`points`: the host of an app, or
elsewhere), whether it has the name Marrquee gives it (`named`), and whether the
other fields a step compares are as wanted (`good`: `prowlarrUrl` and
`syncLevel` of an application; port, category and switches of a download
client; key, profile, folder and switches of Seerr's). Which of the three a step looks for and which it compares
is the code's: `FindEntry` takes the address, then the name; `AsWanted` compares
the address of every entry but an application's. Fields that are sent and never
compared, such as a key that the app masks in its answers, are left out. The owner may delete
an entry, rename it, spoil `good` or point it elsewhere, of every kind, once a
run has been; not while there are two of it.
The hook after a sync (`Refresh`) reads the saved install and goes to Seerr
round the manager's busy guard, so it may be at the same entries as a run
(`HookBeside`), as nothing in `main.py` prevents.

**`BringUp`, `Tunnel`, `PlexClaim`, `JellyfinSetup`, `SeerrSetup`,
`BringUps`** - `_bring_up_app`, whose branches are seven kinds of app.

| Variable | Code |
|---|---|
| `app`, `pc`, `result` | the branch, the call about to be made, done or the `FailureCode` |
| `clock`, `since` | sleeps of the loop so far; the sleep since which half a proof has held (`healthy_since`, `unclaimed_since`) |
| `box`, `up`, `other` | the container, whether its process answers, another server on its port |
| `Tunnel`: `answers`, `secrets`, `used`, `refused`, `tunnel`, `lately` | the saved login, the secrets folder, the login Gluetun was started with, what its newest log lines say; the tunnel, and sleeps since it carried traffic |
| `PlexClaim`: `file`, `retried`, `claimed`, `trying`, `logged` | the claim file, the one retry; the server's account, what the container does with its code, its log |
| `JellyfinSetup`: `held`, `admin`, `wizard`, `keys`, `newest`, `saved` | the login read at the start; Jellyfin's admin, its setup, its keys; the newest key listed, `jellyfin.json` |
| `SeerrSetup`: `account`, `type`, `rules`, `open` | the sign-in on disk; Seerr's media server, sign-in rules and `initialized` |

`BringUp` has the steps all kinds share (compose, the network, the look at the
container, the limit) and what happens around them: an app boots, a container
crashes and is started again, Marrquee is killed and begins the same app from
the top, the app is brought up once more later. Abstractions: clearing the
claim file succeeds (the code swallows its failure with a log line); a
container is made anew only by the Plex retry; an attempt to claim is over
within two sleeps of a server that answers, which is why `PlexAssumption` asks
for a `Grace` above two (the code's grace is 90 s); Gluetun's health check is
one sleep behind at most.

**`EventStream`, `HardlinkMonitor`, `HubPages`** - what the open pages live on.

| Variable | Code |
|---|---|
| `snap`, `disk` | `_snapshot`, and the one in `deploy.json`, by number |
| `subscribed`, `queue`, `stream`, `shown` | `_subscribers`, a page's one-slot queue, its `EventSource`, what it has painted |
| `install`, `links` | version of `install.json`; whether the drive makes hard links |
| `task`, `reads`, `found`, `litter`, `result` | where the check is, the install it read, its finding, its test file on the drive, `hardlink-check.json` |

`Heartbeat` is the time-out of `wait_for`, which cancels the generator it waits
for and so ends the stream after its keep-alive; the browser then connects
again. `HubPages` puts the two beside each other in the process they share: once its
finale is out and pages may have it, a run asks for a check, of an install that
was saved when it began; a restart strikes both, between the two as well. Pages do not
affect one another, so one page is enough. The check's thread is not modelled
as hanging, and the removal of its own test file works.

**`PlexConnect`** - how the owner's own Plex comes and goes: the sign-in, a
`POST /plex/connect` per tab, the add's run, the record and the link card.

| Variable | Code |
|---|---|
| `token`, `answer`, `pin` | `plex.json`, the wizard's answer, `PlexSignInStore` and the sign-in that took a PIN out of it |
| `request` | a tab's `post_plex_connect`, at its calls of plex.tv and of the server |
| `record`, `link` | `existing_plex.json`, the link card |
| `onHub`, `rival`, `adding`, `job` | whether the owner's Plex, or one of ours, is on the Hub; the add shown; the manager's task |

`SaveToken` and `SaveAnswer` are two steps although no await is between them:
the code's comment promises an order that survives a kill, so a kill may come
there. A restart between the publish of the finale and the drop of the replaced
card leaves the card, as in the code. One other app stands for all the others.

## 3. The runs

`core`, `liveness`, `cancel_overlap` and `retry_orphans_rider` use
`MCDeployManager`, whose catalog has one app of each kind: an arr app, the VPN,
its rider, Plex, the owner's own Plex (unmanaged) and Seerr, the app with rules.
Each run takes the apps its question is about. The bounds are those sets and
`RunId`, two slots for background tasks: one is enough while `OneRunAtATime`
holds, the second is there so that it could fail. Nothing else is bounded there:
the model counts nothing.

| Run | What it shows |
|---|---|
| `core` | Four apps (arr, VPN, rider, own Plex), a Gluetun of someone else perhaps on the machine. Seven invariants and three action properties over every interleaving of requests, failures and restarts. |
| `liveness` | VPN, rider, own Plex and Seerr: every run ends, what is under way settles, and `HubKeepsTheRules` holds although Cancel never asks the rules. |
| `second_tab` | "A restart mid-deploy is the same run continuing" fails once other choices are saved in a second tab, which the wizard allows until the finale: the resumed run deploys those. (Even without a restart such a save leaves the Hub of the first choices beside an `install.json` of the second.) |
| `cancel_overlap`, `retry_orphans_rider` | Two statements of the manager's own comments that it does not keep; TLC's shortest counterexample is the story. |
| `wiring` | Five small installs that together call for every kind of task, each of which may get one newcomer, with one edit by hand, two faults and the hook beside the runs: what is reported done is there and what is missing is named, an application's entry that the owner misdirected excepted; a second entry is made only beside a renamed one, Seerr's excepted; runs end, and the engine implements `WiringReport`. |
| `renamed_client` | "Found and repaired instead of duplicated - including one still pointing at its OLD host": rename the entry, add the VPN, and there are two. |
| `edited_base_url` | "A hand-edited or oddly-configured entry is still found and repaired": an application whose address the owner changed is found by its name and called done as it is. |
| `bring_up` | All seven kinds of app, with two lost or refused calls, one kill, one repeat and two events in the app: a bring-up ends, within its limit, and what it reports and leaves behind is right. |
| `refused_again` | "Check the username and password you saved, then press Try again" is said of a login that was never tried. |
| `services` | The four parts beside the manager, each in its turn. Recyclarr: requests, saves (3 of them), runs, other syncs, broken replies and restarts: each request gets a run that read what was saved when it came, at once or by way of `_again`, and none waits behind the others for ever. Login: two arr apps, qBittorrent and Jellyfin, a login saved twice, also from a wizard page that was let in before the Hub existed: an app the Hub does not name as pending has the saved login; a login run recreates only what accepted. Plex: two tabs, two servers, one connect at a time: no Plex without its record, no record without its Plex, no answer without its token, no card gone for another's Plex. Pages: one page, four snapshots, two new installs, a result that cannot be saved, a restart: the page comes to show the last snapshot and never goes back; the drive's verdict is true and comes to be about the install there is. |
| `connect_twice` | `PlexConnect` with two connects at once: the one refused as busy wipes the record of the one that is added, and "Try again" can only fail. |

Further configurations are kept beside these for whoever works on the code
there. All but the first two end in a counterexample, most of them to a statement
the repository makes less plainly than those of the runs above:

| Configuration | Module | Property |
|---|---|---|
| `HubRules.cfg` (passes) | `MCDeployManager` | `HubKeepsTheRules`, with Plex and an arr app in play as well |
| `WiringAgain.cfg` (passes) | `MCWiring` | `NothingIsSilentlyMissing` and `SecondOnlyBesideRenamed` without faults, with two runs after the first and two edits, in every order, and a second arr app that comes later; the hook keeps out of the runs, so Seerr's entries are not excepted |
| `SeerrTwice.cfg` | `MCWiring` | `OneEntryPerLink` without any edit: the hook after a sync and an add of Seerr both find no entry and both make one |
| `RetryKeepsOldLogin.cfg` | `MCDeployManager` | answers saved between an attempt and its retry do not reach the container that exists |
| `PortHeldByUs.cfg` | `MCDeployManager` | a port "taken by something else" may be held by a container of ours |
| `MissedLook.cfg` | `MCDeployManager` | `NeverTouchesForeign` when Docker misses the look for a name clash |
| `DroppedSync.cfg`, `BorrowedVerdict.cfg` | `RecyclarrMonitor` | a broken reply drops the request in `_again`; another sync's log clears a failed run's verdict |
| `LeftOver.cfg`, `PortIsOurs.cfg`, `ForeignPlex.cfg` | `BringUps` | our half set-up Jellyfin is called a stranger's after a change of login; one missed look takes our own server for another's; a server on the port that missed the pre-flight is taken for the claimed Plex |
| `EditedLink.cfg` | `PlexConnect` | a card edited after the choice is removed all the same |

Why the bounds are enough. The manager treats apps alike but for the traits the
catalog gives them (managed, rider, VPN, arr, rules), and each trait has an app
in the run that asks about it; two apps of one kind differ only by order. There
is one `adding` and one task, so a longer queue of work cannot build up.

The counted bounds. `MaxSaves`: with three, one save can fall before a run of
Recyclarr reads, one while it is under way, and one after. `MaxLogins`: with two
there is one that a run still holds and one that replaced it. `wiring`:
`Attempts = 2` is the least that has a retry; two faults let a retry fail too or
a restart follow a lost answer; one request after the first run gives every pair
of a deploy and a later add, reconnect or hook. `WiringAgain.cfg` trades the faults
for a second request and a second edit, so that an edit can come before a run
that moves an app and another after it. `bring_up`: `Grace` must exceed
the two sleeps of a claim attempt and `Limit` must hold two graces, the retry of
a claim, and a tail; two faults let a lost answer be followed by a refusal, one
kill and one repeat let each stage find the leavings of every other; keys are
counted to three so that a second one could appear. Pages: with four
snapshots one can be missed between a connection and the finale; two installs
let a request join a check of the one before.

Constants that are assumptions about the surroundings. `CancelOverlap = FALSE`:
nobody presses anything while a Cancel waits for Docker, nor Cancel while a run
is going. `SecondTab = FALSE`: no wizard page is posted during a run. The code
does not see to that, and `second_tab` lifts it; what `core` and `liveness` say
they say of an owner with one tab. `MissedLooks = FALSE` and `LostPreflights = FALSE`: Docker
answers the look for a name clash, and a server on the port the pre-flight.
`HookBeside = FALSE` (in `WiringAgain.cfg` only): the hook after a sync does not
overlap with a run; `wiring` does without it.
`OneConnect = TRUE`: a server is chosen only while no other choice is under way
or being added. The passing runs make them; the violated configurations drop
one each and show what breaks. `HubAppsAreUp` leaves the arr apps out: a login
run that cannot start an app it made anew only writes a diagnostics line. It
counts the VPN only while an app of the Hub rides it.

Deadlock is checked where the system goes on for ever; `wiring` and `bring_up`
stop when their bounds are used up and say so in their cfg.

Fairness. In `liveness`, weak fairness of each run's steps: asyncio runs a
task that is ready, and every await of a run has a limit - HTTP and compose
time-outs, `NEVER_READY_AFTER_SECONDS` in the readiness loop,
`TUNNEL_NEVER_UP_AFTER_SECONDS` for the tunnel - after which `Break` is taken.
The same for a Cancel that awaits Docker. Nothing is assumed of the owner, of
Docker succeeding or of an app answering. A process that is restarted for ever
finishes nothing, so restarts are assumed to stop. In `services`, weak fairness
of the steps of the sync's task, for the same reason: the wait for the exec ends after
`SYNC_TIMEOUT_SECONDS`, the calls to Docker have time-outs. Nothing is assumed
of Recyclarr; a restart or a task that dies is named in the property instead.
In `wiring` and `bring_up`, weak fairness of the coroutine's steps alone: every
request has a time-out, and what an app answers is open. `bring_up` adds that an
attempt to claim Plex comes to its end, which is what the code's grace rests on.
For the pages, weak fairness of the check's steps, of a stream's keep-alive, end
and reconnection (which the browser does by itself), of a new day and of
somebody looking at the Hub; strong fairness of a page's delivery: connections
may break again and again, but not each time before the first event.

## 4. What is proved

`DeployManager_proofs` proves for every catalog, any number of task slots and
any foreign containers, from the two named assumptions on the constants:

* `TypeCorrect`: `Spec => []TypeOK`. The work is in showing that `First` and
  `Last` pick an app of the set at hand (`FirstIsMember`, from the least-number
  principle, with no assumption that the catalog is more than finite and
  strictly ordered), and that a run parked on `start` always has a managed app
  in front of it.
* `OnlyOneWorks`: without `CancelOverlap`, `Spec => []OneRunAtATime`.
  `OneRunAtATime` is not inductive. Cancel's restore is launched without asking
  whether a run is going, so it has to be known that none is. The invariant
  `OneWorker` adds that (a) a task other than the held one does nothing any
  more, (b) while Cancel waits no run is alive, and (c) `adding` is set only on
  a finale, which with the failed add still in `adding` keeps every guarded
  request and the wizard out. TLC checks `OneWorker` on the instance of `core`.

`DeployManagerHub_proofs` proves every other invariant of `core` and
`liveness`, and the three action properties of `core`, for every catalog and
every foreign container, under `Orderly`: neither `CancelOverlap` nor
`SecondTab`, as in the runs. Four inductive invariants stand on `TypeOK` and
`OneWorker` and on one another:

* `Bookkeeping` relates the snapshot, `install.json` and the one run, without
  a look at Docker. `HubAgreesWithInstall` and `WorkHasAWorker` are not
  inductive: what a run will write at its end was read at its beginning. So a
  run's local variables have to be known to agree with what is shown
  (`AddingIsSound`, `RunIsSound`, `CancelIsSound`): the companions, the movers
  and the install it holds are those of `adding`, although `install.json`
  changes hands with the wizard and Cancel in between. It gives
  `WorkIsWorkedOn` and `HubIsTheInstall`.
* `RulesHold` carries the catalog's rules through the Hub, a failed deploy and
  the wizard; it needs `RulesAssumption`. `AllowedGrows` is its heart: an app
  the Hub may have may join it, its VPN with it. It gives `RulesAreKept`
  (`HubKeepsTheRules`).
* `Housekeeping` follows the containers through a run: what is not left to do
  has answered, what is to move is owed back through `adding`, compose was
  rewritten for the run's own install (`TakeDownIsSound`, `Rewritten`,
  `BringingUp`), and a rider in the VPN's namespace shares it with a VPN that
  was proven (`RidersAreProven`). The order of the catalog enters here: the VPN
  is the first of the run to be brought up, so no compose of a rider starts it
  unproven. It gives `TheHubIsUp`, `DownloaderIsInItsPlace`,
  `TunnelBeforeDownloader`, `CancelSparesIt` and `TheChangeTakesEffect`.
* `OthersContainers` says whose names are free: those of the Hub, of an add
  that has passed its look for clashes, and, past that look, of the whole
  install. With `~MissedLooks` it gives `ForeignIsSpared`
  (`NeverTouchesForeign`). Without it the theorem is false, as `MissedLook.cfg`
  shows.

`WiringEngine_proofs` proves four things of the wiring, for every install, any
number of attempts, faults and edits, and any catalog that has the apps the
wiring knows by name, none of them the VPN, all but the owner's own Plex managed,
and qBittorrent alone riding the VPN (`WiringAssumption`):

* `ReportIsTheSafeOne`: `Spec => Report!Safety`. Every step of the engine is a
  step of `WiringReport` or changes no row (`NextKeepsTheReport`). That needs
  `RowsTellTheRun`: while a run is on, the rows before its task have their
  verdict, its own is the running one and those after it wait, and there are as
  many as the plan is long; when none is on, all have their verdict. The lemma
  `PlanIsASequence` is why `PlanFor` is written without a filter.
* `NoSecondBesideOurs`: `Spec => []SecondOnlyBesideRenamed`, with the hook
  beside the runs or not. That a link has one entry is not so
  (`renamed_client`); what is so is that a second one is made only beside an
  entry the owner has renamed and that points elsewhere. An entry is posted only
  after a look that did not find it, and the proof has to carry what that look
  saw to the write it allows, over the other requests, lost answers and retries
  between them (`LooksAreSound`), beside what the owner may do by hand
  meanwhile. `EntriesAreSound` adds that no download client points at a VPN that
  is not there yet: when it comes, an entry must not turn from unfound to found
  beside another. Of entries the hook may be at together with a run (`Shared`)
  it says nothing, and neither does the property.
* `DoneIsTrue`: `Spec => DoneIsThere`. The invariant is `Learnt`: the run goes
  through the plan for its app (`PlanIsFollowed`), the request it awaits belongs to the kind of its step (`RequestFits`), and, unless
  the owner edited that connection since the step began, what the last look told
  and what was written since is still so (`SightHolds`): the parts seen are
  there, the folders no longer to do are settled, an entry that was given to
  Seerr to test is right. What the hook writes only ever makes Seerr's right. No
  two steps share a part (`PartsAreApart`), so an edit of another connection
  leaves it true. For each request of the run,
  `ReadIsTrue` and `WriteIsTrue` show that it goes on with what it knows, or
  ends the step with a verdict that is true (`ComesToTheTruth`). True is
  `InPlace`: the connection is there, or is an application's entry that the owner
  misdirected. `AppsAreSyncedWhereTheyAre` says that an entry wrong in its address
  is one of those, since Marrquee itself never writes another address.
* `NothingIsMissing`: `Spec => []NothingIsSilentlyMissing`, by the same token.
  Between runs the property says what it says; during one it has to say who will
  answer. `Accounted`: each step the install calls for is in place; or, if the run
  under way sees to it (`InRun`), it is still to come, or has ended in an error
  that will be told, or was edited by the owner; or else it was told, is a gap,
  or was edited (`Excused`). An app's gaps name connections it is concerned in
  (`GapsAreAbout`), so a run that replaces them forgets nobody else's. The hard
  parts: what a new app calls for is about that app (`NewStepsAreAbout`), with
  the VPN moving the downloader as the case `Wires` is for; and a library that
  is made undoes what Seerr had right, since it must now turn it on, which is
  well because Seerr's step comes after in the same plan (`RunKeepsRight`, with
  the order of the plan from `PlanHolds`).

`RecyclarrMonitor_proofs` proves, for any number of saves, `NoRequestIsLost`
(`RequestsAreServed`) and `LatestIsSynced` (`SyncedTheLatest`). The invariant
adds what holds while the task runs: nothing read, asked or written is ahead of
what is saved; a request newer than what the run under way read finds `_again`
set, or a run that has yet to read; from the moment the file is written it is
of the version the run read.

`Login_proofs` proves, for any apps and any number of logins,
`NobodyIsMarkedInVain` (`MarkedIsCarried`) and `NobodyIsLockedOut`
(`OnlyAcceptedAreRestarted`). The first is not inductive: a put changes what
the app asks for before anything is recorded. What makes it safe is
`StaleRunFindsNoneMarked`: once a newer login is saved, no app is recorded for
it while a run still holds the older one, because the newer one can be put on
an app only by a later run. That rests on `apply_login` and the runs never
overlapping (`run = NoRun` in their guards), which is `OneRunAtATime` of
`DeployManager`, and so on its assumption about Cancel.

`BringUps_proofs` proves, for every `Limit` and `Grace` and any number of lost
answers, kills and repeats, every safety property of `bring_up`. A
bring-up is of one kind from beginning to end (`KindStays`), so each invariant
speaks of one kind:

* `SeerrIsNeverOpenBare`: a look that has come to the rules has found, or made,
  a media server (`SeerrInv`); only one that has written the rules opens Seerr.
* `OneKeyForEver`: a key is asked for only after a listing that showed none,
  and until it is made nobody makes one (`JellyfinInv`).
* `ProvenTunnelWasUp`: between the look that found Gluetun healthy and the
  verdict nobody sleeps (`TunnelInv`).
* `ClaimIsCleared` and `ExpiryIsForgiven`, from `PlexInv`. The second is the
  hard one: `plex_not_claimed` is said after the retry when the log says so or
  the grace has gone by. `AtWork` is what holds after a retry whose code was not
  spoilt: nothing in the log, the server claimed or the container at work on the
  code, and "unclaimed" seen for one sleep at most. With `Grace > 2` neither
  condition of the failure can be met.
* `MediaServerIsTheOwners` (`MediaServerIsOurs`), under `~LostPreflights`: a
  server of someone else's on Plex's port ends each bring-up in its pre-flight
  (`PortInv`), so who answers to "identity" is Marrquee's container; what is
  about to be saved in `jellyfin.json` is a key Jellyfin has, and keys are only
  revoked between two bring-ups (`KeyInv`). Without the assumption the property
  is false of the code, which `ForeignPlex.cfg` shows.

`HubPages_proofs` proves `PagesTypeCorrect`, `VerdictIsTrue`
(`LitterNeverMisleads`) and `PagesOnlyAdvance` (`PagesNeverGoBack`) for any
pages, snapshots and restarts. The invariant adds that what is on disk is the
newest snapshot and what waits in a queue is no older than what its page shows,
and that the check makes its file only where none lies.

`PlexConnect_proofs` proves, for any tabs and servers, `NoTokenIsLeftBehind`
(`NoRecordWithoutPlex`) and `TokenBacksTheAnswer` (`AnswerHasToken`), and under
`OneConnect` `RecordStays` (`HubPlexHasItsRecord`). The invariant says what the
run at work implies of what the Hub shows (`RunIsShown`) and, for the last one,
that a choice under way is the only one and finds no Plex (`ChoiceIsAlone`):
then an add that is refused has no record but its own to clear.
`CardGoesForItsPlex` (`LinkGoesForPlex`) needs no such assumption: a choice that
has passed plex.tv, and the record written from it, say that a card is to be
replaced only if that card was their server's (`CardIsForServer`), and a run
gets to the card only when its Plex is on the Hub.

Every safety property of the runs is proved. Only model-checked is what is out
of the prover's reach: liveness (`BusyEnds`, `WorkSettles`,
`EveryRequestGetsItsRun`, `RunEnds`, `BringUpEnds`, `PagesCatchUp`,
`ResultCatchesUp`) and the fairness half of `ReportIsKept`, that a report once
begun gets its verdicts. The properties of the runs that end in a
counterexample are false of the code; where one of them is proved
(`OneRunAtATime`, `HubPlexHasItsRecord`), it is under the assumption that run
drops.

## 5. Plan

Done: the manager with its runs and requests, the wiring engine with its
abstract report and the refinement, the bring-up of every kind of app, the two
monitors, the event stream, the login, the owner's own Plex; proofs about all
of them.

Left:

1. An abstract specification of the Hub ("one thing at a time, each ends in
   done or failed") that `DeployManager` implements.
2. The wizard's guard across the awaits of `post_setup_drive`.

## 6. Not modelled

* Rendering (`hub.py`, `deploy_screen.py`, templates), texts (`words.py`) and
  address handling: functions of the state without any of their own. Which of
  its sentences a failure gets is in the models as its `FailureCode`.
* The settings files of single apps and the seeding ratios: each is written
  whole by one call; that they are written before the container starts, and
  that a new seeding answer starts a wiring pass, is modelled.
* Paths and folders of the storage root, freshness checks of the wizard's
  questions, host and graphics probes: pure checks of their input.
* A Reconnect whose last snapshot cannot be written: it stays on the Hub as an
  add that reconnect, retry and cancel all refuse. Writes of the snapshot
  succeed in the models.
* Kills inside one step: `cancel_add` and `disconnect` write three files one
  after the other without an await.
