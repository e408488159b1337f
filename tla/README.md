# TLA+ models of the Orange Pi 4 Pro Home Assistant appliance

This directory models the parts of the repository that keep a household's data,
containers and connections consistent while commands fail, processes die, requests overlap
and the host restarts. Every action is translated from the Python, JavaScript or shell
source; `PROJECT.json` ("map") names the lines each definition stands for. Paths below are
relative to the repository root.

## 1. Inventory

| Component | State it keeps | Operations | Interaction | What is hard | Correct when | Modules |
|---|---|---|---|---|---|---|
| App manager, replacement transactions (`src/opiha_apps/manager.py`, `engine.py`, `addon_runtime.py`) | per app: `record.json`, `addon.json`, `data/`, `transaction.json`, a rollback copy, one Docker container with a restart policy | install, update, start, stop, restart, remove, configure, repair | one worker thread and the command line, under `operation_lock`; Docker; the app writing its own data | every call may fail or be the last one before a crash; a rollback that itself fails; boots | image and data move together, nothing runs on torn or newer data, every interrupted replacement can be repaired | `AppTransaction` |
| App manager, plans and jobs (`manager.py`, `server.py`, `cli.py`) | pending plans with expiry and baseline, `active`, job files | plan, submit, job, overview | HTTP threads, the worker, a second `Manager` in the command line | state read when planning and used when executing; two processes; failing writes | an approved plan is executed once, on the state it was approved for | `AppPlans` |
| Add-on backups (`addon_backup.py`, `manager.py:612-660`) | archives and sidecars; both directories of one add-on, `options.json`, the record | backup, restore | worker; the add-on writing | no journal: failing calls and crashes between directories | an archive is one moment; a restore is all or nothing after one error; nothing is lost whatever fails | `AddonBackups` |
| App bundles (`opiha_apps/backup.py`) | one signed archive of all apps | create, restore into an empty root | operator, beside the manager and the apps | apps stop and resume one by one; each call may fail | one instant of all apps; a success has resumed what ran, is complete, and signed if asked | `Bundles` |
| Catalog and dynamic entries (`catalog.py`, `addons.py`) | static entries, `DYNAMIC`, a thread-local override; validation of settings | entry, override, register, options | every thread | a thread sees another version than the rest; settings are checked again with defaults merged in | what was accepted once is accepted again | `AppTransaction`, `Options` |
| Add-on repositories (`addon_repos.py`, `addons.py`) | clones, `meta.json` | add, refresh, remove | HTTP threads beside the worker | refresh between the approved hash and the copy that is built | what is built is what was approved (it need not be, finding `unreviewed_build`) | `AddonSources` |
| Supervisor API and relay (`supervisor_api.py`, `supervisor_ws.py`) | tokens, services, relay slots, the listening socket, firewall rules | info, set_options, services, WebSocket relay, run_forever | add-ons, the manager's records, Home Assistant, Docker's bridge | stale record written back; two pump threads per relay; an address that goes away | slots come back, the API is reachable again, an add-on changes only its own options | `AppPlans`, `Options`, `Relays`, `Listener` |
| Host control (`hostctl.py`, `terminal.js`) | terminals with an output ring, one update unit | term_*, update_*, power, docker, display | panel, systemd, a pump thread per terminal, one thread per request | output, exit and a polling cursor; answers that overtake each other; check-then-act limits | no byte is shown twice, the end is seen after the last byte | `Terminals` |
| Appliance state (`src/opiha/backup.py`, `cli.py`) | the state directory, staging and rollback trees, `restore-journal.json`, `activated.json`, `restored.json`, Home Assistant's container | init, up, down, activate, deactivate, backup, restore, import, recover, repair-restore | `exclusive_lock`, Docker Compose, `opiha-stack.service` at boot, first boot | two renames and six file writes in one exchange; boots; a gate that must survive | one whole tree is current, restored state waits for approval | `StateRestore` |
| Appliance features and Compose generation (`config.py`, `compose.py`, `cli.py`) | `appliance.json`, the project's containers | init, configure, up, down, backup, restore | Docker Compose, devices | features start one by one, each may fail; containers of an earlier configuration | after a successful `up` the containers are those configured | `Stack` |
| The two installers (`opiha_apps/install.py`, `opiha/host.py`) | release directories, the selector, units, `deployment.json` | install, adopt | systemd, hand edits | a death before the marker, another release over it | a release is selected only whole; nothing foreign or changed by hand is overwritten | `Installers` |
| Vision presence (`vision.py`, `status.py`) | streak, last seen, `vision.json` | update, run_vision | camera loop, status reader | boundaries of the debounce; a file that outlives the service | reported only after `hit_count` frames running, recently | `Presence` |
| Kiosk strip (`scripts/kiosk-controls.py`, `kiosk_controls.py`) | one timer, a drag, a position | press, move, release, collapse | GLib main loop | a second timer; a window that grows off its handle | at most one collapse pending, the handle stays | `Strip` |
| Home Assistant integration and ingress (`homeassistant/custom_components/opiha_apps`) | ingress sessions, open WebSockets, a counter | session post, proxied requests, WebSockets, close | browser, manager, one event loop | logins revoked and sessions expiring across awaits; shutdown | counts return, a WebSocket does not outlive its session, renewing renews what is used | `Ingress` |
| Paseo fleet (`src/paseo_fleet`) | secrets, the hub's list, daemons, projects | provision, register, workspaces, status, dispatch | ssh, the hub | killed runs, partial failures, re-runs | exit code 0 means done, or taken for done, on every host | `Fleet` |
| Status, inventory and administration servers (`status.py`, `inventory.py`, `server.py`, `admin.py`) | none | reports | | I/O | | not modelled |
| Camera driver (`hardware/camera/ov5647`) | sensor registers | kernel callbacks | a kernel that is not here | | | not modelled |
| Boot scripts, image build (`scripts/`) | | | systemd | first boot beside the boot unit | | `StateRestore`, partly |

`PROJECT.json` "hazards" lists, at its line, what can go wrong in these parts and would
hardly be reached by a test, with the properties about it.

## 2. Modules

| Module | Role |
|---|---|
| `AppTransaction` | one app: preflight, start/stop/remove, the journaled replacement, `Manager.repair`, faults |
| `AtomicReplace` | what a replacement promises: version and data change in one step or not at all |
| `MCAppTransaction` | values of the constants for TLC |
| `StateRestore` | the appliance's state directory: `commit_state`, its rollback, `repair_restore`, the commands around it and the production gate |
| `Household` | what a restore promises: one current tree, replaced in one step, none lost |
| `AppPlans` | plans, approval and jobs of one app: two managers, the operation lock, `repair`, `set_options` |
| `ApprovedChanges` | what approval promises: a plan takes effect at most once, on the state it was made for |
| `AddonBackups`, `AddonSources`, `Bundles`, `Options` | an add-on's backups, its repository and build, bundles of all apps, an add-on's settings |
| `Terminals`, `Strip`, `Presence` | host terminals with the tab that polls them, the touch strip, who is in front of the camera |
| `Installers`, `Fleet`, `Stack` | the two installers, the fleet's commands, the appliance's features |
| `MCUpkeep` | these ten for TLC, each from its own initial states |
| `Ingress`, `Relays`, `Listener` | sessions and WebSockets to apps, relays from add-ons, the listener of the Supervisor API |
| `MCConnections` | these three for TLC |
| `AppTransactionProofs`, `StateRestoreProofs`, `AppPlansProofs`, `AddonBackupsProofs` | inductive invariants, safety theorems and refinements of these modules |
| `PanelProofs` | the same about `Terminals`, `Strip` and `Presence` |
| `BoardProofs` | the same about `Bundles`, `Installers`, `Fleet` and `Stack` |
| `UpkeepProofs` | the same about `AddonSources` and `Options`, and that the ten parts of `MCUpkeep` keep all this beside each other |
| `ConnectionsProofs` | the same about `Ingress`, `Relays`, `Listener` and `MCConnections` |

Operators commented "Mutation:" are faulty variants of the definition that follows them.
They are part of no specification; they document a bug that the properties would find.

`MCUpkeep` and `MCConnections` hold components that share no state in the code. A constant
`part` chooses one component of the instance in the initial state; the others keep their
initial state. The states explored are the sum of the components' states, not their
product, and nothing is lost, as no step of one reads or writes what another has. What does
interact is in one module: daemon, command line, `set_options` and repair in `AppPlans`, tab
and server in `Terminals`, refresh and build in `AddonSources`, integration and browser in
`Ingress`, manager and bundle in `Bundles`.

### AppTransaction and the code

* `record`, `manifest`, `data`, `journal`, `snapshot` are the files of `apps/<slug>` and
  the rollback directory the journal names; `container` is what Docker knows. `pc` names the
  next call of `_execute` or `repair`, and every call is one step, so that a failure or crash
  can come between any two. `CopyBegins`/`CopyEnds` and `RefillBegins`/`RefillEnds` split
  `copy_tree`, which is not atomic; `write_json` is (`common.atomic` renames a synced file).
* A version stands for one approved set of options: image, manifest and `options.json`
  content. `data.fmt` is the newest version that wrote the data, `data.gen` counts writes so
  that an older copy can be told from the live data, `data.options` is `options.json`.
* `kind`, add-on or catalog app, is chosen initially and never changes: the two differ in what
  is frozen in `addon.json`, in grants and in what `repair` knows.
* `mode` is "job" or "cli". It matters in `SeenManifest`: inside the job `catalog.override`
  is in force, in `opiha-apps repair` it is not.
* `CallFails` is an exception of the call about to be made. An exception after the effect is
  the failure of the next call. Inside the try blocks it leads to `repair`, elsewhere the job
  ends. `Crash` kills the process, `Reboot` also lets Docker apply restart policies.

### StateRestore and the code

* A tree is a number; 1 is what `init` creates, each restore or import builds the next. `live`
  is the tree at `data_dir`, `staging` the one beside it, `previous` the one the journal
  names, `rollbacks` the retained ones, `failed` those `repair-restore` moved away.
* `exclusive_lock` admits one mutating command, hence one `pc`; `task` tells which command.
  Failures inside the `try` of `commit_state` lead to `Undo`/`NothingToUndo`, others to the
  caller's `finally`.
* `armed`, `marked` are `activated.json` and `restored.json`; `ha` is the Home Assistant
  container, `Up(TRUE)` is `start-stack.sh` at boot. `approved` and `stoodDown` are history.
* Offline commands and `repair-restore` take the operator's word that every writer is stopped
  (`--source-stopped`), modelled as a guard; `recover` is asked nothing, and that Home
  Assistant is then stopped is part of the invariant, not a guard.

### AppPlans and the code

* A manager is a process with a `Manager`: the daemon, or a command line that plans, applies
  and ends (`MayPlan`). Each has `plans`, `active`, one worker (`queue`, `pc`, `task`) and the
  status of its jobs; `app`, `journal` and `lock` are shared. `Start` and `End` are the life of
  a process; `End` may come at any step, loses what was in memory and drops the lock.
* Containers and revisions are named after the plan whose job wrote them: Docker's ids and
  `stamp()` are new each time. Time is not modelled: whenever the code compares a plan's age,
  the plan may be found expired (`kept` in `MakePlan`, `SubmitExpired`).
* What `_execute` does is one step, `Apply` or `ApplyFails`, from what it read when it began
  (`old`). `AppTransaction` takes a replacement apart and proves it atomic; `Partial` lists what
  is left when a call of another action fails. `Repair` is one step for the same reason: no plan
  is made or applied while a journal exists, so nobody can tell its intermediate states apart.
* The end of `_job` is three steps, since others can come between: leaving the lock, clearing
  `active`, publishing the status.
* `draft` is a `set_options` request that has read the record and not yet taken the guard;
  `tuned` is a history variable, the plans it has written behind.

### The add-on parts and the code

* `AddonBackups`: `pc` is the next call of `_backup_or_restore`. `tree` is what the add-on
  keeps; a running add-on writes `data/` and then `addon_config/`, so that a copy taken in
  between is of no moment. `Handler` says where an exception in each call goes (the except
  clause of the restore, the finally clause, or out of the job), `Doomed` which calls cannot
  succeed. `copied` is the rollback copy; `before` and `kept` are history, what a job last found
  whole and whether a complete copy of it was made, which is what `LastMomentSurvives` speaks of.
* `AddonSources`: each request on the repository is a thread without a lock; `plan_addon`
  reads the raw manifest (`ReadsRaw`) before it hashes the tree (`Hashes`), and the job
  compares the hash and copies file by file, which `git reset` may do beneath it. `built` is
  the last image with the review it was built for.
* `Bundles`: `create` goes through the apps in any order, once each to stop, copy and resume;
  errors on the way lead to the resume loop, failing resumes are collected. `auto` is the
  container's restart policy, `autostart` the option on the record that a resume gives back.
  `asked` is the call: whether a signing key was given and, as history, what ran. `AppJob` is a
  manager's job (start, stop, an update of the options), which the journals and the lock keep out
  where the code does.
* `Options`: `Settings` is what `addon_runtime.options` and `addons.validate` make of supplied
  values, defaults and a manifest; `AcceptsSettings` is whether they do so without raising.
  Requests are one step.

### The host parts and the code

* `Terminals`: a terminal is a process, its ring (`start`, `end` are positions) and its entry
  in the table; `thr[h]` a request from its arrival to its answer; `tab` the page. A request
  looks its terminal up and later reads it, so that the table may change between. The process
  prints and exits at any time.
* `Strip`: `timer` is whether `self.timer` is a live GLib source, `orphans` the sources nobody
  could cancel any more. `Window` and `Handle` are `place` on the horizontal axis.
* `Presence`: a tick is the interval between frames. `seen` is history.
* `Installers`: one module for both installers, told apart by `kind`; `place` says whose each
  file is and with which bytes (`Foreign`, `Edited` or the release that first had them), every
  file is one step. Files are compared as the code does, by their bytes: `BytesOf` gives releases
  the same unit (`SERVICE` is one text) and, where `Panel` says so, the same panel, as many releases
  of this repository have. Nobody edits a file while an installer is running.
* `Fleet`: one command at a time, killed or failing anywhere; a password is told only by how
  it compares with the secret file, since that is all the properties need. `Contained` says which
  ids occur in the text of which entries of the hub's list, those of `Strangers` included
  (`cli.py:310` looks in the whole text); `project[h].like` is a project that `cli.py:244` takes
  for the workspace root because its path ends in the same way.
* `Stack`: `command` is the command that has the lock and what it has still to start;
  `told` is what the last one that ended well has promised.

### The connections and the code

* `Ingress`: one event loop, so a step lies between two awaits. Handlers keep the session
  object they found, and each re-checks it where the code does. `core` runs `close` at Home
  Assistant's stop.
* `Relays`: `relay[r].end` is how each peer behaves, `pump` what each of the two threads of a
  relay does, `shut` that a pump has shut both sockets.
* `Listener`: one pass of `run_forever`'s loop, a step for each look at bridge, socket and
  firewall, with `MaxDisturbances` changes of these from outside at any time.

## 3. Runs

| Run | Shows |
|---|---|
| `transaction` | an add-on or a catalog app of three versions, the second asking for a wider grant than the first: type, rollback copy, old image/new data, agreement, service resumption, refinement of `AtomicReplace`; with fairness, that jobs end and interrupted replacements of catalog apps are repaired |
| `restore` | up to three restores or imports over tree 1: type, approval, settledness, repairability, exchange only when stopped, refinement of `Household`, convergence |
| `plans` | the daemon and a command line with two plans to install or update, beside `set_options`, an operator and an app that stops by itself: type, freedom after an end, refinement of `ApprovedChanges` |
| `connections` | ingress, relays and the listener: types and counts, a session in use is the one that is renewed, WebSockets end with their session or with Home Assistant, slots come back, the Supervisor API is reachable again |
| `upkeep` | the ten parts of `MCUpkeep`: types; what a terminal shows and that its end is seen; timer and handle of the strip; presence; archives, lost and undone restores; bundles of one instant that are complete, with the apps resumed; whole releases and files that are not overwritten; the fleet's exit codes; stable settings; the features that are up |
| `stuck_journal` | finding: the first install of an add-on can leave a journal that `repair` refuses |
| `rollback` | finding: a rolled-back add-on keeps the new options |
| `restore_onboarding` | finding: the boot unit starts a deactivated appliance |
| `stuck_active` | finding: a job file that cannot be written leaves a manager busy without a job |
| `options_lost` | finding: a job overwrites options that an add-on set after the plan was made |
| `cleared_option` | finding: an optional setting with a default that is cleared makes every lifecycle action be refused |
| `unreviewed_build` | finding: a refresh of the repository between the comparison of the approved hash and the copy changes what is built |

The last seven check a sentence of the documentation, a comment or a message that the code does
not keep; the traces of the first six of them were also replayed against the Python code with Docker
replaced by a recording stub. `RollbackRestoresAll` has three conjuncts: the trace breaks the one
about options; the one about `container.spec` also fails by itself (a rollback inside the job builds
the old container from the new manifest), the one about `manifest` holds. `BuildsWhatWasReviewed`
has two: the trace breaks the one about the hash; the one about the manifest that is shown also
fails by itself, by a refresh between `manager.py:294` and 301.

### Bounds

* `transaction`: two versions are enough for everything the code compares (old and new, downgrade,
  wider grant), and three give an update over an update; the second has no autostart, the others
  have. `MaxWrites = 3` allows a write before the rollback copy, one by the replacement and one by
  the restored app. Both kinds of app are explored beside each other, about 175,000 states.
* `restore`: `MaxTrees = 4` gives three exchanges in a row: one committed, one interrupted and
  repaired, one more over the result.
* `plans`: two plans of two managers are enough for a plan to meet the effect, the failure and
  the repair of another one, and `Limit = 1` for the limit of 32 to be reached; one option set
  suffices, since the promise says nothing of options. The run has the two actions with the
  most outcomes; `options_lost` adds configure, the proofs cover all nine.
* `connections`: one login, two sessions, two posts and two WebSockets for one place
  (`SocketLimit = 1`), so that two posts race for a session, one WebSocket is refused, and a
  session expires while another lives. `SessionLimit = 2` is never the reason for a refusal
  with one login, since a login has one session that counts. Two relays compete for one slot. Three
  disturbances are enough for a bridge to go and come and the firewall to be reloaded between.
* `upkeep`: two requests of a tab at once, a ring of one position and two positions of output
  (output is dropped, and answers overlap); screens that are too small for the open strip, as wide
  as it needs and larger, with places beyond the edge; `Hold`, `Hits` and `MaxAge` of 2 in 6
  ticks, so that each expires before and after the others; one backup of an add-on with two
  moments, where one call fails or one crash comes (two were explored as well, and the proof has
  any number); one request on a repository with two commits beside a plan and a job; two apps in a
  bundle, with and without autostart; three releases, of which the second has the panel of the
  first; two hosts, one of them in Docker, and an entry of the hub's that is not in the inventory,
  where the id of the first host occurs in the other two entries; two manifests, of which the
  second drops an option, changes one's kind and asks for more; two features, one with hardware.

Deadlock is checked in the runs of the first three modules. `MCUpkeep` and `MCConnections`
really stop: a board whose ticks, writes, releases or commits are used up does nothing more, a
settled add-on that nobody manages neither. Their configurations say so.

### Fairness

* `WF_vars(Worker)` (`AppTransaction`): the thread or process holding the lock keeps making its
  calls, each of which returns or raises because every Docker call has a timeout (`engine.py`).
  `WF_vars(BeginRepair)`: the panel shows recovery_required and the administrator runs the
  documented repair command; it stays enabled as long as the journal is there. Nothing is
  assumed about requests, failures, crashes or boots; `RepairConverges` speaks of behaviours in
  which faults stop eventually (`<>[][~Fault]_vars`; this also excludes steps of the app that
  look exactly like a fault). For add-ons it would be false, which is finding `stuck_journal`.
* `StateRestore`: the same for the command and for `repair-restore`.
* `Terminals`: the pump thread that has read the end goes on, each request's thread goes on,
  the tab's loop polls (`setTimeout` in `terminal.js`). Nobody has to type, leave or open.
* `Ingress`: the watch task of each WebSocket wakes up (`asyncio.sleep`), a WebSocket that
  connects or closes gets an answer or a timeout, `close` goes on. Sessions need not expire.
* `Relays`: threads go on. An end that takes nothing takes something again or goes: this is an
  assumption about peers, as the code sets no limit there (see Observations). Strong fairness of
  a pump's call, since the other end may stall again and again while it waits.
* `Listener`: the loop goes on; `ListenerServes` speaks of a bridge that stays.

`plans` and the parts not named here have no fairness: what they promise is safety.

## 4. Proofs

`tlapm` checks every obligation of the eight `*Proofs` modules. Each theorem follows from an
inductive invariant that `*Step` (`InvariantStep`) checks action by action. The only
assumptions are the modules' named `ASSUME`s about constants, which TLC evaluates in the runs.

**AppTransactionProofs.** That the rollback copy is usable in phase "copied" needs to
know that it was whole when the phase was written, that the data had not been written since
the app was stopped, and that no call of a later rollback changes the copy. `IInv` says which
journal phase each call works under (`PhaseAt`), what each phase says about files and container
(`Settled`, `FirstInstall`, `Stopping`, `Copied`), that a container always has readable data
(`Readable`) and what the last calls have brought back (`Committing`). It holds for every number
of versions, any set of autostart options and grants, catalog apps and add-ons. From it follow
`TypeCorrect`, `RollbackCopySafe`, `ImageReadsData`, `Settles`, `Resumes`, and
`RefinesAtomicReplace`: the mapping reads record and data through the journal, so that the
unlink of the journal is the atomic step.

**StateRestoreProofs.** `IInv` says where the trees are at each call (`Placed`), that staging,
current and retained trees differ (`Distinct`, which makes the committed tree a new one), when
Home Assistant may run and on what (`Stopped`) and what the two gate files say about the
current tree (`Gated`). From it follow `TypeCorrect`, `ImportsWaitForApproval`, `Settles`,
`JournalsRecover`, `SwapsWhileStopped` and `RefinesHousehold`, for every `MaxTrees`.

**AppPlansProofs.** `IInv` says that no plan is known to two managers or kept once submitted
(`Owned`), how `active`, queue, worker and the newest job agree (`Busy`), that the lock is held
exactly from the comparison to the release (`Locked`), and that between comparison and effect
the app is the one the plan saw, or `set_options` has written since (`Approved`). `Approved` is
the point: the comparison is an earlier step than the effect, and holds over only because every
other writer needs the lock or leaves container and revision alone. From it follow
`TypeCorrect`, `EndsAreFree` and `RefinesApprovedChanges`, for any set of managers, actions
and options and any number of plans. The promise exempts plans that `set_options` wrote behind:
without a changed revision the code cannot tell, which is finding `options_lost`; and a
`set_options` that began before a job and writes after it puts back the old revision, so that a
still older plan would pass.

**AddonBackupsProofs.** `BakInv` says where the job is and what it was asked (`Placed`), where
the tree that was found is: in place until the first directory goes, in the rollback copy from
then on (`Held`); what archives hold (`Archived`); that whatever the running add-on could not
mend by its next write is kept (`Kept`); and which directories are already the archive's, going
forward, or the copy's, going back (`Moved`), where being on the way back, or before a
directory that is in the way, has cost a fault. From it follow `BackupsAreOneMoment`,
`LastMomentIsKept` and `OneErrorGoesBack`, for any backups, moments, failing calls and crashes.

**PanelProofs.** `TermInv` says that what is on the screen is in order and behind the tab's
cursor (`OnScreen`), and that an answer which tells of the end was read from a terminal that had
ended, up to the last position there will ever be (`TellsTheEnd`). The cursor of the tab, not
the order of the requests, is what makes the answers safe: an answer below it is cut or dropped.
From it follows `TheScreenIsInOrder`, for any number of threads, any ring and any output.
`StripHasOneTimer` needs that a drag has removed the timer; `HandleNeverMoves` is arithmetic over
screens and widths of any size. `PresenceInv` says that a streak of n means that the last m
frames, for every m up to n, showed a person (`Trailing`; the theorem needs `Hits` of them), and
where `lastSeen` comes from; `PresenceIsSeen` follows for any hold time, number of hits and age.

**BoardProofs.** `BunInv` says for each step of `create` which apps it has stopped and which of
them have no restart policy; that every app that ran when it began is still running and to come,
or among those noted, and of these, once resumed, is unresumed or up with the policy of its record
(`Up`); that the staged copy, when it is complete, covers every app with data (`Covers`); all in
`MakingBundle`; and what `restore` has in hand (`Recovering`). From it follow
`RecoveryIsOfOneInstant` and `SuccessIsResumed`, for any set of apps; the latter is about the step
in which `create` returns. An app that was copied cannot write again before the copy ends, as its
job would need the lock and Docker would need the policy. `InsInv` says which files a run has
written at each step (`InPlace`), that those it has still to write are not somebody else's and,
for the manager's installer, not edited, and that with a marker the managed files are there and
ours, if perhaps edited (`Owned`). `LocalChangesAreKept` and `SelectsOnlyWhole` follow, for any
number of releases and any sharing of panels between them. `FleetInv` says that a command that has
not failed has done what it is for, or takes it for done, on every host it has been to
(`DoneFor`), that a secret being written is of a host still to come, and that what `register`
knows of, the hub has; `CommandsDoWhatTheySay` follows for any set of hosts, with or without
Docker, any strangers in the hub's list and any ids that occur in others. The tests by which the
code takes something for done are exceptions stated in the property. `UpLeavesTheConfigured` needs
what a running command has still to start.

**UpkeepProofs.** The types of `AddonSources` are inductive (`SrcStep`); its one promise is the
violation `unreviewed_build`. `OptInv` says that the options in the record have been checked
against the manifest installed (`WellSet`, `Checked`): each has a value that fits its rule, and
what is missing may be left out. The lemmas behind it are about `Merged`, `Validated` and
`Settings` for any manifest: that a dictionary laid over its defaults has the values it has and
the defaults of the others (`MergedFull`, `OverDefaults`), that accepted settings are recorded as
checked (`AcceptedIsRecorded`), and that checked settings are accepted again (`CheckedAgain`).
`RecordedOptionsStay` follows for any set of manifests and ports.

**ConnectionsProofs.** `IngInv` says that sessions of handlers were made (`Made`, `Found`) and
that a login has one session that counts (`Alone`), which is what overlapping posts could break;
each looks again after its await. From it follow `SocketsAreCounted` (the counter is the number of
WebSockets under way, with the limit) and `SessionsAreRenewed`, for any sets of logins, keys,
handlers and limits. `RelInv` says that a relay that has not acquired has no slot (`Earns`) and
that the slots missing are the relays that hold one; `SlotsAreCounted` follows by counting sets
that gain or lose one element.

**The instances.** `OnePartMoves` shows, action by action, that a step of `MCUpkeep` or
`MCConnections` is a step of one part and leaves the variables of the others alone; `EachPart`
that a behaviour of the instance is one of every part. So `UpkeepIsSafe`, `UpkeepIsTyped` and
`ConnectionsAreSafe` state, for every value of the constants, what the runs `upkeep` and
`connections` check of safety, all parts beside each other. The fairness is not used.

Every invariant and safety action property that a passing run checks is stated by a theorem,
and so are the three refinements. Only model-checked: the liveness properties (`JobsEnd`,
`RepairConverges`, `EndIsSeen`, `SocketsEnd`, `RelayFrees`, `ListenerServes`), which need fairness
and so `ENABLED`, outside the prover; and the violations, which a counterexample shows.

## 5. Observations

Behaviour met while modelling that contradicts no text that could be checked as a property, or
lies outside what a run explores:

* A rollback in phase "stopping" restores the record's restart policy (`manager.py:708`) although
  the container of an app that was never started had none, while the comment at 562 says "An
  installed but unreviewed app must not start on a later host boot."
* `repair_restore` unlinks the journal before `activated.json` (`backup.py:245`). A crash between
  the two leaves production armed, where `docs/RECOVERY.md:92` "leaves production disarmed".
  Nothing that was not approved runs.
* Two `update_start` may both find no update running, and the second stops the first's unit
  (`hostctl.py:545`). Concurrent `term_open`s may exceed the limit of three (651), and terminals
  are reaped only by terminal calls.
* A terminal's descriptor may be closed and reused between a write's look-up and its `os.write`;
  output printed between the pump's last empty `select` and its `proc.poll` is lost. In the tab,
  two overlapping `start`s leave a session that nobody closes, a `start` that goes on after
  `stop` opens one that nobody polls, and the error "has ended" of an old session stops the poll of
  the new one.
* A bundle with add-ons cannot be restored: `restore` looks entries up without a manager that has
  loaded them and answers "Unknown application", while `docs/native-apps/ADDONS.md:24` includes
  add-ons in backups.
* `disable` followed by `down` leaves the container of the disabled feature (`docs/CLI.md:11`,
  `backup.py:276`), and the `up -d` by which a backup resumes what it found active is then refused.
* A restore of an add-on whose last `progress` fails puts the old data back under the record that
  was already replaced (`manager.py:647`); `OneErrorIsUndone` is about data and options there.
* A first install of the manager that dies before its marker is refused ever after
  (`install.py`), until its files are removed by hand.
* A removal of a repository that dies half-way leaves a clone without `meta.json`, which `list`
  does not show and `add` refuses to replace.
* An upgrade of the manager killed between the selector (`install.py:186`) and the marker (187),
  to a release with the same panel, is not noticed by the next `preview`: it compares hashes with
  those of the old marker, and they match, although another release is selected. The next
  installation completes it. With another panel it is refused until the files are reconciled.
* The appliance's installer knows its own units by name and not by hash (`host.py:104`), so that it
  writes over a unit of its own that was edited; `LocalChangesStay` is stated accordingly.
* `plan_addon` validates the old record inside the override of the new manifest
  (`manager.py:302-303`), so that an update that drops a stored option is refused.
* Ingress forwards the body of a request whose login is revoked during the upload. The relay
  waits without limit for Home Assistant and for an add-on that takes nothing; its
  `close_politely` ends only when the add-on is silent for two seconds.
* The listener's probe tells a dead socket from a live one, but not ours from that of "another
  process" that "took the address", which the comment there has in mind. An add-on that another
  process has updated keeps the entry it had in this one's catalog (`supervisor_api.py:79`).
* Fleet: a provisioning killed while it writes a secret leaves an empty file, and the host then
  gets the placeholder as its password; `register` skips hosts whose id occurs anywhere in the
  text of the hub's list (`cli.py:310`: labels, connections, hosts of others), and `workspaces`
  counts a root as there when any project's path ends in the same way (244); registering before
  the secret exists saves no password; two provisionings at once race.

## 6. Not modelled

* Several apps: budgets, port conflicts and hardware claims between apps only refuse a plan.
* In `AppTransaction`, an app that exits by itself (`AppPlans` has it); `_wait_running` appears as a start that may fail.
* Loss of file contents that were written and not synced (`copytree` does not sync).
* Administrators who change containers or files behind the manager's back (except where an
  installer looks for it), and a Docker daemon that answers wrongly.
* In `StateRestore`: the lab mode, the kiosk and vision units, Home Assistant versions of the
  trees, the bundle format with its encryption and signatures, staging directories that a crash
  leaves behind unreferenced. Optional services are in `Stack`.
* In `AppPlans`: the job files and the mark "interrupted" a new manager puts on them, the HTTP
  layer, options other than one opaque value.
* Host control besides terminals: updates, power, display and Docker requests are single calls
  to systemd and Docker, read back from there. Service discovery of add-ons is a list of
  records.
* Terminals of other tabs, which only count towards the limit; the vertical axis of the strip;
  more than one app behind ingress; two fleet commands at once.
* Formats: archives, signatures, manifests, Compose documents and rendered artifacts are whole or
  not; what they contain beyond the values named in the modules is data.
* Status, inventory and administration servers only read. The camera driver programs a sensor
  under a kernel that is not in the repository. Image building is provisioning.

## 7. What could come next

1. Job files in `AppPlans`, with the mark a command line puts on a live job.
2. Several apps in `AppPlans`: budgets and ports that are checked by a plan and used by its job.
3. Versions of state trees in `StateRestore` (`check_version`, `--allow-version-change`).
4. The update unit of `hostctl.py` beside an update from the command line.
