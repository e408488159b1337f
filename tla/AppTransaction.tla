--------------------------- MODULE AppTransaction ---------------------------
(***************************************************************************)
(* One managed app of the native-app manager (src/opiha_apps/manager.py):  *)
(* the journaled install/update of Manager._execute, the rollback of       *)
(* Manager.repair run by the failing job or by "opiha-apps repair", and    *)
(* start, stop, restart and remove.  Each call that changes the disk or    *)
(* Docker is one step, and the process may fail, die, or lose the host     *)
(* between any two of them.                                                *)
(*                                                                         *)
(* A version stands for one approved set of options: the image, the        *)
(* manifest and the options.json content that come with it.  Zero means    *)
(* absent.  The operation lock admits one worker at a time, so the job     *)
(* thread and the command line share one program counter.                  *)
(***************************************************************************)
EXTENDS Integers

CONSTANTS
    MaxVersion,  \* versions are 1..MaxVersion, ordered as preflight orders them
    Autostart,   \* the versions whose options ask for autostart
    Kinds,       \* of the app: a repository "addon", a reviewed "catalog" app
    Widens,      \* pairs <<v, w>>: manifest w needs a grant approved for v lacks
    MaxWrites    \* bound: how often the app's own writes are counted

Versions == 1..MaxVersion

ASSUME ConstantsAssumption ==
    /\ MaxVersion \in Nat \ {0}
    /\ Autostart \subseteq Versions
    /\ Kinds \subseteq {"addon", "catalog"}
    /\ Widens \subseteq Versions \X Versions
    /\ MaxWrites \in Nat

VARIABLES
    kind,       \* what the app is, for good
    record,     \* apps/<slug>/record.json
    manifest,   \* apps/<slug>/addon.json: the version frozen in it
    data,       \* apps/<slug>/data, options.json included
    journal,    \* apps/<slug>/transaction.json
    snapshot,   \* the rollback copy the journal names
    container,  \* the owned Docker container
    pc,         \* the next call of the worker, "idle" when the lock is free
    mode,       \* who holds the lock: a "job" or the "cli" repair
    target,     \* plan["options"] of the running job
    status      \* the job as its file shows it

disk == <<record, manifest, data, journal, snapshot>>
worker == <<mode, target, status>>
vars == <<kind, disk, container, pc, worker>>

-----------------------------------------------------------------------------
(* Values *)

NoRecord == [ver |-> 0, installed |-> FALSE]
NoJournal == [phase |-> "none", old |-> NoRecord, new |-> 0, manifest |-> 0, running |-> FALSE]
NoContainer == [status |-> "none", image |-> 0, spec |-> 0, auto |-> FALSE]
NoData == [state |-> "none", fmt |-> 0, gen |-> 0, options |-> 0]
Torn == [NoData EXCEPT !.state = "torn"]

Addon == kind = "addon"
Present == container.status # "none"
Running == container.status = "running"
Journaled == journal.phase # "none"

(* Data directories: the newest version that wrote them, and how often *)
Contents == [state : {"none", "torn", "whole"}, fmt : 0..MaxVersion,
             gen : 0..MaxWrites, options : 0..MaxVersion]
Records == [ver : 0..MaxVersion, installed : BOOLEAN]
Journals == [phase : {"none", "first-install", "stopping", "copied"}, old : Records,
             new : 0..MaxVersion, manifest : 0..MaxVersion, running : BOOLEAN]
Containers == [status : {"none", "created", "running", "stopped", "exited"},
               image : 0..MaxVersion, spec : 0..MaxVersion, auto : BOOLEAN]

Init ==
    /\ kind \in Kinds
    /\ record = NoRecord
    /\ manifest = 0
    /\ data = NoData
    /\ journal = NoJournal
    /\ snapshot = NoData
    /\ container = NoContainer
    /\ pc = "idle"
    /\ mode = "job"
    /\ target = 1
    /\ status = "none"

-----------------------------------------------------------------------------
(* Jobs: preflight under the operation lock, then the first call *)

Begin(first) ==
    /\ pc = "idle"
    /\ ~Journaled
    /\ pc' = first
    /\ mode' = "job"
    /\ status' = "running"
    /\ UNCHANGED <<disk, container>>

(* Mutation: preflight without the downgrade check *)
BeginAnyVersion(v) ==
    /\ Present => record.ver # 0
    /\ Begin(IF Present THEN "journal" ELSE "seed")
    /\ target' = v

(* preflight refuses a downgrade of a record that was kept *)
BeginReplace(v) ==
    /\ v >= record.ver
    /\ Present => record.ver # 0
    /\ Begin(IF Present THEN "journal" ELSE "seed")
    /\ target' = v

(* stop, or remove with its leading stop of a running container *)
BeginStop(goal) ==
    /\ Present
    /\ record.ver # 0
    /\ Begin(IF goal = "stop" \/ Running THEN goal ELSE "remove-only")
    /\ UNCHANGED target

(* start and restart: both set the restart policy and leave the app running; *)
(* preflight checks the grants the frozen manifest asks for                    *)
BeginStart ==
    /\ Present
    /\ record.ver # 0
    /\ ~(Addon /\ <<record.ver, manifest>> \in Widens)
    /\ Begin("set-policy")
    /\ UNCHANGED target

Finish(outcome) ==
    /\ pc' = "idle"
    /\ status' = IF mode = "job" THEN outcome ELSE status
    /\ UNCHANGED <<mode, target>>

Goto(next) == pc' = next /\ UNCHANGED worker

(* One call of the worker: to Docker, or to the files under apps/<slug> *)
DockerCall(at, next) == pc = at /\ Goto(next) /\ UNCHANGED disk
FileCall(at, next) == pc = at /\ Goto(next) /\ UNCHANGED container

SetPolicy ==
    /\ DockerCall("set-policy", "start-only")
    /\ container' = [container EXCEPT !.auto = record.ver \in Autostart]

StartOnly ==
    /\ pc = "start-only"
    /\ container' = [container EXCEPT !.status = "running"]
    /\ Finish("succeeded")
    /\ UNCHANGED disk

Stopped == [container EXCEPT !.status = IF Running THEN "stopped" ELSE @]

StopOnly ==
    /\ pc = "stop"
    /\ container' = Stopped
    /\ Finish("succeeded")
    /\ UNCHANGED disk

StopToRemove ==
    /\ DockerCall("remove", "remove-only")
    /\ container' = Stopped

RemoveOnly ==
    /\ pc = "remove-only"
    /\ container' = NoContainer
    /\ Goto("remove-record")
    /\ UNCHANGED disk

RemoveRecord ==
    /\ pc = "remove-record"
    /\ record' = [record EXCEPT !.installed = FALSE]
    /\ Finish("succeeded")
    /\ UNCHANGED <<manifest, data, journal, snapshot, container>>

-----------------------------------------------------------------------------
(* Install and update: the journaled replacement *)

(* _seed: fresh data only where there is none; an add-on's options.json always *)
Seed ==
    /\ FileCall("seed", "journal")
    /\ data' = [data EXCEPT !.state = IF @ = "none" THEN "whole" ELSE @,
                            !.options = IF Addon THEN target ELSE @]
    /\ UNCHANGED <<record, manifest, journal, snapshot>>

(* The first transaction.json: "first-install" without a container, else "stopping" *)
WriteJournal ==
    /\ FileCall("journal", IF Addon THEN "manifest" ELSE IF Present THEN "policy" ELSE "create")
    /\ journal' = [phase |-> IF Present THEN "stopping" ELSE "first-install",
                   old |-> record, new |-> target,
                   manifest |-> IF Addon /\ Present THEN manifest ELSE 0,
                   running |-> Running]
    /\ snapshot' = NoData
    /\ UNCHANGED <<record, manifest, data>>

SaveManifest ==
    /\ FileCall("manifest", IF journal.phase = "stopping" THEN "policy" ELSE "create")
    /\ manifest' = target
    /\ UNCHANGED <<record, data, journal, snapshot>>

DisablePolicy ==
    /\ DockerCall("policy", IF journal.running THEN "quiesce" ELSE "copy")
    /\ container' = [container EXCEPT !.auto = FALSE]

Quiesce ==
    /\ DockerCall("quiesce", "copy")
    /\ container' = Stopped

(* Mutation: the journal claims the copy before it is made *)
MarkBeforeCopy ==
    /\ FileCall("copy", "copying")
    /\ snapshot' = Torn
    /\ journal' = [journal EXCEPT !.phase = "copied"]
    /\ UNCHANGED <<record, manifest, data>>

(* copytree is not atomic: the copy is torn until it returns *)
CopyBegins ==
    /\ FileCall("copy", "copying")
    /\ snapshot' = Torn
    /\ UNCHANGED <<record, manifest, data, journal>>

CopyEnds ==
    /\ FileCall("copying", IF Addon THEN "options" ELSE "mark-copied")
    /\ snapshot' = data
    /\ UNCHANGED <<record, manifest, data, journal>>

WriteOptions ==
    /\ FileCall("options", "mark-copied")
    /\ data' = [data EXCEPT !.options = target]
    /\ UNCHANGED <<record, manifest, journal, snapshot>>

MarkCopied ==
    /\ FileCall("mark-copied", "remove-old")
    /\ journal' = [journal EXCEPT !.phase = "copied"]
    /\ UNCHANGED <<record, manifest, data, snapshot>>

RemoveOld ==
    /\ DockerCall("remove-old", "create")
    /\ container' = NoContainer

(* A first install never gets the restart policy; a replacement inherits it *)
Create ==
    /\ pc = "create"
    /\ container' = [status |-> "created", image |-> target, spec |-> target,
                     auto |-> journal.running /\ target \in Autostart]
    /\ Goto("record")
    /\ UNCHANGED disk

(* Mutation: the record is written one version ahead *)
RecordNextVersion ==
    /\ FileCall("record", IF journal.running THEN "start-new" ELSE "commit")
    /\ record' = [ver |-> target + 1, installed |-> TRUE]
    /\ UNCHANGED <<manifest, data, journal, snapshot>>

(* Mutation: a replacement commits without starting what ran before *)
RecordWithoutStart ==
    /\ FileCall("record", "commit")
    /\ record' = [ver |-> target, installed |-> TRUE]
    /\ UNCHANGED <<manifest, data, journal, snapshot>>

WriteRecord ==
    /\ FileCall("record", IF journal.running THEN "start-new" ELSE "commit")
    /\ record' = [ver |-> target, installed |-> TRUE]
    /\ UNCHANGED <<manifest, data, journal, snapshot>>

StartNew ==
    /\ DockerCall("start-new", "commit")
    /\ container' = [container EXCEPT !.status = "running"]

(* Unlinking the journal commits; a replacement then reports progress once more *)
Commit ==
    /\ pc = "commit"
    /\ journal' = NoJournal
    /\ IF journal.phase = "copied" THEN Goto("report") ELSE Finish("succeeded")
    /\ UNCHANGED <<record, manifest, data, snapshot, container>>

Report ==
    /\ pc = "report"
    /\ Finish("succeeded")
    /\ UNCHANGED <<disk, container>>

-----------------------------------------------------------------------------
(* repair: the rollback, by the failing job or by the command line *)

(* The command line knows an add-on only by its addon.json *)
Known == Addon => manifest # 0

BeginRepair ==
    /\ pc = "idle"
    /\ Journaled
    /\ Known
    /\ pc' = "repair"
    /\ mode' = "cli"
    /\ UNCHANGED <<disk, container, target, status>>

(* Mutation: a first install without a container is left for a manual recovery *)
RepairNeedsContainer ==
    /\ DockerCall("repair", "discard-stop")
    /\ journal.phase = "first-install"
    /\ Present
    /\ container' = [container EXCEPT !.auto = FALSE]

(* First install: disarm whatever container there is, then discard it *)
RepairFirstInstall ==
    /\ DockerCall("repair", IF Present THEN "discard-stop" ELSE "old-record")
    /\ journal.phase = "first-install"
    /\ container' = [container EXCEPT !.auto = FALSE]

(* Replacement: the old manifest comes back before anything else *)
RepairManifest ==
    /\ FileCall("repair", IF journal.phase = "stopping" THEN "old-policy"
            ELSE IF Present THEN "discard-stop" ELSE "set-aside")
    /\ journal.phase \in {"stopping", "copied"}
    /\ manifest' = IF journal.manifest # 0 THEN journal.manifest ELSE manifest
    /\ UNCHANGED <<record, data, journal, snapshot>>

OldPolicy ==
    /\ DockerCall("old-policy", IF journal.running THEN "old-start" ELSE "repaired")
    /\ Present
    /\ container' = [container EXCEPT !.auto = journal.old.ver \in Autostart]

DiscardStop ==
    /\ DockerCall("discard-stop", "discard")
    /\ container' = Stopped

(* Mutation: the old container is made again without putting its data back *)
DiscardOnly ==
    /\ DockerCall("discard", IF journal.phase = "copied" THEN "recreate" ELSE "old-record")
    /\ container' = NoContainer

Discard ==
    /\ DockerCall("discard", IF journal.phase = "copied" THEN "set-aside" ELSE "old-record")
    /\ container' = NoContainer

SetAside ==
    /\ FileCall("set-aside", "refill")
    /\ snapshot.state # "none"
    /\ data' = NoData
    /\ UNCHANGED <<record, manifest, journal, snapshot>>

RefillBegins ==
    /\ FileCall("refill", "refilling")
    /\ data' = Torn
    /\ UNCHANGED <<record, manifest, journal, snapshot>>

RefillEnds ==
    /\ FileCall("refilling", "recreate")
    /\ data' = snapshot
    /\ UNCHANGED <<record, manifest, journal, snapshot>>

(* catalog.entry in this thread: the job's override hides the restored manifest *)
SeenManifest == IF ~Addon THEN journal.old.ver ELSE IF mode = "job" THEN target ELSE manifest

Refused == Addon /\ <<journal.old.ver, SeenManifest>> \in Widens

Recreate ==
    /\ DockerCall("recreate", "old-record")
    /\ ~Refused
    /\ container' = [status |-> "created", image |-> journal.old.ver, spec |-> SeenManifest,
                     auto |-> journal.running /\ journal.old.ver \in Autostart]

(* check_grants raises in spec(): the old options lack a grant the manifest needs *)
RecreateRefused ==
    /\ pc = "recreate"
    /\ Refused
    /\ Finish("failed")
    /\ UNCHANGED <<disk, container>>

(* Mutation: the rollback leaves the record of the new version *)
KeepNewRecord ==
    /\ FileCall("old-record", IF journal.phase = "copied" /\ journal.running THEN "old-start"
            ELSE IF Addon /\ journal.old.ver = 0 THEN "drop-manifest" ELSE "repaired")
    /\ UNCHANGED disk

(* The journal's record comes back; without one record.json is deleted *)
OldRecord ==
    /\ FileCall("old-record", IF journal.phase = "copied" /\ journal.running THEN "old-start"
            ELSE IF Addon /\ journal.old.ver = 0 THEN "drop-manifest" ELSE "repaired")
    /\ record' = journal.old
    /\ UNCHANGED <<manifest, data, journal, snapshot>>

DropManifest ==
    /\ FileCall("drop-manifest", "repaired")
    /\ manifest' = 0
    /\ UNCHANGED <<record, data, journal, snapshot>>

OldStart ==
    /\ DockerCall("old-start", "repaired")
    /\ container' = [container EXCEPT !.status = "running"]

Repaired ==
    /\ pc = "repaired"
    /\ journal' = NoJournal
    /\ Finish("failed")
    /\ UNCHANGED <<record, manifest, data, snapshot, container>>

-----------------------------------------------------------------------------
(* The environment *)

(* A running app writes its data in its own version's format *)
AppWrites ==
    /\ Running
    /\ data.gen < MaxWrites
    /\ data' = [data EXCEPT !.fmt = container.image, !.gen = @ + 1]
    /\ UNCHANGED <<record, manifest, journal, snapshot, container, pc, worker>>

(* The calls inside the try blocks of _execute, whose failure starts a rollback *)
TryCalls == {"policy", "quiesce", "copy", "copying", "options", "mark-copied",
             "remove-old", "create", "record", "start-new", "commit"}

(* Any call may raise: Docker, the disk or the progress file; after its effect too, *)
(* which is the failure of the next call                                           *)
CallFails ==
    /\ pc # "idle"
    /\ IF pc \in TryCalls THEN Goto("repair") ELSE Finish("failed")
    /\ UNCHANGED <<disk, container>>

(* Mutation: a job found running at start-up is not marked interrupted *)
DiesSilently == pc' = "idle" /\ UNCHANGED worker

(* The process dies; Manager.__init__ later marks its job interrupted *)
Dies == /\ pc' = "idle"
        /\ status' = IF status = "running" THEN "interrupted" ELSE status
        /\ UNCHANGED <<mode, target>>

Crash ==
    /\ pc # "idle"
    /\ Dies
    /\ UNCHANGED <<disk, container>>

(* Docker brings back what its restart policy names; unless-stopped leaves a   *)
(* stopped container alone, and whether it starts a never-started one is open  *)
AfterBoot ==
    CASE Running /\ container.auto -> {"running"}
      [] Running /\ ~container.auto -> {"exited"}
      [] container.status = "exited" /\ container.auto -> {"running"}
      [] container.status = "created" /\ container.auto -> {"created", "running"}
      [] OTHER -> {container.status}

Reboot ==
    /\ Dies
    /\ \E s \in AfterBoot : container' = [container EXCEPT !.status = s]
    /\ UNCHANGED disk

-----------------------------------------------------------------------------
Lifecycle == SetPolicy \/ StartOnly \/ StopOnly \/ StopToRemove \/ RemoveOnly \/ RemoveRecord

Replace ==
    \/ Seed \/ WriteJournal \/ SaveManifest \/ DisablePolicy \/ Quiesce
    \/ CopyBegins \/ CopyEnds \/ WriteOptions \/ MarkCopied \/ RemoveOld
    \/ Create \/ WriteRecord \/ StartNew \/ Commit \/ Report

Repair ==
    \/ RepairFirstInstall \/ RepairManifest \/ OldPolicy \/ DiscardStop \/ Discard
    \/ SetAside \/ RefillBegins \/ RefillEnds \/ Recreate \/ RecreateRefused
    \/ OldRecord \/ DropManifest \/ OldStart \/ Repaired

Worker == Lifecycle \/ Replace \/ Repair

Request ==
    \/ \E v \in Versions : BeginReplace(v)
    \/ \E goal \in {"stop", "remove"} : BeginStop(goal)
    \/ BeginStart

Fault == CallFails \/ Crash \/ Reboot

Acts == Request \/ BeginRepair \/ Worker \/ AppWrites \/ Fault

Next == Acts /\ UNCHANGED kind

Spec == Init /\ [][Next]_vars

(* The worker thread keeps running, and the administrator runs "opiha-apps    *)
(* repair" when the panel shows recovery_required                             *)
FairSpec == Spec /\ WF_vars(Worker /\ UNCHANGED kind) /\ WF_vars(BeginRepair /\ UNCHANGED kind)

-----------------------------------------------------------------------------
(* Properties *)

(* Every variable keeps the shape the code gives it. *)
TypeOK ==
    /\ kind \in Kinds
    /\ record \in Records
    /\ manifest \in 0..MaxVersion
    /\ data \in Contents
    /\ journal \in Journals
    /\ snapshot \in Contents
    /\ container \in Containers
    /\ pc \in {"idle", "set-policy", "start-only", "stop", "remove", "remove-only",
               "remove-record", "seed", "journal", "manifest", "report", "repair",
               "old-policy", "discard-stop", "discard", "set-aside", "refill",
               "refilling", "recreate", "old-record", "drop-manifest", "old-start",
               "repaired"} \cup TryCalls
    /\ mode \in {"job", "cli"}
    /\ target \in Versions
    /\ status \in {"none", "running", "succeeded", "failed", "interrupted"}

(* repair() of a journal in phase "copied" deletes the live data, so from the  *)
(* moment that phase is durable the rollback copy it names is whole and in a   *)
(* format the old image can read, however often the rollback is interrupted.   *)
RollbackCopyUsable ==
    journal.phase = "copied" =>
        /\ snapshot.state = "whole"
        /\ snapshot.fmt <= journal.old.ver

(* "Do not point an older image at upgraded data": whenever a container runs,  *)
(* through updates, rollbacks, crashes, reboots and reinstalls over retained   *)
(* data, the data it is given is whole and no newer than its image.            *)
NeverOldImageOnNewData ==
    Running => data.state = "whole" /\ data.fmt <= container.image

(* With the lock free and no journal the three stores agree: a container is    *)
(* the one its record names, and a recorded app still has its data, readable   *)
(* by the recorded version, also after it was removed.                         *)
SettledAgreement ==
    pc = "idle" /\ ~Journaled =>
        /\ Present => record.installed /\ record.ver = container.image
        /\ record.ver # 0 => data.state = "whole" /\ data.fmt <= record.ver

(* An app that ran before its replacement runs again once the journal is gone, *)
(* whether the replacement was committed or rolled back.                       *)
ServiceResumes ==
    [][Journaled /\ journal'.phase = "none" /\ journal.running => Running']_vars

(* Seen through its journal the app changes atomically: while a replacement is *)
(* under way its record is the journal's old one, and its data is the rollback *)
(* copy as soon as that is what a repair would bring back.                     *)
SettledRecord == IF Journaled THEN journal.old ELSE record
SettledData == IF journal.phase = "copied" THEN snapshot ELSE data
Content(d) == [state |-> d.state, fmt |-> d.fmt, gen |-> d.gen]

Atomic == INSTANCE AtomicReplace WITH app <- SettledRecord, content <- Content(SettledData)

(* Install, update, rollback and remove with all their failures implement      *)
(* AtomicReplace: version and data move together or not at all.                *)
ReplacesAtomically == Atomic!Spec

(* Every job reaches a final status, however its calls fail.                   *)
JobsEnd == status = "running" ~> status # "running"

(* Once calls stop failing, repair clears an interrupted replacement of a      *)
(* catalog app.                                                                *)
RepairConverges == <>[][~Fault]_vars => (Journaled /\ ~Addon ~> ~Journaled)

(* BACKUP-RECOVERY.md: "If an interrupted transaction remains" the local       *)
(* repair command undoes it, so that command must recognise the app.           *)
JournalRepairable == pc = "idle" /\ Journaled => Known

(* ADDONS.md: "A failed update restores the previous image, manifest and data"; *)
(* ARCHITECTURE.md: the prior "image/options and the matching data".  A settled  *)
(* app has the manifest, the container settings and the options of its version.  *)
RollbackRestoresAll ==
    pc = "idle" /\ ~Journaled /\ Present =>
        /\ manifest = record.ver
        /\ container.spec = record.ver
        /\ data.options = record.ver
=============================================================================
