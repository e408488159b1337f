---------------------------- MODULE StateRestore ----------------------------
(***************************************************************************)
(* Restoring the appliance's Home Assistant state (src/opiha/backup.py and *)
(* src/opiha/cli.py): the journaled directory exchange of commit_state,    *)
(* its rollback, repair_restore, and the production gate that activate,    *)
(* deactivate, recover and up share with it.                               *)
(*                                                                         *)
(* A state tree is a number: tree 1 is the one "init" creates, every other *)
(* is built by a restore or an import from somewhere else.  Zero is an     *)
(* absent directory.  exclusive_lock admits one mutating command at a      *)
(* time, so all of them share one program counter.                         *)
(***************************************************************************)
EXTENDS Integers

CONSTANT MaxTrees  \* bound: trees ever built, the initial one included

ASSUME TreesAssumption == MaxTrees \in Nat \ {0}

Trees == 1..MaxTrees

VARIABLES
    live,      \* the tree at data_dir
    staging,   \* the verified tree beside it
    previous,  \* the tree at the journal's "previous" path
    rollbacks, \* trees retained under the .rollback-* names of finished restores
    failed,    \* trees repair-restore moved to .failed-* names
    made,      \* how many trees there have been
    journal,   \* phase in work_dir/restore-journal.json
    armed,     \* work_dir/activated.json exists
    marked,    \* work_dir/restored.json exists
    seeded,    \* tree 1 holds a Home Assistant configuration
    ha,        \* the Home Assistant container
    pc,        \* the next step of the command holding the lock
    task,      \* that command
    active,    \* backup: compose.running before "down"
    approved,  \* history: trees an activation was given for
    stoodDown  \* history: deactivate or repair-restore came after the last activation

trees == <<live, staging, previous, rollbacks, failed, made>>
gate == <<armed, marked, seeded>>
history == <<approved, stoodDown>>
vars == <<trees, journal, gate, ha, pc, task, active, history>>

Running == ha = "running"
Journaled == journal # "none"

(* ensure_state: the data directory is there and initialised *)
HasState == live # 0

(* recover() only takes an empty home: nothing seeded, nothing restored *)
Fresh == live = 1 /\ ~seeded /\ ~marked

Init ==
    /\ live = 1 /\ staging = 0 /\ previous = 0 /\ made = 1
    /\ rollbacks = {} /\ failed = {}
    /\ journal = "none"
    /\ armed = FALSE /\ marked = FALSE /\ seeded = FALSE
    /\ ha = "none"
    /\ pc = "idle" /\ task = "restore" /\ active = FALSE
    /\ approved = {} /\ stoodDown = FALSE

(* A tree is current until the journal of its replacement is gone *)
Current == IF previous # 0 THEN previous ELSE live

Step(at, next) == pc = at /\ pc' = next /\ UNCHANGED <<task, active>>

-----------------------------------------------------------------------------
(* Commands *)

OwnsStaging == {"restore", "import", "recover"}

(* online, quiesced() asks compose which services run, and compose.prepare    *)
(* refuses while a journal exists; --offline --source-stopped is the          *)
(* operator's word that every writer is stopped; recover() is not asked       *)
Begin(name, offline, first) ==
    /\ pc = "idle"
    /\ HasState
    /\ offline /\ name # "recover" => ~Running
    /\ ~offline => ~Journaled
    /\ name \in OwnsStaging => made < MaxTrees
    /\ pc' = first
    /\ task' = name
    /\ active' = Running
    /\ UNCHANGED <<trees, journal, gate, ha, history>>

(* The bundle is extracted and verified before anything is stopped; an import *)
(* is copied after                                                             *)
BeginRestore(offline) == Begin("restore", offline, "extract")
BeginImport(offline) == Begin("import", offline, IF offline THEN "extract" ELSE "down")
BeginBackup(offline) == Begin("backup", offline, IF offline THEN "tar" ELSE "down")
BeginRecover == Fresh /\ Begin("recover", TRUE, "extract")

(* Mutation: up does not look for an unfinished restore *)
UpIgnoresJournal(onboarding) ==
    /\ pc = "idle"
    /\ HasState
    /\ armed \/ (onboarding /\ ~marked)
    /\ ha' = "running"
    /\ seeded' = (seeded \/ live = 1)
    /\ UNCHANGED <<trees, journal, armed, marked, pc, task, active, history>>

(* up, by the operator or with --onboarding by opiha-stack.service at boot *)
Up(onboarding) ==
    /\ pc = "idle"
    /\ HasState
    /\ ~Journaled
    /\ armed \/ (onboarding /\ ~marked)
    /\ ha' = "running"
    /\ seeded' = (seeded \/ live = 1)
    /\ UNCHANGED <<trees, journal, armed, marked, pc, task, active, history>>

Down ==
    /\ pc = "idle"
    /\ HasState
    /\ ~Journaled
    /\ ha' = "none"
    /\ UNCHANGED <<trees, journal, gate, pc, task, active, history>>

(* activate writes its file without looking at the state or the journal; the   *)
(* operator means the tree in force                                            *)
Activate ==
    /\ pc = "idle"
    /\ armed' = TRUE
    /\ approved' = approved \cup {Current}
    /\ stoodDown' = FALSE
    /\ UNCHANGED <<trees, journal, marked, seeded, ha, pc, task, active>>

BeginDeactivate == Begin("deactivate", FALSE, "down")

Deactivated ==
    /\ Step("deactivate", "idle")
    /\ armed' = FALSE
    /\ stoodDown' = TRUE
    /\ UNCHANGED <<trees, journal, marked, seeded, ha, approved>>

(* "down" removes the containers, so that no restart policy can revive them *)
Quiesce ==
    /\ Step("down", CASE task = "restore" -> "prepare"
                      [] task = "import" -> "extract"
                      [] task = "backup" -> "tar"
                      [] task = "deactivate" -> "deactivate")
    /\ ha' = "none"
    /\ UNCHANGED <<trees, journal, gate, history>>

(* do_backup starts what ran before, also when the snapshot failed *)
BackupDone ==
    /\ Step("tar", "idle")
    /\ ha' = IF active THEN "running" ELSE ha
    /\ UNCHANGED <<trees, journal, gate, history>>

-----------------------------------------------------------------------------
(* commit_state *)

(* Mutation: an online restore stops nothing before it exchanges the trees *)
ExtractWithoutDown ==
    /\ Step("extract", "prepare")
    /\ staging' = made + 1
    /\ made' = made + 1
    /\ UNCHANGED <<live, previous, rollbacks, failed, journal, gate, ha, history>>

Extract ==
    /\ Step("extract", IF task = "restore" /\ active THEN "down" ELSE "prepare")
    /\ staging' = made + 1
    /\ made' = made + 1
    /\ UNCHANGED <<live, previous, rollbacks, failed, journal, gate, ha, history>>

Prepare ==
    /\ Step("prepare", "move-live")
    /\ ~Journaled
    /\ journal' = "prepared"
    /\ UNCHANGED <<trees, gate, ha, history>>

PrepareRefused ==
    /\ Step("prepare", "cleanup")
    /\ Journaled
    /\ UNCHANGED <<trees, journal, gate, ha, history>>

MoveLive ==
    /\ Step("move-live", "mark-moved")
    /\ previous' = live
    /\ live' = 0
    /\ UNCHANGED <<staging, rollbacks, failed, made, journal, gate, ha, history>>

MarkMoved ==
    /\ Step("mark-moved", "move-staging")
    /\ journal' = "previous_moved"
    /\ UNCHANGED <<trees, gate, ha, history>>

MoveStaging ==
    /\ Step("move-staging", "mark-activated")
    /\ live' = staging
    /\ staging' = 0
    /\ UNCHANGED <<previous, rollbacks, failed, made, journal, gate, ha, history>>

MarkActivated ==
    /\ Step("mark-activated", "disarm")
    /\ journal' = "activated"
    /\ UNCHANGED <<trees, gate, ha, history>>

(* Mutation: the exchange leaves activated.json in place *)
KeepArmed ==
    /\ Step("disarm", "mark-restored")
    /\ UNCHANGED <<trees, journal, gate, ha, history>>

(* "New state must never auto-run before the operator chooses a cutover." *)
Disarm ==
    /\ Step("disarm", "mark-restored")
    /\ armed' = FALSE
    /\ UNCHANGED <<trees, journal, marked, seeded, ha, history>>

MarkRestored ==
    /\ Step("mark-restored", "commit")
    /\ marked' = TRUE
    /\ UNCHANGED <<trees, journal, armed, seeded, ha, history>>

(* Mutation: the replaced tree is deleted instead of retained *)
CommitDiscards ==
    /\ Step("commit", "settings")
    /\ journal' = "none"
    /\ previous' = 0
    /\ UNCHANGED <<live, staging, rollbacks, failed, made, gate, ha, history>>

(* Without its journal the previous tree is just a retained directory *)
Commit ==
    /\ Step("commit", "settings")
    /\ journal' = "none"
    /\ rollbacks' = rollbacks \cup {previous}
    /\ previous' = 0
    /\ UNCHANGED <<live, staging, failed, made, gate, ha, history>>

(* Settings and permissions are written after the exchange; recover then arms *)
Settings ==
    /\ Step("settings", IF task = "recover" THEN "arm" ELSE "cleanup")
    /\ UNCHANGED <<trees, journal, gate, ha, history>>

Arm ==
    /\ Step("arm", "idle")
    /\ armed' = TRUE
    /\ approved' = approved \cup {Current}
    /\ stoodDown' = FALSE
    /\ UNCHANGED <<trees, journal, marked, seeded, ha>>

(* except BaseException: put the previous tree back if nothing replaced it *)
Undo ==
    /\ Step("undo", "undo-journal")
    /\ previous # 0 /\ live = 0
    /\ live' = previous
    /\ previous' = 0
    /\ UNCHANGED <<staging, rollbacks, failed, made, journal, gate, ha, history>>

(* Mutation: a failed exchange drops its journal also where nothing was undone *)
DropJournalAnyway ==
    /\ Step("undo", "undo-journal")
    /\ ~(previous # 0 /\ live = 0)
    /\ UNCHANGED <<trees, journal, gate, ha, history>>

NothingToUndo ==
    /\ Step("undo", "cleanup")
    /\ ~(previous # 0 /\ live = 0)
    /\ UNCHANGED <<trees, journal, gate, ha, history>>

UndoJournal ==
    /\ Step("undo-journal", "cleanup")
    /\ journal' = "none"
    /\ UNCHANGED <<trees, gate, ha, history>>

(* finally: staging is kept for the journal that names it *)
Cleanup ==
    /\ Step("cleanup", "idle")
    /\ staging' = IF Journaled THEN staging ELSE 0
    /\ UNCHANGED <<live, previous, rollbacks, failed, made, journal, gate, ha, history>>

-----------------------------------------------------------------------------
(* repair_restore, on the operator's word that every writer is stopped *)

(* Mutation: the current directory is set aside without looking for it *)
BeginRepairAside ==
    /\ pc = "idle"
    /\ Journaled
    /\ ~Running
    /\ previous # 0 \/ live # 0
    /\ pc' = IF previous = 0 THEN "repair-journal" ELSE "repair-aside"
    /\ task' = "repair"
    /\ UNCHANGED <<trees, journal, gate, ha, active, history>>

BeginRepair ==
    /\ pc = "idle"
    /\ Journaled
    /\ ~Running
    /\ previous # 0 \/ live # 0
    /\ pc' = IF previous = 0 THEN "repair-journal"
             ELSE IF live = 0 THEN "repair-back" ELSE "repair-aside"
    /\ task' = "repair"
    /\ UNCHANGED <<trees, journal, gate, ha, active, history>>

RepairAside ==
    /\ Step("repair-aside", "repair-back")
    /\ failed' = failed \cup {live}
    /\ live' = 0
    /\ UNCHANGED <<staging, previous, rollbacks, made, journal, gate, ha, history>>

RepairBack ==
    /\ Step("repair-back", "repair-journal")
    /\ live' = previous
    /\ previous' = 0
    /\ UNCHANGED <<staging, rollbacks, failed, made, journal, gate, ha, history>>

(* Mutation: repair leaves its journal behind *)
RepairKeepsJournal ==
    /\ Step("repair-journal", "repair-disarm")
    /\ stoodDown' = TRUE
    /\ UNCHANGED <<trees, journal, gate, ha, approved>>

RepairJournal ==
    /\ Step("repair-journal", "repair-disarm")
    /\ journal' = "none"
    /\ stoodDown' = TRUE
    /\ UNCHANGED <<trees, gate, ha, approved>>

RepairDisarm ==
    /\ Step("repair-disarm", "idle")
    /\ armed' = FALSE
    /\ UNCHANGED <<trees, journal, marked, seeded, ha, history>>

-----------------------------------------------------------------------------
(* The environment *)

(* Inside the try block of commit_state a failure is undone; before and after *)
(* it only the temporary tree is cleaned up.  A "down" that fails may have    *)
(* stopped the containers, and nothing then starts what ran.                  *)
TrySteps == {"move-live", "mark-moved", "move-staging", "mark-activated", "disarm",
             "mark-restored", "commit"}

StepFails ==
    /\ pc # "idle"
    /\ pc' = IF pc \in TrySteps THEN "undo"
             ELSE IF task \in OwnsStaging /\ pc # "cleanup" THEN "cleanup" ELSE "idle"
    /\ ha' \in CASE pc = "down" -> {ha, "none"}
                 [] pc = "tar" /\ active -> {ha, "running"}
                 [] OTHER -> {ha}
    /\ UNCHANGED <<trees, journal, gate, task, active, history>>

Crash ==
    /\ pc # "idle"
    /\ pc' = "idle"
    /\ UNCHANGED <<trees, journal, gate, ha, task, active, history>>

(* A clean shutdown runs "down"; after a power loss Docker revives the containers *)
Reboot ==
    /\ pc' = "idle"
    /\ ha' \in {ha, "none"}
    /\ UNCHANGED <<trees, journal, gate, task, active, history>>

-----------------------------------------------------------------------------
Exchange ==
    \/ Extract \/ Prepare \/ PrepareRefused \/ MoveLive \/ MarkMoved \/ MoveStaging \/ MarkActivated
    \/ Disarm \/ MarkRestored \/ Commit \/ Settings \/ Arm
    \/ Undo \/ NothingToUndo \/ UndoJournal \/ Cleanup

Repair == RepairAside \/ RepairBack \/ RepairJournal \/ RepairDisarm

Worker == Exchange \/ Repair \/ Quiesce \/ BackupDone \/ Deactivated

Command ==
    \/ \E offline \in BOOLEAN :
           BeginRestore(offline) \/ BeginImport(offline) \/ BeginBackup(offline)
    \/ \E onboarding \in BOOLEAN : Up(onboarding)
    \/ BeginRecover \/ BeginDeactivate \/ Down \/ Activate

Fault == StepFails \/ Crash \/ Reboot

Next == Command \/ BeginRepair \/ Worker \/ Fault

Spec == Init /\ [][Next]_vars

(* A started command keeps running, and the operator runs repair-restore *)
FairSpec == Spec /\ WF_vars(Worker) /\ WF_vars(BeginRepair)

-----------------------------------------------------------------------------
(* Properties *)

(* Every variable keeps the shape the code gives it. *)
TypeOK ==
    /\ live \in 0..MaxTrees /\ staging \in 0..MaxTrees /\ previous \in 0..MaxTrees
    /\ rollbacks \subseteq Trees /\ failed \subseteq Trees /\ made \in Trees
    /\ journal \in {"none", "prepared", "previous_moved", "activated"}
    /\ armed \in BOOLEAN /\ marked \in BOOLEAN /\ seeded \in BOOLEAN
    /\ ha \in {"none", "running"}
    /\ pc \in TrySteps \cup {"idle", "extract", "down", "tar", "deactivate", "prepare",
                             "settings", "arm", "undo", "undo-journal", "cleanup",
                             "repair-aside", "repair-back", "repair-journal", "repair-disarm"}
    /\ task \in OwnsStaging \cup {"backup", "deactivate", "repair"}
    /\ active \in BOOLEAN
    /\ approved \subseteq 0..MaxTrees
    /\ stoodDown \in BOOLEAN

(* "New state must never auto-run before the operator chooses a cutover": a    *)
(* restored or imported tree runs only if production was armed for it, however *)
(* the restore, the repair and the boot-time "up --onboarding" interleave.     *)
ImportedRunsApproved == Running /\ live > 1 => live \in approved

(* The data directory is never exchanged under a running Home Assistant, the   *)
(* unattended recover included, which nobody asks whether writers are stopped. *)
SwapsOnlyStopped == [][live' # live => ~Running /\ ~Running']_vars

(* A finished or repaired exchange leaves a state tree in place and nothing    *)
(* behind that only a journal could name.                                      *)
SettledHasState == pc = "idle" /\ ~Journaled => live # 0 /\ previous = 0

(* A journal left behind blocks every start and can always be repaired: its    *)
(* "Neither previous nor active state exists" branch is unreachable.           *)
JournalRecoverable == Journaled => ~Running /\ (live # 0 \/ previous # 0)

Kept == INSTANCE Household WITH current <- Current, retired <- rollbacks

(* Restore, import, rollback and repair with their failures and crashes        *)
(* implement Household: one tree replaces another in a single step, and no     *)
(* replaced tree is ever lost.                                                 *)
ReplacesWhole == Kept!Spec

(* Once steps stop failing, an interrupted exchange is completed or repaired.  *)
RepairConverges == <>[][~Fault]_vars => (Journaled ~> ~Journaled)

(* CLI.md: deactivate means "stop containers and disarm", and "up --onboarding" *)
(* is to allow "only a new, unauthenticated appliance".  Once a cutover was      *)
(* activated and withdrawn, Home Assistant stays down until the next activation. *)
DisarmedStaysDown == stoodDown /\ approved # {} => ~Running
=============================================================================
