---------------------------- MODULE AddonBackups ----------------------------
(* Backup and restore of one repository add-on: the archives of              *)
(* opiha_apps/addon_backup.py and the job of manager.py that makes one or    *)
(* puts one back (_backup_or_restore).  The job keeps no journal: what it    *)
(* holds against a failing call are a rollback copy and two finally clauses, *)
(* against a crash the copy alone.                                           *)
(*                                                                           *)
(* What an add-on keeps is a moment of its life: it writes data/ first and   *)
(* addon_config/ after it, and is between two moments until it has written   *)
(* both.  options.json lies in data/ and comes and goes with it.             *)
EXTENDS Integers

CONSTANTS BackupIds,   \* bound: backups ever made
          Configs,     \* the add-on's configurations
          MaxMoments,  \* bound: moments of the add-on's life
          MaxFaults    \* bound: calls that raise

ASSUME BackupsAssumption ==
  /\ MaxMoments \in Nat /\ MaxFaults \in Nat
  /\ "none" \notin Configs /\ Configs # {}

ROOTS == <<"data", "addon_config">>
None == -1
Torn == -2

VARIABLES
  tree,       \* apps/<slug>: both directories, and options.json in data/
  record,     \* record.json: the configuration
  container,  \* whether it runs and whether Docker may start it again
  backups,    \* addon-backups/: archive and sidecar of each backup
  copied,     \* the rollback copy of the restore under way
  pc,         \* the job's next call; next: the directory its loop is at
  next,
  job,        \* what it was asked: action, backup, whether it ran, outcome, and the tree it found
  before,     \* history: the tree when a job last found it whole and at rest,
  kept,       \*   and whether a complete rollback copy of that tree was made
  faults      \* history: calls that raised or went wrong in this job

bakVars == <<tree, record, container, backups, copied, kept, pc, next, job, before, faults>>

Trees == [data : Torn..MaxMoments, addon_config : Torn..MaxMoments,
          options : Configs \cup {"none"}]
Empty == [data |-> None, addon_config |-> None, options |-> "none"]
Whole(t) == t.data >= 0 /\ t.addon_config >= 0
Settled(t) == Whole(t) /\ t.data = t.addon_config

(* Nothing is half written by the add-on itself.                             *)
AtRest(t) == Whole(t) => Settled(t)

NoBackup == [file |-> "none", side |-> FALSE, tree |-> Empty, config |-> "none", sound |-> FALSE]

NoJob == [action |-> "none", backup |-> "none", running |-> FALSE,
          outcome |-> "none", found |-> Empty]

BakInit ==
  /\ tree \in [data : {0}, addon_config : {0}, options : Configs]
  /\ record = tree.options
  /\ container = [running |-> FALSE, auto |-> FALSE]
  /\ backups = [b \in BackupIds |-> NoBackup]
  /\ copied = Empty /\ kept = FALSE
  /\ pc = "idle" /\ next = 1
  /\ job = NoJob
  /\ before = tree
  /\ faults = 0

-----------------------------------------------------------------------------
(* The add-on, when it runs.  Stopping lets it finish what it writes.        *)

AddonWrites ==
  /\ container.running /\ Settled(tree) /\ tree.data < MaxMoments
  /\ tree' = [tree EXCEPT !.data = @ + 1]
  /\ UNCHANGED <<record, container, backups, copied, kept, pc, next, job, before, faults>>

AddonSettles ==
  /\ container.running /\ ~AtRest(tree)
  /\ tree' = [tree EXCEPT !.addon_config = tree.data]
  /\ UNCHANGED <<record, container, backups, copied, kept, pc, next, job, before, faults>>

(* Jobs of other kinds, between those of this one: start, stop, configure.   *)
AddonManaged ==
  /\ pc = "idle"
  /\ \/ /\ container' = [running |-> TRUE, auto |-> TRUE] /\ UNCHANGED <<tree, record>>
     \/ /\ AtRest(tree)
        /\ container' = [running |-> FALSE, auto |-> FALSE] /\ UNCHANGED <<tree, record>>
     \/ \E c \in Configs :
          /\ ~container.running /\ Settled(tree)
          /\ record' = c /\ tree' = [tree EXCEPT !.options = c] /\ UNCHANGED container
  /\ UNCHANGED <<backups, copied, kept, pc, next, job, before, faults>>

-----------------------------------------------------------------------------
(* The job.  find and the plan's baseline were looked at before.             *)

Goto(where) == pc' = where /\ UNCHANGED <<next, job, before, faults>>

(* find: sidecar and archive are there, size and SHA-256 match.              *)
Found(b) == backups[b].side /\ backups[b].file = "whole"

Remembers ==
  IF Settled(tree) THEN before' = tree /\ kept' = (kept /\ tree = before)
                   ELSE UNCHANGED <<before, kept>>

(* Mutation: the add-on is not stopped for a backup                          *)
BeginsHot(action, b) ==
  /\ pc = "idle"
  /\ IF action = "backup" THEN backups[b] = NoBackup ELSE Found(b)
  /\ job' = [action |-> action, backup |-> b, running |-> container.running,
             outcome |-> "none", found |-> tree]
  /\ Remembers
  /\ faults' = 0 /\ pc' = IF action = "backup" THEN "pack" ELSE "copy"
  /\ copied' = Empty
  /\ UNCHANGED <<tree, record, container, backups, next>>

BakBegins(action, b) ==
  /\ pc = "idle"
  /\ IF action = "backup" THEN backups[b] = NoBackup ELSE Found(b)
  /\ job' = [action |-> action, backup |-> b, running |-> container.running,
             outcome |-> "none", found |-> tree]
  /\ Remembers
  /\ faults' = 0
  /\ pc' = IF container.running THEN "policy-off" ELSE IF action = "backup" THEN "pack" ELSE "copy"
  /\ copied' = Empty
  /\ UNCHANGED <<tree, record, container, backups, next>>

BakPolicyOff ==
  /\ pc = "policy-off" /\ Goto("stop")
  /\ container' = [container EXCEPT !.auto = FALSE]
  /\ UNCHANGED <<tree, record, backups, copied, kept>>

BakStops ==
  /\ pc = "stop" /\ AtRest(tree)
  /\ pc' = IF job.action = "backup" THEN "pack" ELSE "copy"
  /\ container' = [container EXCEPT !.running = FALSE]
  /\ Remembers
  /\ job' = [job EXCEPT !.found = tree]
  /\ UNCHANGED <<tree, record, backups, copied, next, faults>>

(* create: the archive is written beside its place, named, then vouched for. *)
Packs ==
  /\ pc = "pack" /\ Goto("sidecar")
  /\ backups' = [backups EXCEPT ![job.backup] =
                   [file |-> "whole", side |-> FALSE, tree |-> tree, config |-> record,
                    sound |-> Settled(job.found)]]
  /\ UNCHANGED <<tree, record, container, copied, kept>>

Finally == IF job.running THEN "policy-on" ELSE "end"

WritesSidecar ==
  /\ pc = "sidecar"
  /\ backups' = [backups EXCEPT ![job.backup].side = TRUE]
  /\ pc' = Finally /\ job' = [job EXCEPT !.outcome = "succeeded"]
  /\ UNCHANGED <<tree, record, container, copied, kept, next, before, faults>>

(* A directory of the tree, options.json with data/.                         *)
Content(t, root) == IF root = "data" THEN t.data ELSE t.addon_config
Put(t, root, content, options) ==
  IF root = "data"
    THEN [data |-> content, addon_config |-> t.addon_config, options |-> options]
    ELSE [data |-> t.data, addon_config |-> content, options |-> t.options]
PutFrom(t, root, source) == Put(t, root, Content(source, root), source.options)

(* Mutation: the rollback directory is made but not filled                   *)
CopiesNothing ==
  /\ pc = "copy" /\ Goto("extract")
  /\ UNCHANGED <<tree, record, container, backups, copied, kept>>

(* copy_tree, directory by directory; those that are not there are left out. *)
Copies ==
  /\ pc = "copy"
  /\ LET done == PutFrom(copied, ROOTS[next], tree) IN
       IF next = 1
         THEN copied' = done /\ next' = 2 /\ UNCHANGED <<pc, kept>>
         ELSE copied' = done /\ next' = 1 /\ pc' = "extract" /\ kept' = (kept \/ done = before)
  /\ UNCHANGED <<tree, record, container, backups, job, before, faults>>

(* extract into the staging directory, then catalog.options on the archive's *)
(* configuration: both only read, so that they are one step that may raise.  *)
Extracts ==
  /\ pc = "extract" /\ backups[job.backup].file = "whole"
  /\ pc' = "drop" /\ next' = 1
  /\ UNCHANGED <<tree, record, container, backups, copied, kept, job, before, faults>>

(* rmtree removes file by file, and ignores errors.                          *)
Drops ==
  /\ pc \in {"drop", "undo-drop"}
  /\ pc' = IF pc = "drop" THEN "place" ELSE "undo-place"
  /\ \/ tree' = Put(tree, ROOTS[next], None, "none") /\ UNCHANGED faults
     \/ /\ faults < MaxFaults /\ faults' = faults + 1
        /\ tree' = Put(tree, ROOTS[next], Torn, "none")
  /\ UNCHANGED <<record, container, backups, copied, kept, next, job, before>>

(* os.replace refuses a directory that rmtree could not empty.               *)
Places ==
  /\ pc = "place" /\ Content(tree, ROOTS[next]) = None
  /\ tree' = PutFrom(tree, ROOTS[next], backups[job.backup].tree)
  /\ IF next = 1 THEN pc' = "drop" /\ next' = 2 ELSE pc' = "options" /\ next' = 1
  /\ UNCHANGED <<record, container, backups, copied, kept, job, before, faults>>

BakWritesOptions ==
  /\ pc = "options" /\ Goto("record")
  /\ tree' = [tree EXCEPT !.options = backups[job.backup].config]
  /\ UNCHANGED <<record, container, backups, copied, kept>>

BakWritesRecord ==
  /\ pc = "record" /\ Goto("progress")
  /\ record' = backups[job.backup].config
  /\ UNCHANGED <<tree, container, backups, copied, kept>>

(* progress writes the job's file, and may raise as any call may.            *)
BakReports ==
  /\ pc = "progress"
  /\ pc' = Finally /\ job' = [job EXCEPT !.outcome = "succeeded"]
  /\ UNCHANGED <<tree, record, container, backups, copied, kept, next, before, faults>>

(* except: the previous data comes back from the rollback copy.              *)
Undoes ==
  /\ pc = "undo-place" /\ Content(tree, ROOTS[next]) = None
  /\ tree' = PutFrom(tree, ROOTS[next], copied)
  /\ IF next = 1 THEN pc' = "undo-drop" /\ next' = 2 ELSE pc' = Finally /\ next' = 1
  /\ UNCHANGED <<record, container, backups, copied, kept, job, before, faults>>

(* finally: the restart policy as the record of before has it, then a start. *)
BakPolicyOn ==
  /\ pc = "policy-on" /\ Goto("start")
  /\ container' = [container EXCEPT !.auto = TRUE]
  /\ UNCHANGED <<tree, record, backups, copied, kept>>

BakStarts ==
  /\ pc = "start" /\ Goto("end")
  /\ container' = [container EXCEPT !.running = TRUE]
  /\ UNCHANGED <<tree, record, backups, copied, kept>>

Forgets == next' = 1 /\ copied' = Empty /\ job' = NoJob /\ faults' = 0

BakEnds ==
  /\ pc = "end" /\ pc' = "idle" /\ Forgets
  /\ UNCHANGED <<tree, record, container, backups, kept, before>>

-----------------------------------------------------------------------------
(* What goes wrong.                                                          *)

(* Mutation: an error inside the restore goes straight to the finally clause *)
NoUndo(at) == IF at \in {"policy-off", "stop", "policy-on", "start"} THEN "end" ELSE Finally

Undoing == {"extract", "drop", "place", "options", "record", "progress"}

(* Where an error in a call goes: out of the job before the try and in the   *)
(* finally clause, into the except clause while the restore is under way.    *)
Handler(at) ==
  CASE at \in {"policy-off", "stop", "policy-on", "start"} -> "end"
    [] at \in {"pack", "sidecar", "copy", "undo-drop", "undo-place"} -> Finally
    [] at \in Undoing -> "undo-drop"

(* A call that cannot succeed: a damaged archive, a directory in the way.     *)
Doomed ==
  \/ pc = "extract" /\ backups[job.backup].file # "whole"
  \/ pc \in {"place", "undo-place"} /\ Content(tree, ROOTS[next]) # None

Raises ==
  /\ pc \notin {"idle", "end"}
  /\ IF Doomed THEN UNCHANGED faults ELSE faults < MaxFaults /\ faults' = faults + 1
  /\ pc' = Handler(pc) /\ next' = 1
  /\ job' = [job EXCEPT !.outcome = "failed"]
  /\ UNCHANGED <<tree, record, container, backups, copied, kept, before>>

(* The manager or the host dies; a container without restart policy stays    *)
(* down after a reboot, one with it comes back.                              *)
BakCrashes ==
  /\ pc # "idle" /\ faults < MaxFaults
  /\ pc' = "idle" /\ Forgets
  /\ \/ UNCHANGED container
     \/ /\ container.running => AtRest(tree)
        /\ container' = [container EXCEPT !.running = container.auto]
  /\ UNCHANGED <<tree, record, backups, kept, before>>

(* A stored archive is damaged; find will refuse it, and so will gzip.       *)
Damaged(b) ==
  /\ backups[b].file = "whole" /\ faults < MaxFaults
  /\ backups' = [backups EXCEPT ![b].file = "damaged"]
  /\ faults' = faults + 1
  /\ UNCHANGED <<tree, record, container, copied, kept, pc, next, job, before>>

-----------------------------------------------------------------------------
JobSteps ==
  \/ BakPolicyOff \/ BakStops \/ Packs \/ WritesSidecar \/ Copies
  \/ Extracts \/ Drops \/ Places \/ BakWritesOptions \/ BakWritesRecord \/ BakReports
  \/ Undoes \/ BakPolicyOn \/ BakStarts \/ BakEnds

BakNext ==
  \/ AddonWrites \/ AddonSettles \/ AddonManaged
  \/ \E b \in BackupIds, action \in {"backup", "restore"} : BakBegins(action, b)
  \/ JobSteps \/ Raises \/ BakCrashes
  \/ \E b \in BackupIds : Damaged(b)

(* The job's thread runs, and an add-on that is told to stop ends its write. *)
BakFairness == WF_bakVars(JobSteps \/ Raises) /\ WF_bakVars(AddonSettles)

BakSpec == BakInit /\ [][BakNext]_bakVars /\ BakFairness

-----------------------------------------------------------------------------
BakTypeOK ==
  /\ tree \in Trees /\ record \in Configs
  /\ container \in [running : BOOLEAN, auto : BOOLEAN]
  /\ backups \in [BackupIds -> [file : {"none", "whole", "damaged"}, side : BOOLEAN,
                                tree : Trees, config : Configs \cup {"none"}, sound : BOOLEAN]]
  /\ copied \in Trees /\ kept \in BOOLEAN /\ before \in Trees
  /\ next \in {1, 2} /\ faults \in 0..MaxFaults

(* Every archive that find accepts of an add-on that was whole when it was   *)
(* stopped (not the mixture that a restore left behind when it died) holds   *)
(* one moment of its life, whatever failed or died while it was made.        *)
BackupIsOneMoment ==
  \A b \in BackupIds : Found(b) /\ backups[b].sound => Settled(backups[b].tree)

(* Whenever the add-on is down and what it keeps is missing, torn or mixed   *)
(* of two moments, what it last kept is complete in a rollback copy: through *)
(* crashes, failures of the undoing itself, and further attempts.            *)
LastMomentSurvives ==
  ~container.running /\ ~Settled(tree) => kept

(* One failing call leaves a restore that either took place in every         *)
(* directory, in options.json and in the record, or in no directory.         *)
OneErrorIsUndone ==
  job.action = "restore" /\ faults <= 1 /\ (pc = "policy-on" \/ (pc = "end" /\ ~job.running)) =>
    CASE job.outcome = "succeeded" ->
           /\ tree = [backups[job.backup].tree EXCEPT !.options = backups[job.backup].config]
           /\ record = tree.options
      [] job.outcome = "failed" -> tree = job.found
=============================================================================
