------------------------- MODULE StateRestoreProofs -------------------------
(***************************************************************************)
(* Safety of StateRestore for every number of trees.                       *)
(***************************************************************************)
EXTENDS StateRestore, TLAPS

(* Where the trees are at each call of an exchange, its undo and its repair *)
Placed ==
    /\ ~Journaled => live # 0 /\ previous = 0
    /\ live # 0 \/ previous # 0
    /\ pc \in TrySteps \cup {"undo", "undo-journal", "repair-aside", "repair-back",
                             "repair-journal"} => Journaled
    /\ pc \in {"prepare", "move-live", "mark-moved", "move-staging"} => staging # 0
    /\ pc = "down" /\ task = "restore" => staging # 0
    /\ pc \in {"move-live", "undo-journal", "repair-journal"} => live # 0 /\ previous = 0
    /\ pc \in {"mark-moved", "move-staging", "repair-back"} => live = 0 /\ previous # 0
    /\ pc \in {"mark-activated", "disarm", "mark-restored", "commit", "repair-aside"} =>
           live # 0 /\ previous # 0

(* Staging, current and retained trees are different trees *)
Distinct ==
    /\ live <= made /\ previous <= made /\ staging <= made
    /\ \A t \in rollbacks : t <= made
    /\ live \notin rollbacks /\ previous \notin rollbacks
    /\ live # 0 => live # previous
    /\ staging # 0 => staging # live /\ staging # previous /\ staging \notin rollbacks
    /\ pc = "extract" \/ (pc = "down" /\ task = "import") => made < MaxTrees

(* When Home Assistant may be running, and on which tree *)
MayRun(tree) == (tree = 1 => seeded) /\ (tree > 1 => tree \in approved)

Stopped ==
    /\ Journaled => ~Running
    /\ Running => MayRun(live)
    /\ pc = "prepare" => ~Running
    /\ pc = "extract" /\ ~(task = "restore" /\ active) => ~Running
    /\ pc = "down" => task \in {"restore", "import", "backup", "deactivate"}
    /\ pc = "tar" => task = "backup"
    /\ pc \in {"down", "tar"} /\ task = "backup" /\ active => ~Journaled /\ MayRun(live)

(* What activated.json and restored.json say about the current tree *)
Gated ==
    /\ armed /\ Current > 1 => Current \in approved
    /\ Current > 1 => marked
    /\ pc \in {"mark-restored", "commit"} => ~armed
    /\ pc = "commit" => marked

IInv == TypeOK /\ Placed /\ Distinct /\ Stopped /\ Gated

(* Every step keeps every variable's shape *)
LEMMA TypeStep ==
    ASSUME IInv, [Next]_vars
    PROVE  TypeOK'
<1> USE TreesAssumption DEF IInv, TypeOK, Placed, Distinct, Trees, TrySteps,
    OwnsStaging, Step, trees, gate, history, Journaled, Running, HasState, Current
<1>1. CASE UNCHANGED vars
  BY <1>1 DEF vars
<1>2. CASE Command
  <2>1. ASSUME NEW offline \in BOOLEAN, BeginRestore(offline)
        PROVE  TypeOK'
    BY <2>1, SMTT(30) DEF BeginRestore, Begin
  <2>2. ASSUME NEW offline \in BOOLEAN, BeginImport(offline)
        PROVE  TypeOK'
    BY <2>2, SMTT(30) DEF BeginImport, Begin
  <2>3. ASSUME NEW offline \in BOOLEAN, BeginBackup(offline)
        PROVE  TypeOK'
    BY <2>3, SMTT(30) DEF BeginBackup, Begin
  <2>4. ASSUME NEW onboarding \in BOOLEAN, Up(onboarding)
        PROVE  TypeOK'
    BY <2>4, SMTT(30) DEF Up
  <2>5. CASE BeginRecover
    BY <2>5, SMTT(30) DEF BeginRecover, Begin, Fresh
  <2>6. CASE BeginDeactivate
    BY <2>6, SMTT(30) DEF BeginDeactivate, Begin
  <2>7. CASE Down
    BY <2>7, SMTT(30) DEF Down
  <2>8. CASE Activate
    <3>1. armed' \in BOOLEAN
      BY <2>8, Zenon DEF Activate
    <3>2. stoodDown' \in BOOLEAN
      BY <2>8, Zenon DEF Activate
    <3> QED BY <2>8, <3>1, <3>2, SMTT(30) DEF Activate
  <2> QED BY <1>2, <2>1, <2>2, <2>3, <2>4, <2>5, <2>6, <2>7, <2>8 DEF Command
<1>3. CASE BeginRepair
  BY <1>3, SMTT(30) DEF BeginRepair
<1>4. CASE Exchange
  <2>1. CASE Extract
    BY <2>1, SMTT(30) DEF Extract
  <2>2. CASE Prepare
    BY <2>2, SMTT(30) DEF Prepare
  <2>3. CASE PrepareRefused
    BY <2>3, SMTT(30) DEF PrepareRefused
  <2>4. CASE MoveLive
    BY <2>4, SMTT(30) DEF MoveLive
  <2>5. CASE MarkMoved
    BY <2>5, SMTT(30) DEF MarkMoved
  <2>6. CASE MoveStaging
    BY <2>6, SMTT(30) DEF MoveStaging
  <2>7. CASE MarkActivated
    BY <2>7, SMTT(30) DEF MarkActivated
  <2>8. CASE Disarm
    <3>1. armed' \in BOOLEAN
      BY <2>8, Zenon DEF Disarm
    <3> QED BY <2>8, <3>1, SMTT(30) DEF Disarm
  <2>9. CASE MarkRestored
    BY <2>9, SMTT(30) DEF MarkRestored
  <2>10. CASE Commit
    BY <2>10, SMTT(30) DEF Commit
  <2>11. CASE Settings
    BY <2>11, SMTT(30) DEF Settings
  <2>12. CASE Arm
    <3>1. armed' \in BOOLEAN
      BY <2>12, Zenon DEF Arm
    <3>2. stoodDown' \in BOOLEAN
      BY <2>12, Zenon DEF Arm
    <3> QED BY <2>12, <3>1, <3>2, SMTT(30) DEF Arm
  <2>13. CASE Undo
    BY <2>13, SMTT(30) DEF Undo
  <2>14. CASE NothingToUndo
    BY <2>14, SMTT(30) DEF NothingToUndo
  <2>15. CASE UndoJournal
    BY <2>15, SMTT(30) DEF UndoJournal
  <2>16. CASE Cleanup
    BY <2>16, SMTT(30) DEF Cleanup
<2> QED BY <1>4, <2>1, <2>2, <2>3, <2>4, <2>5, <2>6, <2>7, <2>8, <2>9, <2>10, <2>11,
      <2>12, <2>13, <2>14, <2>15, <2>16 DEF Exchange
<1>5. CASE Repair
  <2>1. CASE RepairAside
    BY <2>1, SMTT(30) DEF RepairAside
  <2>2. CASE RepairBack
    BY <2>2, SMTT(30) DEF RepairBack
  <2>3. CASE RepairJournal
    BY <2>3, SMTT(30) DEF RepairJournal
  <2>4. CASE RepairDisarm
    <3>1. armed' \in BOOLEAN
      BY <2>4, Zenon DEF RepairDisarm
    <3> QED BY <2>4, <3>1, SMTT(30) DEF RepairDisarm
  <2> QED BY <1>5, <2>1, <2>2, <2>3, <2>4 DEF Repair
<1>6. CASE Quiesce
  <2>1. ha' = "none" /\ UNCHANGED <<trees, journal, gate, history, task, active>>
    BY <1>6 DEF Quiesce
  <2>2. CASE task = "restore"
    <3>1. pc' = "prepare" /\ pc = "down"
      BY <1>6, <2>2 DEF Quiesce
    <3> QED BY <2>1, <2>2, <3>1, SMTT(30)
  <2>3. CASE task = "import"
    <3>1. pc' = "extract" /\ pc = "down"
      BY <1>6, <2>3 DEF Quiesce
    <3> QED BY <2>1, <2>3, <3>1, SMTT(30)
  <2>4. CASE task = "backup"
    <3>1. pc' = "tar" /\ pc = "down"
      BY <1>6, <2>4 DEF Quiesce
    <3> QED BY <2>1, <2>4, <3>1, SMTT(30)
  <2>5. CASE task = "deactivate"
    <3>1. pc' = "deactivate"
      BY <1>6, <2>5 DEF Quiesce
    <3> QED BY <2>1, <2>5, <3>1, SMTT(30)
  <2>6. task \in {"restore", "import", "backup", "deactivate"}
    BY <1>6, SMT DEF Quiesce, Stopped
  <2> QED BY <2>2, <2>3, <2>4, <2>5, <2>6
<1>7. CASE BackupDone
  BY <1>7, SMTT(30) DEF BackupDone
<1>8. CASE Deactivated
  <2>1. armed' \in BOOLEAN
    BY <1>8, Zenon DEF Deactivated
  <2>2. stoodDown' \in BOOLEAN
    BY <1>8, Zenon DEF Deactivated
  <2> QED BY <1>8, <2>1, <2>2, SMTT(30) DEF Deactivated
<1>9. CASE Fault
  <2>1. CASE StepFails
    BY <2>1, SMTT(30) DEF StepFails
  <2>2. CASE Crash
    BY <2>2, SMTT(30) DEF Crash
  <2>3. CASE Reboot
    BY <2>3, SMTT(30) DEF Reboot
  <2> QED BY <1>9, <2>1, <2>2, <2>3 DEF Fault
<1> QED BY <1>1, <1>2, <1>3, <1>4, <1>5, <1>6, <1>7, <1>8, <1>9 DEF Next, Worker

(* Every step keeps the invariant *)
LEMMA InvariantStep ==
    ASSUME IInv, TypeOK', [Next]_vars
    PROVE  IInv'
<1> USE TreesAssumption DEF IInv, TypeOK, Placed, Distinct, Stopped, Gated, MayRun,
    Trees, TrySteps, OwnsStaging, Step, trees, gate, history, Journaled, Running,
    HasState, Current
<1>1. CASE UNCHANGED vars
  BY <1>1 DEF vars
<1>2. CASE Command
  <2>1. ASSUME NEW offline \in BOOLEAN, BeginRestore(offline)
        PROVE  IInv'
    BY <2>1, SMTT(30) DEF BeginRestore, Begin
  <2>2. ASSUME NEW offline \in BOOLEAN, BeginImport(offline)
        PROVE  IInv'
    BY <2>2, SMTT(30) DEF BeginImport, Begin
  <2>3. ASSUME NEW offline \in BOOLEAN, BeginBackup(offline)
        PROVE  IInv'
    <3>1. CASE offline
      <4>1. ~Running /\ pc' = "tar" /\ task' = "backup"
        BY <2>3, <3>1, SMT DEF BeginBackup, Begin
      <4>2. active' = FALSE
        BY <2>3, <4>1, Zenon DEF BeginBackup, Begin
      <4>3. UNCHANGED <<trees, journal, gate, ha, history>>
        BY <2>3 DEF BeginBackup, Begin
      <4> QED BY <4>1, <4>2, <4>3, SMTT(30)
    <3>2. CASE ~offline
      BY <2>3, <3>2, SMTT(30) DEF BeginBackup, Begin
    <3> QED BY <3>1, <3>2
  <2>4. ASSUME NEW onboarding \in BOOLEAN, Up(onboarding)
        PROVE  IInv'
    BY <2>4, SMTT(30) DEF Up
  <2>5. CASE BeginRecover
    BY <2>5, SMTT(30) DEF BeginRecover, Begin, Fresh
  <2>6. CASE BeginDeactivate
    BY <2>6, SMTT(30) DEF BeginDeactivate, Begin
  <2>7. CASE Down
    BY <2>7, SMTT(30) DEF Down
  <2>8. CASE Activate
    BY <2>8, SMTT(30) DEF Activate
  <2> QED BY <1>2, <2>1, <2>2, <2>3, <2>4, <2>5, <2>6, <2>7, <2>8 DEF Command
<1>3. CASE BeginRepair
  BY <1>3, SMTT(30) DEF BeginRepair
<1>4. CASE Exchange
  <2>1. CASE Extract
    BY <2>1, SMTT(30) DEF Extract
  <2>2. CASE Prepare
    BY <2>2, SMTT(30) DEF Prepare
  <2>3. CASE PrepareRefused
    BY <2>3, SMTT(30) DEF PrepareRefused
  <2>4. CASE MoveLive
    BY <2>4, SMTT(30) DEF MoveLive
  <2>5. CASE MarkMoved
    BY <2>5, SMTT(30) DEF MarkMoved
  <2>6. CASE MoveStaging
    BY <2>6, SMTT(30) DEF MoveStaging
  <2>7. CASE MarkActivated
    BY <2>7, SMTT(30) DEF MarkActivated
  <2>8. CASE Disarm
    BY <2>8, SMTT(30) DEF Disarm
  <2>9. CASE MarkRestored
    BY <2>9, SMTT(30) DEF MarkRestored
  <2>10. CASE Commit
    BY <2>10, SMTT(30) DEF Commit
  <2>11. CASE Settings
    BY <2>11, SMTT(30) DEF Settings
  <2>12. CASE Arm
    BY <2>12, SMTT(30) DEF Arm
  <2>13. CASE Undo
    BY <2>13, SMTT(30) DEF Undo
  <2>14. CASE NothingToUndo
    BY <2>14, SMTT(30) DEF NothingToUndo
  <2>15. CASE UndoJournal
    BY <2>15, SMTT(30) DEF UndoJournal
  <2>16. CASE Cleanup
    BY <2>16, SMTT(30) DEF Cleanup
<2> QED BY <1>4, <2>1, <2>2, <2>3, <2>4, <2>5, <2>6, <2>7, <2>8, <2>9, <2>10, <2>11,
      <2>12, <2>13, <2>14, <2>15, <2>16 DEF Exchange
<1>5. CASE Repair
  <2>1. CASE RepairAside
    BY <2>1, SMTT(30) DEF RepairAside
  <2>2. CASE RepairBack
    BY <2>2, SMTT(30) DEF RepairBack
  <2>3. CASE RepairJournal
    BY <2>3, SMTT(30) DEF RepairJournal
  <2>4. CASE RepairDisarm
    BY <2>4, SMTT(30) DEF RepairDisarm
  <2> QED BY <1>5, <2>1, <2>2, <2>3, <2>4 DEF Repair
<1>6. CASE Quiesce
  <2>1. ha' = "none" /\ UNCHANGED <<trees, journal, gate, history, task, active>>
    BY <1>6 DEF Quiesce
  <2>2. CASE task = "restore"
    <3>1. pc' = "prepare" /\ pc = "down"
      BY <1>6, <2>2 DEF Quiesce
    <3> QED BY <2>1, <2>2, <3>1, SMTT(30)
  <2>3. CASE task = "import"
    <3>1. pc' = "extract" /\ pc = "down"
      BY <1>6, <2>3 DEF Quiesce
    <3> QED BY <2>1, <2>3, <3>1, SMTT(30)
  <2>4. CASE task = "backup"
    <3>1. pc' = "tar" /\ pc = "down"
      BY <1>6, <2>4 DEF Quiesce
    <3> QED BY <2>1, <2>4, <3>1, SMTT(30)
  <2>5. CASE task = "deactivate"
    <3>1. pc' = "deactivate"
      BY <1>6, <2>5 DEF Quiesce
    <3> QED BY <2>1, <2>5, <3>1, SMTT(30)
  <2>6. task \in {"restore", "import", "backup", "deactivate"}
    BY <1>6, SMT DEF Quiesce
  <2> QED BY <2>2, <2>3, <2>4, <2>5, <2>6
<1>7. CASE BackupDone
  BY <1>7, SMTT(30) DEF BackupDone
<1>8. CASE Deactivated
  BY <1>8, SMTT(30) DEF Deactivated
<1>9. CASE Fault
  <2>1. CASE StepFails
    BY <2>1, SMTT(30) DEF StepFails
  <2>2. CASE Crash
    BY <2>2, SMTT(30) DEF Crash
  <2>3. CASE Reboot
    BY <2>3, SMTT(30) DEF Reboot
  <2> QED BY <1>9, <2>1, <2>2, <2>3 DEF Fault
<1> QED BY <1>1, <1>2, <1>3, <1>4, <1>5, <1>6, <1>7, <1>8, <1>9 DEF Next, Worker

(* Every reachable state satisfies the inductive invariant: the journal, the   *)
(* directories, the two gate files and the container stay related as Placed,   *)
(* Distinct, Stopped and Gated say, wherever a command fails or dies.          *)
THEOREM Invariance == Spec => []IInv
<1>1. Init => IInv
  <2> SUFFICES ASSUME Init PROVE IInv
    OBVIOUS
  <2> USE TreesAssumption DEF Init, Trees, Journaled, Running, Current
  <2>1. armed \in BOOLEAN /\ marked \in BOOLEAN /\ seeded \in BOOLEAN
        /\ active \in BOOLEAN /\ stoodDown \in BOOLEAN
    BY Zenon
  <2>2. TypeOK
    BY <2>1, SMT DEF TypeOK, TrySteps, OwnsStaging
  <2>3. Placed /\ Distinct /\ Stopped /\ Gated
    BY SMT DEF Placed, Distinct, Stopped, Gated, TrySteps
  <2> QED BY <2>2, <2>3 DEF IInv
<1>2. IInv /\ [Next]_vars => IInv'
  <2> SUFFICES ASSUME IInv, [Next]_vars PROVE IInv'
    OBVIOUS
  <2>1. TypeOK'
    BY TypeStep
  <2> QED BY <2>1, InvariantStep
<1> QED BY <1>1, <1>2, PTL DEF Spec

(* Directories, journal and gate files keep the shapes the code gives them,    *)
(* however many trees there are.                                               *)
THEOREM TypeCorrect == Spec => []TypeOK
<1>1. IInv => TypeOK
  BY DEF IInv
<1> QED BY Invariance, <1>1, PTL

(* No restored or imported tree runs before production was armed for it.       *)
THEOREM ImportsWaitForApproval == Spec => []ImportedRunsApproved
<1>1. IInv => ImportedRunsApproved
  BY SMT DEF IInv, Stopped, MayRun, ImportedRunsApproved
<1> QED BY Invariance, <1>1, PTL

(* Without a journal the data directory is there and nothing is left aside.    *)
THEOREM Settles == Spec => []SettledHasState
<1>1. IInv => SettledHasState
  BY DEF IInv, Placed, SettledHasState
<1> QED BY Invariance, <1>1, PTL

(* Every journal repair-restore may find names a tree that exists.             *)
THEOREM JournalsRecover == Spec => []JournalRecoverable
<1>1. IInv => JournalRecoverable
  BY DEF IInv, Placed, Stopped, JournalRecoverable
<1> QED BY Invariance, <1>1, PTL

(* The directory renames happen under a journal, and under a journal nothing   *)
(* runs.                                                                        *)
LEMMA OnlyJournaledSwaps ==
    ASSUME IInv, [Next]_vars, live' # live
    PROVE  Journaled /\ ha' = ha
<1> USE DEF Step, trees
<1>1. CASE MoveLive \/ MoveStaging \/ Undo \/ RepairAside \/ RepairBack
  BY <1>1, SMT
  DEF IInv, Placed, TrySteps, MoveLive, MoveStaging, Undo, RepairAside, RepairBack
<1>2. CASE ~(MoveLive \/ MoveStaging \/ Undo \/ RepairAside \/ RepairBack)
  BY <1>2, SMT
  DEF Next, vars, Command, BeginRestore, BeginImport, BeginBackup, BeginRecover,
      BeginDeactivate, Begin, Up, Down, Activate, BeginRepair, Worker, Exchange, Extract,
      Prepare, PrepareRefused, MarkMoved, MarkActivated, Disarm, MarkRestored, Commit,
      Settings, Arm, NothingToUndo, UndoJournal, Cleanup, Repair, RepairJournal,
      RepairDisarm, Quiesce, BackupDone, Deactivated, Fault, StepFails, Crash, Reboot
<1> QED BY <1>1, <1>2

(* The data directory is never exchanged under a running Home Assistant.       *)
THEOREM SwapsWhileStopped == Spec => SwapsOnlyStopped
<1>1. IInv /\ [Next]_vars => [live' # live => ~Running /\ ~Running']_vars
  <2> SUFFICES ASSUME IInv, [Next]_vars, live' # live
               PROVE  ~Running /\ ~Running'
    OBVIOUS
  <2>1. Journaled /\ ha' = ha
    BY OnlyJournaledSwaps
  <2> QED BY <2>1 DEF IInv, Stopped, Running
<1> QED BY Invariance, <1>1, PTL DEF Spec, SwapsOnlyStopped

-----------------------------------------------------------------------------
(* The refinement *)

KeptVars == <<Current, rollbacks>>

(* Until its journal is gone an exchange shows nothing of itself               *)
LEMMA CommitReplaces ==
    ASSUME IInv, TypeOK', Commit
    PROVE  Kept!Replace
<1>1. /\ live # 0 /\ previous # 0 /\ live # previous /\ live \notin rollbacks
      /\ live \in Trees
  BY SMT DEF IInv, TypeOK, Trees, Placed, Distinct, Commit, Step, TrySteps
<1>2. Current = previous /\ Current' = live /\ rollbacks' = rollbacks \cup {previous}
  BY <1>1 DEF Current, Commit
<1> QED BY <1>1, <1>2, SMT DEF Kept!Replace, Kept!Trees, Trees

LEMMA OthersStutter ==
    ASSUME IInv, [Next]_vars, ~Commit
    PROVE  UNCHANGED KeptVars
<1> USE DEF Step, trees, KeptVars, Current
<1>1. CASE MoveLive \/ MoveStaging \/ Undo \/ RepairAside \/ RepairBack
  BY <1>1, SMT DEF IInv, Placed, MoveLive, MoveStaging, Undo, RepairAside, RepairBack
<1>2. CASE ~(MoveLive \/ MoveStaging \/ Undo \/ RepairAside \/ RepairBack)
  <2>1. UNCHANGED <<live, previous, rollbacks>>
    BY <1>2, SMT
    DEF Next, vars, Command, BeginRestore, BeginImport, BeginBackup, BeginRecover,
        BeginDeactivate, Begin, Up, Down, Activate, BeginRepair, Worker, Exchange, Extract,
        Prepare, PrepareRefused, MarkMoved, MarkActivated, Disarm, MarkRestored, Settings,
        Arm, NothingToUndo, UndoJournal, Cleanup, Repair, RepairJournal, RepairDisarm,
        Quiesce, BackupDone, Deactivated, Fault, StepFails, Crash, Reboot
  <2> QED BY <2>1
<1> QED BY <1>1, <1>2

(* Restore, import, undo and repair implement Household: the unlink of the     *)
(* journal is its Replace step, everything else is invisible.                  *)
THEOREM RefinesHousehold == Spec => ReplacesWhole
<1>1. Init => Kept!Init
  BY DEF Init, Kept!Init, Current
<1>2. IInv /\ IInv' /\ [Next]_vars => [Kept!Replace]_KeptVars
  BY CommitReplaces, OthersStutter DEF IInv
<1> QED BY Invariance, <1>1, <1>2, PTL DEF Spec, ReplacesWhole, Kept!Spec, KeptVars
=============================================================================
