------------------------ MODULE AppTransactionProofs ------------------------
(***************************************************************************)
(* Safety of AppTransaction for every number of versions, every choice of  *)
(* autostart options and grants, catalog apps and add-ons alike.           *)
(***************************************************************************)
EXTENDS AppTransaction, TLAPS

(* The record a replacement writes once its container exists *)
NewRecord == [ver |-> journal.new, installed |-> TRUE]

(* Which journal phase the lock holder can be working under at each call *)
PhaseAt ==
    /\ pc \in {"set-policy", "start-only", "stop", "remove", "remove-only", "remove-record",
               "seed", "journal", "report"} => journal.phase = "none"
    /\ pc = "manifest" => journal.phase \in {"first-install", "stopping"}
    /\ pc \in {"policy", "quiesce", "copy", "copying", "options", "mark-copied",
               "old-policy"} => journal.phase = "stopping"
    /\ pc \in {"remove-old", "start-new", "set-aside", "refill", "refilling",
               "recreate"} => journal.phase = "copied"
    /\ pc = "drop-manifest" => journal.phase = "first-install"
    /\ pc \in {"create", "record", "commit", "discard-stop", "discard",
               "old-record"} => journal.phase \in {"first-install", "copied"}
    /\ pc = "old-start" => journal.phase \in {"stopping", "copied"}
    /\ pc \in {"repair", "repaired"} => journal.phase # "none"

(* Versions only move forward, and a container always has data it can read *)
Readable ==
    /\ Present => data.state = "whole" /\ data.fmt <= container.image
    /\ record.installed => record.ver # 0
    /\ pc \in {"seed", "journal"} => target >= record.ver
    /\ pc \in {"manifest", "create", "record", "start-new", "commit"} \cup TryCalls =>
           journal.new = target

(* What each phase of the journal says about the other files and the container *)
Settled ==
    journal.phase = "none" =>
        /\ Present => record.installed /\ record.ver = container.image
        /\ data.state # "torn"
        /\ data.fmt <= record.ver
        /\ record.ver # 0 \/ pc = "journal" => data.state = "whole"
        /\ pc \in {"seed", "remove-record"} => ~Present
        /\ pc \in {"set-policy", "start-only"} => Present

FirstInstall ==
    journal.phase = "first-install" =>
        /\ record \in {journal.old, NewRecord}
        /\ journal.old.installed => journal.old.ver # 0
        /\ data.state = "whole" /\ data.fmt <= journal.old.ver
        /\ journal.old.ver <= journal.new
        /\ ~journal.running
        /\ Present => container.image = journal.new /\ container.status = "created"
        /\ Present => ~container.auto
        /\ pc \in {"manifest", "create", "old-record", "drop-manifest", "repaired"} => ~Present
        /\ pc \in {"manifest", "create", "drop-manifest", "repaired"} => record = journal.old

Stopping ==
    journal.phase = "stopping" =>
        /\ record = journal.old
        /\ record.installed
        /\ Present
        /\ container.image = record.ver
        /\ record.ver <= journal.new
        /\ pc \in {"manifest", "policy"} /\ ~journal.running => ~Running
        /\ pc \in {"copy", "copying", "options", "mark-copied"} => ~Running
        /\ pc \in {"options", "mark-copied"} =>
               /\ snapshot.state = data.state
               /\ snapshot.fmt = data.fmt
               /\ snapshot.gen = data.gen

(* Whatever the data holds beyond the rollback copy was written by version v *)
SinceCopy(v) ==
    /\ data.state = "whole"
    /\ \/ data.fmt = snapshot.fmt /\ data.gen = snapshot.gen
       \/ data.fmt = v /\ data.gen > snapshot.gen

Copied ==
    journal.phase = "copied" =>
        /\ record \in {journal.old, NewRecord}
        /\ journal.old.installed /\ journal.old.ver # 0
        /\ journal.old.ver <= journal.new
        /\ snapshot.state = "whole" /\ snapshot.fmt <= journal.old.ver
        /\ pc = "remove-old" => ~Running
        /\ pc \in {"create", "set-aside", "refill", "refilling", "recreate"} => ~Present
        /\ pc \in {"remove-old", "create"} =>
               data.fmt = snapshot.fmt /\ data.gen = snapshot.gen
        /\ pc \in {"remove-old", "create", "record", "start-new", "commit"} =>
               SinceCopy(journal.new)
        /\ pc = "recreate" => data = snapshot
        /\ pc \in {"old-record", "old-start", "repaired"} => SinceCopy(journal.old.ver)
        /\ pc \in {"old-record", "old-start", "repaired"} =>
               Present /\ container.image = journal.old.ver
        /\ pc \in {"old-start", "repaired"} => record = journal.old

(* The calls that end a replacement have brought back what ran before it *)
Committing ==
    /\ pc \in {"record", "start-new", "commit"} => Present /\ container.image = journal.new
    /\ pc \in {"start-new", "commit"} =>
           record = NewRecord
    /\ pc \in {"commit", "repaired"} /\ journal.running => Running

IInv ==
    /\ TypeOK
    /\ PhaseAt /\ Readable /\ Settled /\ FirstInstall /\ Stopping /\ Copied /\ Committing

-----------------------------------------------------------------------------
(* Record updates the provers need spelled out *)

LEMMA PolicyUpdate ==
    \A c \in Containers, b \in BOOLEAN : [c EXCEPT !.auto = b] \in Containers
BY SMT DEF Containers

LEMMA InstalledUpdate ==
    \A r \in Records, b \in BOOLEAN : [r EXCEPT !.installed = b] \in Records
BY SMT DEF Records

LEMMA WriteUpdate ==
    ASSUME NEW d \in Contents, NEW f \in 0..MaxVersion, NEW n \in 0..MaxWrites
    PROVE  [d EXCEPT !.fmt = f, !.gen = n] \in Contents
<1>1. \A c \in Contents : [c EXCEPT !.gen = n] \in Contents
  BY SMT DEF Contents
<1>2. [d EXCEPT !.fmt = f] \in Contents
  BY SMT DEF Contents
<1>3. [[d EXCEPT !.fmt = f] EXCEPT !.gen = n] \in Contents
  BY <1>1, <1>2, Zenon
<1> QED BY <1>3, SMT

LEMMA SeedUpdate ==
    ASSUME NEW d \in Contents, NEW s \in {"none", "torn", "whole"}, NEW o \in 0..MaxVersion
    PROVE  [d EXCEPT !.state = s, !.options = o] \in Contents
<1>1. \A c \in Contents : [c EXCEPT !.options = o] \in Contents
  BY SMT DEF Contents
<1>2. [d EXCEPT !.state = s] \in Contents
  BY SMT DEF Contents
<1>3. [[d EXCEPT !.state = s] EXCEPT !.options = o] \in Contents
  BY <1>1, <1>2, Zenon
<1> QED BY <1>3, SMT

(* Every step keeps every variable's shape *)
LEMMA TypeStep ==
    ASSUME TypeOK, [Next]_vars
    PROVE  TypeOK'
<1>0. kind' = kind
  BY DEF Next, vars
<1> USE ConstantsAssumption, <1>0
    DEF TypeOK, Versions, Records, Contents, Journals, Containers, TryCalls, NoRecord, NoJournal, NoContainer, NoData,
        disk, worker, Present, Running, Journaled, Goto, DockerCall, FileCall, Finish
<1>1. CASE UNCHANGED vars
  BY <1>1 DEF vars
<1>2. CASE Lifecycle
  <2>1. CASE SetPolicy
    <3>1. (record.ver \in Autostart) \in BOOLEAN
      OBVIOUS
    <3>2. container' \in Containers
      BY <2>1, <3>1, PolicyUpdate, Zenon DEF SetPolicy
    <3> QED BY <2>1, <3>2, SMTT(30) DEF SetPolicy
  <2>2. CASE StartOnly
    BY <2>2, SMTT(30) DEF StartOnly
  <2>3. CASE StopOnly
    BY <2>3, SMTT(30) DEF StopOnly, Stopped
  <2>4. CASE StopToRemove
    BY <2>4, SMTT(30) DEF StopToRemove, Stopped
  <2>5. CASE RemoveOnly
    <3>1. container' \in Containers
      BY <2>5, SMTT(30) DEF RemoveOnly
    <3> QED BY <2>5, <3>1, SMTT(30) DEF RemoveOnly
  <2>6. CASE RemoveRecord
    <3>1. record' \in Records
      BY <2>6, InstalledUpdate, Zenon DEF RemoveRecord
    <3> QED BY <2>6, <3>1, SMTT(30) DEF RemoveRecord
  <2> QED BY <1>2, <2>1, <2>2, <2>3, <2>4, <2>5, <2>6 DEF Lifecycle
<1>3. CASE Replace
  <2>1. CASE Seed
    <3> DEFINE state == IF data.state = "none" THEN "whole" ELSE data.state
               options == IF Addon THEN target ELSE data.options
    <3>1. state \in {"none", "torn", "whole"} /\ options \in 0..MaxVersion
      BY SMT
    <3>2. data' = [data EXCEPT !.state = state, !.options = options]
      BY <2>1, Zenon DEF Seed
    <3>3. data' \in Contents
      <4> HIDE DEF state, options, Contents
      <4> QED BY <3>1, <3>2, SeedUpdate, Zenon
    <3> QED BY <2>1, <3>3, SMTT(30) DEF Seed
  <2>2. CASE WriteJournal
    BY <2>2, SMTT(30) DEF WriteJournal
  <2>3. CASE SaveManifest
    BY <2>3, SMTT(30) DEF SaveManifest
  <2>4. CASE DisablePolicy
    <3>1. container' \in Containers
      BY <2>4, PolicyUpdate, Zenon DEF DisablePolicy
    <3> QED BY <2>4, <3>1, SMTT(30) DEF DisablePolicy
  <2>5. CASE Quiesce
    BY <2>5, SMTT(30) DEF Quiesce, Stopped
  <2>6. CASE CopyBegins
    BY <2>6, SMTT(30) DEF CopyBegins, Torn
  <2>7. CASE CopyEnds
    BY <2>7, SMTT(30) DEF CopyEnds
  <2>8. CASE WriteOptions
    BY <2>8, SMTT(30) DEF WriteOptions
  <2>9. CASE MarkCopied
    BY <2>9, SMTT(30) DEF MarkCopied
  <2>10. CASE RemoveOld
    BY <2>10, SMTT(30) DEF RemoveOld
  <2>11. CASE Create
    BY <2>11, SMTT(30) DEF Create
  <2>12. CASE WriteRecord
    BY <2>12, SMTT(30) DEF WriteRecord
  <2>13. CASE StartNew
    BY <2>13, SMTT(30) DEF StartNew
  <2>14. CASE Commit
    BY <2>14, SMTT(30) DEF Commit
  <2>15. CASE Report
    BY <2>15, SMTT(30) DEF Report
  <2> QED BY <1>3, <2>1, <2>2, <2>3, <2>4, <2>5, <2>6, <2>7, <2>8, <2>9, <2>10,
    <2>11, <2>12, <2>13, <2>14, <2>15 DEF Replace
<1>4. CASE Repair
  <2>1. CASE RepairFirstInstall
    <3>1. container' \in Containers
      BY <2>1, PolicyUpdate, Zenon DEF RepairFirstInstall
    <3> QED BY <2>1, <3>1, SMTT(30) DEF RepairFirstInstall
  <2>2. CASE RepairManifest
    BY <2>2, SMTT(30) DEF RepairManifest
  <2>3. CASE OldPolicy
    <3>1. (journal.old.ver \in Autostart) \in BOOLEAN
      OBVIOUS
    <3>2. container' \in Containers
      BY <2>3, <3>1, PolicyUpdate, Zenon DEF OldPolicy
    <3> QED BY <2>3, <3>2, SMTT(30) DEF OldPolicy
  <2>4. CASE DiscardStop
    BY <2>4, SMTT(30) DEF DiscardStop, Stopped
  <2>5. CASE Discard
    BY <2>5, SMTT(30) DEF Discard
  <2>6. CASE SetAside
    BY <2>6, SMTT(30) DEF SetAside
  <2>7. CASE RefillBegins
    BY <2>7, SMTT(30) DEF RefillBegins, Torn
  <2>8. CASE RefillEnds
    BY <2>8, SMTT(30) DEF RefillEnds
  <2>9. CASE Recreate
    BY <2>9, SMTT(30) DEF Recreate, Refused, SeenManifest
  <2>10. CASE RecreateRefused
    BY <2>10, SMTT(30) DEF RecreateRefused, Refused, SeenManifest
  <2>11. CASE OldRecord
    BY <2>11, SMTT(30) DEF OldRecord
  <2>12. CASE DropManifest
    BY <2>12, SMTT(30) DEF DropManifest
  <2>13. CASE OldStart
    BY <2>13, SMTT(30) DEF OldStart
  <2>14. CASE Repaired
    BY <2>14, SMTT(30) DEF Repaired
  <2> QED BY <1>4, <2>1, <2>2, <2>3, <2>4, <2>5, <2>6, <2>7, <2>8, <2>9, <2>10,
    <2>11, <2>12, <2>13, <2>14 DEF Repair
<1>5. CASE Request
  <2>1. ASSUME NEW v \in Versions, BeginReplace(v) PROVE TypeOK'
    BY <2>1, SMTT(30) DEF BeginReplace, Begin
  <2>2. ASSUME NEW goal \in {"stop", "remove"}, BeginStop(goal) PROVE TypeOK'
    BY <2>2, SMTT(30) DEF BeginStop, Begin
  <2>3. CASE BeginStart
    BY <2>3, SMTT(30) DEF BeginStart, Begin
  <2> QED BY <1>5, <2>1, <2>2, <2>3 DEF Request
<1>6. CASE BeginRepair
  BY <1>6, SMTT(30) DEF BeginRepair
<1>7. CASE AppWrites
  <2>1. container.image \in 0..MaxVersion /\ data.gen + 1 \in 0..MaxWrites
    BY <1>7, SMT DEF AppWrites
  <2>2. data' \in Contents
    <3> HIDE DEF Contents
    <3> QED BY <1>7, <2>1, WriteUpdate, Zenon DEF AppWrites
  <2> QED BY <1>7, <2>2, SMTT(30) DEF AppWrites
<1>8. CASE Fault
  <2>1. CASE CallFails
    BY <2>1, SMTT(30) DEF CallFails
  <2>2. CASE Crash
    BY <2>2, SMTT(30) DEF Crash, Dies
  <2>3. CASE Reboot
    BY <2>3, SMTT(30) DEF Reboot, Dies, AfterBoot
  <2> QED BY <1>8, <2>1, <2>2, <2>3 DEF Fault
<1> QED BY <1>1, <1>2, <1>3, <1>4, <1>5, <1>6, <1>7, <1>8 DEF Next, Acts, Worker

(* Every step keeps the invariant *)
LEMMA InvariantStep ==
    ASSUME IInv, TypeOK', [Next]_vars
    PROVE  IInv'
<1> USE ConstantsAssumption
    DEF IInv, PhaseAt, Readable, Settled, FirstInstall, Stopping, Copied, Committing,
        TypeOK, Versions, Records, Contents, Journals, Containers, TryCalls, NoRecord, NoJournal, NoContainer, NoData,
        SinceCopy, NewRecord, disk, worker, Present, Running, Journaled, Goto, DockerCall, FileCall, Finish
<1>1. CASE UNCHANGED vars
  BY <1>1 DEF vars
<1>2. CASE Lifecycle
  <2>1. CASE SetPolicy
    BY <2>1, SMTT(30) DEF SetPolicy
  <2>2. CASE StartOnly
    BY <2>2, SMTT(30) DEF StartOnly
  <2>3. CASE StopOnly
    BY <2>3, SMTT(30) DEF StopOnly, Stopped
  <2>4. CASE StopToRemove
    BY <2>4, SMTT(30) DEF StopToRemove, Stopped
  <2>5. CASE RemoveOnly
    BY <2>5, SMTT(30) DEF RemoveOnly
  <2>6. CASE RemoveRecord
    BY <2>6, SMTT(30) DEF RemoveRecord
  <2> QED BY <1>2, <2>1, <2>2, <2>3, <2>4, <2>5, <2>6 DEF Lifecycle
<1>3. CASE Replace
  <2>1. CASE Seed
    BY <2>1, SMTT(30) DEF Seed
  <2>2. CASE WriteJournal
    <3>1. /\ journal'.old = record /\ journal'.new = target
          /\ journal'.running = Running /\ snapshot' = NoData
      BY <2>2, SMT DEF WriteJournal
    <3>2. UNCHANGED <<record, data, container, target>> /\ pc' \in {"manifest", "policy", "create"}
      BY <2>2, SMT DEF WriteJournal
    <3>3. journal.phase = "none" /\ target >= record.ver /\ data.state = "whole"
      BY <2>2, SMT DEF WriteJournal
    <3> HIDE DEF NewRecord
    <3>4. CASE Present
      <4>1. journal'.phase = "stopping" /\ pc' \in {"manifest", "policy"}
        BY <2>2, <3>4, SMT DEF WriteJournal
      <4> QED BY <3>1, <3>2, <3>3, <3>4, <4>1, SMTT(30)
    <3>5. CASE ~Present
      <4>1. journal'.phase = "first-install" /\ pc' \in {"manifest", "create"}
        BY <2>2, <3>5, SMT DEF WriteJournal
      <4> QED BY <3>1, <3>2, <3>3, <3>5, <4>1, SMTT(30)
    <3> QED BY <3>4, <3>5
  <2>3. CASE SaveManifest
    BY <2>3, SMTT(30) DEF SaveManifest
  <2>4. CASE DisablePolicy
    BY <2>4, SMTT(30) DEF DisablePolicy
  <2>5. CASE Quiesce
    BY <2>5, SMTT(30) DEF Quiesce, Stopped
  <2>6. CASE CopyBegins
    BY <2>6, SMTT(30) DEF CopyBegins, Torn
  <2>7. CASE CopyEnds
    BY <2>7, SMTT(30) DEF CopyEnds
  <2>8. CASE WriteOptions
    BY <2>8, SMTT(30) DEF WriteOptions
  <2>9. CASE MarkCopied
    BY <2>9, SMTT(30) DEF MarkCopied
  <2>10. CASE RemoveOld
    BY <2>10, SMTT(30) DEF RemoveOld
  <2>11. CASE Create
    BY <2>11, SMTT(30) DEF Create
  <2>12. CASE WriteRecord
    <3>1. target = journal.new /\ journal'.new = journal.new
      BY <2>12, SMT DEF WriteRecord
    <3>2. record' = NewRecord /\ NewRecord' = NewRecord
      BY <2>12, <3>1, Zenon DEF WriteRecord
    <3>3. (record.installed => record.ver # 0)' /\ record'.installed /\ record'.ver = journal.new
      BY <2>12, <3>1, SMT DEF WriteRecord
    <3> HIDE DEF NewRecord
    <3> QED BY <2>12, <3>1, <3>2, <3>3, SMTT(30) DEF WriteRecord
  <2>13. CASE StartNew
    BY <2>13, SMTT(30) DEF StartNew
  <2>14. CASE Commit
    BY <2>14, SMTT(30) DEF Commit
  <2>15. CASE Report
    BY <2>15, SMTT(30) DEF Report
  <2> QED BY <1>3, <2>1, <2>2, <2>3, <2>4, <2>5, <2>6, <2>7, <2>8, <2>9, <2>10,
    <2>11, <2>12, <2>13, <2>14, <2>15 DEF Replace
<1>4. CASE Repair
  <2>1. CASE RepairFirstInstall
    BY <2>1, SMTT(30) DEF RepairFirstInstall
  <2>2. CASE RepairManifest
    BY <2>2, SMTT(30) DEF RepairManifest
  <2>3. CASE OldPolicy
    BY <2>3, SMTT(30) DEF OldPolicy
  <2>4. CASE DiscardStop
    BY <2>4, SMTT(30) DEF DiscardStop, Stopped
  <2>5. CASE Discard
    BY <2>5, SMTT(30) DEF Discard
  <2>6. CASE SetAside
    BY <2>6, SMTT(30) DEF SetAside
  <2>7. CASE RefillBegins
    BY <2>7, SMTT(30) DEF RefillBegins, Torn
  <2>8. CASE RefillEnds
    BY <2>8, SMTT(30) DEF RefillEnds
  <2>9. CASE Recreate
    BY <2>9, SMTT(30) DEF Recreate, Refused, SeenManifest
  <2>10. CASE RecreateRefused
    BY <2>10, SMTT(30) DEF RecreateRefused, Refused, SeenManifest
  <2>11. CASE OldRecord
    BY <2>11, SMTT(30) DEF OldRecord
  <2>12. CASE DropManifest
    BY <2>12, SMTT(30) DEF DropManifest
  <2>13. CASE OldStart
    BY <2>13, SMTT(30) DEF OldStart
  <2>14. CASE Repaired
    BY <2>14, SMTT(30) DEF Repaired
  <2> QED BY <1>4, <2>1, <2>2, <2>3, <2>4, <2>5, <2>6, <2>7, <2>8, <2>9, <2>10,
    <2>11, <2>12, <2>13, <2>14 DEF Repair
<1>5. CASE Request
  <2>1. ASSUME NEW v \in Versions, BeginReplace(v) PROVE IInv'
    BY <2>1, SMTT(30) DEF BeginReplace, Begin
  <2>2. ASSUME NEW goal \in {"stop", "remove"}, BeginStop(goal) PROVE IInv'
    BY <2>2, SMTT(30) DEF BeginStop, Begin
  <2>3. CASE BeginStart
    BY <2>3, SMTT(30) DEF BeginStart, Begin
  <2> QED BY <1>5, <2>1, <2>2, <2>3 DEF Request
<1>6. CASE BeginRepair
  BY <1>6, SMTT(30) DEF BeginRepair
<1>7. CASE AppWrites
  <2>1. Running /\ pc \notin {"create", "remove-old", "recreate"}
    BY <1>7, SMT DEF AppWrites
  <2>2. UNCHANGED <<record, journal, snapshot, container, pc, NewRecord>>
    BY <1>7, SMT DEF AppWrites
  <2>3. data'.state = data.state /\ data'.fmt = container.image /\ data'.gen > data.gen
    BY <1>7, SMT DEF AppWrites
  <2>4. Copied'
    <3> HIDE DEF NewRecord
    <3> QED BY <1>7, <2>1, <2>2, <2>3, SMTT(30)
  <2>5. PhaseAt' /\ Readable' /\ Settled' /\ FirstInstall'
    BY <1>7, SMTT(30) DEF AppWrites
  <2>6. Stopping' /\ Committing'
    BY <1>7, SMTT(30) DEF AppWrites
  <2> QED BY <2>4, <2>5, <2>6
<1>8. CASE Fault
  <2>1. CASE CallFails
    BY <2>1, SMTT(30) DEF CallFails
  <2>2. CASE Crash
    BY <2>2, SMTT(30) DEF Crash, Dies
  <2>3. CASE Reboot
    BY <2>3, SMTT(30) DEF Reboot, Dies, AfterBoot
  <2> QED BY <1>8, <2>1, <2>2, <2>3 DEF Fault
<1> QED BY <1>1, <1>2, <1>3, <1>4, <1>5, <1>6, <1>7, <1>8 DEF Next, Acts, Worker

(* Only the commit and the end of a repair remove a journal *)
LEMMA JournalEnds ==
    ASSUME TypeOK, Next, Journaled, journal'.phase = "none"
    PROVE  Commit \/ Repaired
<1> USE DEF Journaled
<1>1. CASE Lifecycle
  BY <1>1, SMT
  DEF Lifecycle, Goto, DockerCall, FileCall, disk, SetPolicy, StartOnly, StopOnly,
      StopToRemove, RemoveOnly, RemoveRecord
<1>2. CASE Replace
  <2>1. CASE WriteJournal
    BY <2>1, SMT DEF WriteJournal
  <2>2. CASE MarkCopied
    BY <2>2, SMT DEF MarkCopied, TypeOK, Journals
  <2> QED BY <1>2, <2>1, <2>2, SMT
  DEF Replace, Goto, DockerCall, FileCall, disk, Seed, SaveManifest, DisablePolicy,
      Quiesce, CopyBegins, CopyEnds, WriteOptions, RemoveOld, Create, WriteRecord,
      StartNew, Report
<1>3. CASE Repair
  BY <1>3, SMT
  DEF Repair, Goto, DockerCall, FileCall, disk, RepairFirstInstall, RepairManifest,
      OldPolicy, DiscardStop, Discard, SetAside, RefillBegins, RefillEnds, Recreate,
      RecreateRefused, OldRecord, DropManifest, OldStart
<1>4. CASE Request \/ BeginRepair \/ AppWrites \/ Fault
  BY <1>4, SMT
  DEF Request, BeginReplace, BeginStop, BeginStart, Begin, BeginRepair, AppWrites,
      Fault, CallFails, Crash, Reboot, disk
<1> QED BY <1>1, <1>2, <1>3, <1>4 DEF Next, Acts, Worker

-----------------------------------------------------------------------------
(* Every reachable state satisfies the inductive invariant: the calls of one   *)
(* replacement, its rollback and the app's own life keep the files, Docker and *)
(* the journal related as PhaseAt to Committing say, however calls fail.       *)
THEOREM Invariance == Spec => []IInv
<1>1. Init => IInv
  <2> SUFFICES ASSUME Init PROVE IInv
    OBVIOUS
  <2> USE ConstantsAssumption DEF Init, NoRecord, NoJournal, NoContainer, NoData, Present,
        Running
  <2>1. record \in Records /\ journal \in Journals /\ container \in Containers
    BY SMT DEF Records, Journals, Containers
  <2>2. data \in Contents /\ snapshot \in Contents
    BY SMT DEF Contents
  <2>3. TypeOK
    <3>1. manifest \in 0..MaxVersion /\ target \in Versions
      BY SMT DEF Versions
    <3> QED BY <2>1, <2>2, <3>1, Zenon DEF TypeOK
  <2>4. PhaseAt /\ Readable /\ Settled /\ Committing
    BY SMT DEF PhaseAt, Readable, Settled, Committing, TryCalls
  <2>5. FirstInstall /\ Stopping /\ Copied
    BY SMT DEF FirstInstall, Stopping, Copied
  <2> QED BY <2>3, <2>4, <2>5 DEF IInv
<1>2. IInv /\ [Next]_vars => IInv'
  <2> SUFFICES ASSUME IInv, [Next]_vars PROVE IInv'
    OBVIOUS
  <2>1. TypeOK'
    BY TypeStep DEF IInv
  <2> QED BY <2>1, InvariantStep
<1> QED BY <1>1, <1>2, PTL DEF Spec

(* The files, the container and the job file keep the shapes the code writes,  *)
(* for every number of versions and whatever calls fail.                       *)
THEOREM TypeCorrect == Spec => []TypeOK
<1>1. IInv => TypeOK
  BY DEF IInv
<1> QED BY Invariance, <1>1, PTL

(* The copy that repair() restores from is whole and readable by the old image *)
(* at every moment the journal is in phase "copied".                           *)
THEOREM RollbackCopySafe == Spec => []RollbackCopyUsable
<1>1. IInv => RollbackCopyUsable
  BY Zenon DEF IInv, Copied, RollbackCopyUsable
<1> QED BY Invariance, <1>1, PTL

(* No container ever runs on torn data, or on data newer than its image.       *)
THEOREM ImageReadsData == Spec => []NeverOldImageOnNewData
<1>1. IInv => NeverOldImageOnNewData
  BY SMT DEF IInv, Readable, NeverOldImageOnNewData, Present, Running
<1> QED BY Invariance, <1>1, PTL

(* Without a job and without a journal, record, data and container agree.      *)
THEOREM Settles == Spec => []SettledAgreement
<1>1. IInv => SettledAgreement
  BY SMT DEF IInv, TypeOK, Journals, Settled, SettledAgreement, Journaled
<1> QED BY Invariance, <1>1, PTL

(* The step that removes the journal of an app that had been running leaves it *)
(* running.                                                                     *)
THEOREM Resumes == Spec => ServiceResumes
<1>1. IInv /\ [Next]_vars =>
        [Journaled /\ journal'.phase = "none" /\ journal.running => Running']_vars
  <2> SUFFICES ASSUME IInv, Next, Journaled, journal'.phase = "none", journal.running
               PROVE  Running'
    BY DEF vars
  <2>1. (Commit \/ Repaired) => Running'
    BY SMT DEF IInv, Committing, Commit, Repaired, Running
  <2>2. Commit \/ Repaired
    BY JournalEnds DEF IInv
  <2> QED BY <2>1, <2>2
<1> QED BY Invariance, <1>1, PTL DEF Spec, ServiceResumes

-----------------------------------------------------------------------------
(* The refinement *)

AtomicVars == <<SettledRecord, Content(SettledData)>>

(* Steps that leave the files a settled app consists of alone *)
LEMMA FrameStutters ==
    ASSUME UNCHANGED <<record, data, journal, snapshot>>
    PROVE  UNCHANGED AtomicVars
BY DEF AtomicVars, SettledRecord, SettledData, Journaled, Content

LEMMA LifecycleRefines ==
    ASSUME IInv, Lifecycle
    PROVE  Atomic!Next \/ UNCHANGED AtomicVars
<1>1. CASE RemoveRecord
  <2>1. journal.phase = "none" /\ UNCHANGED <<journal, data, snapshot>>
    BY <1>1, SMT DEF IInv, PhaseAt, RemoveRecord
  <2>2. CASE record.installed
    <3>1. Atomic!Remove
      BY <1>1, <2>1, <2>2, SMT
      DEF Atomic!Remove, RemoveRecord, SettledRecord, SettledData, Journaled, Content
    <3> QED BY <3>1 DEF Atomic!Next
  <2>3. CASE ~record.installed
    <3>1. record' = record
      BY <1>1, <2>3, SMT DEF IInv, TypeOK, Records, RemoveRecord
    <3> QED BY <2>1, <3>1, FrameStutters
  <2> QED BY <2>2, <2>3
<1>2. CASE ~RemoveRecord
  <2>1. UNCHANGED <<record, data, journal, snapshot>>
    BY <1>2, SMT
    DEF Lifecycle, SetPolicy, StartOnly, StopOnly, StopToRemove, RemoveOnly, DockerCall,
        Goto, disk
  <2> QED BY <2>1, FrameStutters
<1> QED BY <1>1, <1>2

LEMMA ReplaceRefines ==
    ASSUME IInv, TypeOK', Replace
    PROVE  Atomic!Next \/ UNCHANGED AtomicVars
<1> USE DEF SettledRecord, SettledData, Journaled, Content, AtomicVars, FileCall, Goto, worker
<1>1. CASE Seed
  <2>1. journal.phase = "none" /\ UNCHANGED <<journal, record, snapshot>>
    BY <1>1, SMT DEF IInv, PhaseAt, Seed
  <2>2. data'.fmt = data.fmt /\ data'.gen = data.gen
        /\ data'.state = IF data.state = "none" THEN "whole" ELSE data.state
    BY <1>1, SMT DEF Seed, IInv, TypeOK, Contents
  <2>3. CASE data.state = "none"
    <3>1. Atomic!Prepare
      BY <2>1, <2>2, <2>3, SMT DEF Atomic!Prepare
    <3> QED BY <3>1 DEF Atomic!Next
  <2>4. CASE data.state # "none"
    BY <2>1, <2>2, <2>4, SMT
  <2> QED BY <2>3, <2>4
<1>2. CASE WriteJournal
  BY <1>2, SMT DEF WriteJournal, IInv, PhaseAt
<1>3. CASE CopyBegins \/ CopyEnds
  BY <1>3, SMT DEF CopyBegins, CopyEnds, IInv, PhaseAt
<1>4. CASE WriteOptions
  BY <1>4, SMT DEF WriteOptions, IInv, PhaseAt, TypeOK, Contents
<1>5. CASE MarkCopied
  BY <1>5, SMT DEF MarkCopied, IInv, TypeOK, Journals, PhaseAt, Stopping
<1>6. CASE WriteRecord
  BY <1>6, SMT DEF WriteRecord, IInv, PhaseAt
<1>7. CASE Commit
  <2> DEFINE v == journal.new
  <2>1. v = target /\ v \in Versions /\ v >= SettledRecord.ver
    BY <1>7, SMT DEF Commit, IInv, TypeOK, PhaseAt, Readable, FirstInstall, Copied, TryCalls
  <2>2. SettledRecord' = [ver |-> v, installed |-> TRUE]
    BY <1>7, <2>1, Zenon DEF Commit, NoJournal, IInv, Committing, NewRecord
  <2>3. SettledData.state = "whole" /\ SettledData' = data
    BY <1>7, SMT DEF Commit, NoJournal, IInv, PhaseAt, FirstInstall, Copied
  <2>4. Content(data) \in {Content(SettledData)} \cup Atomic!WrittenBy(v)
    <3>1. CASE journal.phase = "copied"
      BY <1>7, <3>1, SMT
      DEF Commit, Atomic!WrittenBy, IInv, TypeOK, Contents, Copied, SinceCopy
    <3>2. CASE journal.phase # "copied"
      BY <3>2
    <3> QED BY <3>1, <3>2
  <2>5. Atomic!Adopt(v)
    BY <2>1, <2>2, <2>3, <2>4, Zenon DEF Atomic!Adopt
  <2> QED BY <2>1, <2>5 DEF Atomic!Next, Atomic!Versions, Versions
<1>8. CASE ~(\/ Seed \/ WriteJournal \/ CopyBegins \/ CopyEnds \/ WriteOptions
            \/ MarkCopied \/ WriteRecord \/ Commit)
  <2>1. UNCHANGED <<record, data, journal, snapshot>>
    BY <1>8, SMT
    DEF Replace, SaveManifest, DisablePolicy, Quiesce, RemoveOld, Create, StartNew, Report,
        DockerCall, disk
  <2> QED BY <2>1, FrameStutters
<1> QED BY <1>1, <1>2, <1>3, <1>4, <1>5, <1>6, <1>7, <1>8

LEMMA RepairRefines ==
    ASSUME IInv, Repair
    PROVE  Atomic!Next \/ UNCHANGED AtomicVars
<1> USE DEF SettledRecord, SettledData, Journaled, Content, AtomicVars, FileCall, Goto, worker
<1>1. CASE SetAside \/ RefillBegins \/ RefillEnds
  BY <1>1, SMT DEF SetAside, RefillBegins, RefillEnds, IInv, PhaseAt
<1>2. CASE OldRecord
  BY <1>2, SMT DEF OldRecord, IInv, PhaseAt
<1>3. CASE Repaired /\ journal.phase # "copied"
  <2>1. journal.phase \in {"first-install", "stopping"} /\ pc = "repaired"
    BY <1>3, SMT DEF Repaired, IInv, TypeOK, Journals, PhaseAt
  <2>2. record = journal.old
    BY <2>1, SMT DEF IInv, FirstInstall, Stopping
  <2> QED BY <1>3, <2>1, <2>2, SMT DEF Repaired, NoJournal
<1>4. CASE Repaired /\ journal.phase = "copied"
  <2> DEFINE v == journal.old.ver
  <2>1. v \in Versions /\ SettledRecord = record /\ record.ver = v /\ record.installed
    BY <1>4, SMT DEF Repaired, IInv, TypeOK, Journals, Records, Versions, Copied
  <2>2. SettledRecord' = [ver |-> v, installed |-> TRUE]
    BY <1>4, <2>1, SMT DEF Repaired, NoJournal, IInv, TypeOK, Records
  <2>3. SettledData.state = "whole" /\ SettledData' = data
    BY <1>4, SMT DEF Repaired, NoJournal, IInv, Copied
  <2>4. Content(data) \in {Content(SettledData)} \cup Atomic!WrittenBy(v)
    BY <1>4, SMT
    DEF Repaired, Atomic!WrittenBy, IInv, TypeOK, Contents, Copied, SinceCopy
  <2>5. v >= SettledRecord.ver
    BY <2>1, SMT DEF Versions
  <2>6. Atomic!Adopt(v)
    BY <2>2, <2>3, <2>4, <2>5, Zenon DEF Atomic!Adopt
  <2> QED BY <2>1, <2>6 DEF Atomic!Next, Atomic!Versions, Versions
<1>5. CASE ~(SetAside \/ RefillBegins \/ RefillEnds \/ OldRecord \/ Repaired)
  <2>1. UNCHANGED <<record, data, journal, snapshot>>
    BY <1>5, SMT
    DEF Repair, RepairFirstInstall, RepairManifest, OldPolicy, DiscardStop, Discard,
        Recreate, RecreateRefused, DropManifest, OldStart, DockerCall, disk
  <2> QED BY <2>1, FrameStutters
<1> QED BY <1>1, <1>2, <1>3, <1>4, <1>5

LEMMA AppWritesRefines ==
    ASSUME IInv, TypeOK', AppWrites
    PROVE  Atomic!Next \/ UNCHANGED AtomicVars
<1> USE DEF SettledRecord, SettledData, Journaled, Content, AtomicVars, Running, Present
<1>1. UNCHANGED <<record, journal, snapshot>>
  BY DEF AppWrites
<1>2. CASE journal.phase = "copied"
  BY <1>1, <1>2
<1>3. CASE journal.phase # "copied"
  <2>1. SettledRecord = record /\ record.installed /\ record.ver = container.image
    BY <1>3, SMT
    DEF AppWrites, IInv, TypeOK, Journals, Settled, FirstInstall, Stopping
  <2>2. data'.state = "whole" /\ data'.fmt = container.image /\ data'.gen > data.gen
    BY SMT DEF AppWrites, IInv, TypeOK, Contents, Readable
  <2>3. Content(data') \in Atomic!WrittenBy(record.ver)
    BY <1>3, <2>1, <2>2, SMT DEF Atomic!WrittenBy, TypeOK, Contents
  <2>4. Atomic!Write
    BY <1>1, <1>3, <2>1, <2>3, SMT DEF Atomic!Write
  <2> QED BY <2>4 DEF Atomic!Next
<1> QED BY <1>2, <1>3

(* Install, update, rollback and remove implement AtomicReplace: the commit of *)
(* a replacement and the end of a rollback are its Adopt step, and every other *)
(* call of the worker, every failure and every crash is invisible.             *)
THEOREM RefinesAtomicReplace == Spec => ReplacesAtomically
<1>1. Init => Atomic!Init
  BY SMT
  DEF Init, Atomic!Init, SettledRecord, SettledData, Journaled, Content, NoRecord, NoJournal,
      NoData
<1>2. IInv /\ IInv' /\ [Next]_vars => [Atomic!Next]_AtomicVars
  <2> SUFFICES ASSUME IInv, IInv', [Next]_vars
               PROVE  Atomic!Next \/ UNCHANGED AtomicVars
    OBVIOUS
  <2>1. CASE Request \/ BeginRepair \/ Fault \/ UNCHANGED vars
    <3>1. UNCHANGED <<record, data, journal, snapshot>>
      BY <2>1, SMT
      DEF Request, BeginReplace, BeginStop, BeginStart, Begin, BeginRepair, Fault, CallFails,
          Crash, Reboot, disk, vars
    <3> QED BY <3>1, FrameStutters
  <2>2. CASE Worker
    BY <2>2, LifecycleRefines, ReplaceRefines, RepairRefines DEF Worker, IInv
  <2>3. CASE AppWrites
    BY <2>3, AppWritesRefines DEF IInv
  <2> QED BY <2>1, <2>2, <2>3 DEF Next, Acts
<1> QED BY Invariance, <1>1, <1>2, PTL DEF Spec, ReplacesAtomically, Atomic!Spec, AtomicVars
=============================================================================
