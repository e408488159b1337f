-------------------------- MODULE AddonBackupsProofs --------------------------
(* Proofs about the backup and the restore of an add-on, for any number of   *)
(* backups, moments, failing calls and crashes.                              *)
EXTENDS AddonBackups, TLAPS

-----------------------------------------------------------------------------
ContainerStates == [running : BOOLEAN, auto : BOOLEAN]
Backups == [file : {"none", "whole", "damaged"}, side : BOOLEAN, tree : Trees,
            config : Configs \cup {"none"}, sound : BOOLEAN]
Jobs == [action : {"none", "backup", "restore"}, backup : BackupIds \cup {"none"},
         running : BOOLEAN, outcome : {"none", "succeeded", "failed"}, found : Trees]

Making == {"pack", "sidecar"}
Undo == {"undo-drop", "undo-place"}
Restoring == Undoing \cup Undo
Steps == {"idle", "policy-off", "stop", "copy", "policy-on", "start", "end"} \cup Making
           \cup Restoring

(* Where the job is and what follows for its parameters and the add-on.      *)
Placed ==
  /\ pc # "idle" => job.backup \in BackupIds /\ job.action \in {"backup", "restore"}
  /\ pc = "idle" => job.action = "none"
  /\ pc \in Making => job.action = "backup"
  /\ pc = "copy" \/ pc \in Restoring => job.action = "restore"
  /\ pc # "idle" /\ job.action = "restore" => backups[job.backup].config \in Configs
  /\ pc \in {"policy-off", "stop", "policy-on", "start"} => job.running
  /\ pc \notin {"copy", "drop", "place"} \cup Undo => next = 1
  /\ pc \notin {"idle", "policy-off", "stop", "end"} => ~container.running
  /\ pc # "idle" /\ ~job.running => ~container.running

(* What was found is there until the first directory goes, and in the        *)
(* rollback copy from then on.                                               *)
Held ==
  /\ pc \in {"pack", "copy", "extract"} => job.found = tree
  /\ pc \in {"policy-off", "stop"} => copied = Empty
  /\ pc = "copy" =>
       copied = IF next = 1 THEN Empty
                ELSE [data |-> tree.data, addon_config |-> None, options |-> tree.options]
  /\ pc \in Restoring => copied = job.found

(* An archive is of what was found, whole or not.                            *)
Archived == \A b \in BackupIds : /\ backups[b].sound => Settled(backups[b].tree)
                                 /\ backups[b].file = "whole" => backups[b].config \in Configs

(* LastMomentSurvives, and what the running add-on cannot mend.              *)
Kept ==
  /\ ~Whole(tree) => kept
  /\ ~container.running /\ ~Settled(tree) => kept
  /\ pc = "copy" /\ Settled(tree) => before = tree
  /\ pc \in Restoring => kept

(* Forward, a directory after the other is the archive's; backward, the      *)
(* rollback copy's.  A step into the except clause costs a fault, and so     *)
(* does a directory that stays in the way.                                   *)
Blocked == Content(tree, ROOTS[next]) # None
Archive == backups[job.backup]

Moved ==
  /\ pc \in {"drop", "place"} /\ next = 2 => tree.data = Archive.tree.data
  /\ pc \in {"options", "record", "progress"} =>
       tree.data = Archive.tree.data /\ tree.addon_config = Archive.tree.addon_config
  /\ pc \in {"record", "progress"} => tree.options = Archive.config
  /\ pc = "progress" => record = Archive.config
  /\ pc \in Undo /\ next = 2 => tree.data = copied.data /\ tree.options = copied.options
  /\ pc \in Undo => job.outcome = "failed" /\ faults >= 1
  /\ pc = "place" /\ Blocked => faults >= 1
  /\ pc = "undo-place" /\ Blocked => faults >= 2
  /\ pc \in {"policy-off", "stop", "copy", "extract"} /\ job.action = "restore" =>
       Archive.file = "whole" \/ faults >= 1

(* OneErrorIsUndone, component by component.                                 *)
Undone ==
  /\ pc \in {"policy-on", "start", "end"} => job.outcome \in {"succeeded", "failed"}
  /\ /\ job.action = "restore" /\ faults <= 1
     /\ pc = "policy-on" \/ (pc = "end" /\ ~job.running)
     => /\ job.outcome = "succeeded" =>
             /\ tree.data = Archive.tree.data /\ tree.addon_config = Archive.tree.addon_config
             /\ tree.options = Archive.config /\ record = Archive.config
        /\ job.outcome = "failed" => tree = job.found

BakInv ==
  /\ BakTypeOK
  /\ job \in Jobs /\ pc \in Steps
  /\ Placed
  /\ Held
  /\ Archived
  /\ Kept
  /\ Moved
  /\ Undone

-----------------------------------------------------------------------------
(* What one assignment does to a record.                                     *)
LEMMA ContainerSet ==
  \A c \in ContainerStates, x \in BOOLEAN :
    /\ [c EXCEPT !.auto = x] \in ContainerStates /\ [c EXCEPT !.auto = x].running = c.running
    /\ [c EXCEPT !.running = x] \in ContainerStates /\ [c EXCEPT !.running = x].running = x
  BY SMT DEF ContainerStates

LEMMA JobEnds ==
  \A j \in Jobs, o \in {"none", "succeeded", "failed"} :
    /\ [j EXCEPT !.outcome = o] \in Jobs
    /\ [j EXCEPT !.outcome = o].outcome = o
    /\ [j EXCEPT !.outcome = o].action = j.action
    /\ [j EXCEPT !.outcome = o].backup = j.backup
    /\ [j EXCEPT !.outcome = o].running = j.running
    /\ [j EXCEPT !.outcome = o].found = j.found
  BY SMT DEF Jobs

LEMMA JobFinds ==
  \A j \in Jobs, t \in Trees :
    /\ [j EXCEPT !.found = t] \in Jobs
    /\ [j EXCEPT !.found = t].found = t
    /\ [j EXCEPT !.found = t].action = j.action
    /\ [j EXCEPT !.found = t].backup = j.backup
    /\ [j EXCEPT !.found = t].running = j.running
    /\ [j EXCEPT !.found = t].outcome = j.outcome
  BY SMT DEF Jobs

LEMMA TreeSet ==
  \A t \in Trees :
    /\ \A n \in Torn..MaxMoments :
         /\ [t EXCEPT !.data = n] =
              [data |-> n, addon_config |-> t.addon_config, options |-> t.options]
         /\ [t EXCEPT !.addon_config = n] =
              [data |-> t.data, addon_config |-> n, options |-> t.options]
    /\ \A c \in Configs \cup {"none"} :
         [t EXCEPT !.options = c] =
           [data |-> t.data, addon_config |-> t.addon_config, options |-> c]
  BY SMT DEF Trees

LEMMA TreeIs ==
  \A t \in Trees :
    t = [data |-> t.data, addon_config |-> t.addon_config, options |-> t.options]
  BY SMT DEF Trees

LEMMA TreeType ==
  \A t \in Trees : /\ t.data \in Torn..MaxMoments /\ t.addon_config \in Torn..MaxMoments
                   /\ t.options \in Configs \cup {"none"}
  BY SMT DEF Trees

LEMMA NewTree ==
  \A d \in Torn..MaxMoments, a \in Torn..MaxMoments, c \in Configs \cup {"none"} :
    [data |-> d, addon_config |-> a, options |-> c] \in Trees
  BY SMT DEF Trees

LEMMA Numbers ==
  /\ Torn \in Torn..MaxMoments /\ None \in Torn..MaxMoments /\ 0 \in Torn..MaxMoments
  /\ Torn # None /\ Torn < 0 /\ None < 0
  BY BackupsAssumption, SMT DEF Torn, None

LEMMA EmptyType == Empty \in Trees
  BY Numbers, NewTree, Zenon DEF Empty

(* What Put does to either directory.                                        *)
LEMMA PutsDirectory ==
  ASSUME NEW t \in Trees, NEW s \in Trees, NEW x \in Torn..MaxMoments
  PROVE  /\ PutFrom(t, ROOTS[1], s) =
              [data |-> s.data, addon_config |-> t.addon_config, options |-> s.options]
         /\ PutFrom(t, ROOTS[2], s) =
              [data |-> t.data, addon_config |-> s.addon_config, options |-> t.options]
         /\ Put(t, ROOTS[1], x, "none") =
              [data |-> x, addon_config |-> t.addon_config, options |-> "none"]
         /\ Put(t, ROOTS[2], x, "none") =
              [data |-> t.data, addon_config |-> x, options |-> t.options]
         /\ Content(t, ROOTS[1]) = t.data /\ Content(t, ROOTS[2]) = t.addon_config
<1>1. ROOTS[1] = "data" /\ ROOTS[2] = "addon_config" /\ "addon_config" # "data"
  BY SMT DEF ROOTS
<1>2. \A y, o :
        /\ Put(t, ROOTS[1], y, o) =
             [data |-> y, addon_config |-> t.addon_config, options |-> o]
        /\ Put(t, ROOTS[2], y, o) =
             [data |-> t.data, addon_config |-> y, options |-> t.options]
  BY <1>1, Zenon DEF Put
<1>3. \A u : Content(u, ROOTS[1]) = u.data /\ Content(u, ROOTS[2]) = u.addon_config
  BY <1>1, Zenon DEF Content
<1> QED BY <1>2, <1>3, Zenon DEF PutFrom

LEMMA PutsTree ==
  ASSUME NEW t \in Trees, NEW s \in Trees, NEW x \in Torn..MaxMoments, NEW n \in {1, 2}
  PROVE  PutFrom(t, ROOTS[n], s) \in Trees /\ Put(t, ROOTS[n], x, "none") \in Trees
<1>1. "none" \in Configs \cup {"none"}
  OBVIOUS
<1>2. /\ t.data \in Torn..MaxMoments /\ t.addon_config \in Torn..MaxMoments
      /\ t.options \in Configs \cup {"none"}
      /\ s.data \in Torn..MaxMoments /\ s.addon_config \in Torn..MaxMoments
      /\ s.options \in Configs \cup {"none"}
  BY TreeType, Zenon
<1>3. PutFrom(t, ROOTS[1], s) \in Trees /\ PutFrom(t, ROOTS[2], s) \in Trees
  <2>1. /\ PutFrom(t, ROOTS[1], s) =
              [data |-> s.data, addon_config |-> t.addon_config, options |-> s.options]
        /\ PutFrom(t, ROOTS[2], s) =
              [data |-> t.data, addon_config |-> s.addon_config, options |-> t.options]
    BY PutsDirectory
  <2> QED BY <1>2, <2>1, NewTree, ZenonT(60)
<1>4. Put(t, ROOTS[1], x, "none") \in Trees /\ Put(t, ROOTS[2], x, "none") \in Trees
  <2>1. /\ Put(t, ROOTS[1], x, "none") =
              [data |-> x, addon_config |-> t.addon_config, options |-> "none"]
        /\ Put(t, ROOTS[2], x, "none") =
              [data |-> t.data, addon_config |-> x, options |-> t.options]
    BY PutsDirectory
  <2> QED BY <1>1, <1>2, <2>1, NewTree, ZenonT(60)
<1>5. n = 1 \/ n = 2
  BY SMT
<1> QED BY <1>3, <1>4, <1>5, Zenon

(* An archive that was made keeps its content.                               *)
SameArchives ==
  /\ backups' \in [BackupIds -> Backups]
  /\ \A b \in BackupIds : /\ backups'[b].tree = backups[b].tree
                          /\ backups'[b].config = backups[b].config
                          /\ backups'[b].sound = backups[b].sound
                          /\ backups'[b].file = "whole" => backups[b].file = "whole"

LEMMA BackupSet ==
  \A r \in Backups :
    /\ \A x \in BOOLEAN :
         /\ [r EXCEPT !.side = x] \in Backups
         /\ [r EXCEPT !.side = x].tree = r.tree /\ [r EXCEPT !.side = x].config = r.config
         /\ [r EXCEPT !.side = x].sound = r.sound /\ [r EXCEPT !.side = x].file = r.file
    /\ \A f \in {"none", "whole", "damaged"} :
         /\ [r EXCEPT !.file = f] \in Backups
         /\ [r EXCEPT !.file = f].tree = r.tree /\ [r EXCEPT !.file = f].config = r.config
         /\ [r EXCEPT !.file = f].sound = r.sound /\ [r EXCEPT !.file = f].file = f
  BY SMT DEF Backups

LEMMA ArchiveVouched ==
  ASSUME backups \in [BackupIds -> Backups], NEW b \in BackupIds,
         \/ backups' = [backups EXCEPT ![b].side = TRUE]
         \/ backups' = [backups EXCEPT ![b].file = "damaged"]
  PROVE  SameArchives /\ \A a \in BackupIds \ {b} : backups'[a] = backups[a]
<1> DEFINE r == [backups[b] EXCEPT !.side = TRUE]
           s == [backups[b] EXCEPT !.file = "damaged"]
           Same(q) == /\ q \in Backups /\ q.tree = backups[b].tree
                      /\ q.config = backups[b].config /\ q.sound = backups[b].sound
                      /\ q.file = "whole" => backups[b].file = "whole"
<1>1. /\ backups[b] \in Backups /\ TRUE \in BOOLEAN
      /\ "damaged" # "whole" /\ "damaged" \in {"none", "whole", "damaged"}
  BY SMT
<1>2. Same(r) /\ Same(s)
  BY <1>1, BackupSet, Zenon
<1>3. \E q : Same(q) /\ backups' = [backups EXCEPT ![b] = q]
  <2>1. backups' = [backups EXCEPT ![b] = r] \/ backups' = [backups EXCEPT ![b] = s]
    BY Zenon
  <2> HIDE DEF r, s, Same
  <2> QED BY <1>2, <2>1, Zenon
<1>4. PICK q : Same(q) /\ backups' = [backups EXCEPT ![b] = q]
  BY <1>3
<1>5. /\ backups' \in [BackupIds -> Backups] /\ backups'[b] = q
      /\ \A a \in BackupIds \ {b} : backups'[a] = backups[a]
  BY <1>4, SMT
<1> QED BY <1>4, <1>5, Zenon DEF SameArchives

LEMMA FalseTrue == FALSE \in BOOLEAN /\ TRUE \in BOOLEAN
  OBVIOUS

LEMMA NewContainer ==
  \A x \in BOOLEAN, y \in BOOLEAN : [running |-> x, auto |-> y] \in ContainerStates
  BY SMT DEF ContainerStates

LEMMA BakFacts ==
  ASSUME BakInv
  PROVE  /\ tree \in Trees /\ record \in Configs /\ container \in ContainerStates
         /\ backups \in [BackupIds -> Backups] /\ copied \in Trees
         /\ kept \in BOOLEAN /\ before \in Trees /\ next \in {1, 2} /\ faults \in 0..MaxFaults
         /\ job \in Jobs /\ pc \in Steps
         /\ Placed /\ Held /\ Archived /\ Kept /\ Moved /\ Undone
  BY Zenon DEF BakInv, BakTypeOK, ContainerStates, Backups

-----------------------------------------------------------------------------
(* The invariant, action by action.                                          *)
LEMMA AddonWritesKeeps ==
  ASSUME BakInv, AddonWrites
  PROVE  BakInv'
<1>1. /\ tree \in Trees /\ record \in Configs /\ container \in ContainerStates
      /\ backups \in [BackupIds -> Backups] /\ copied \in Trees
      /\ kept \in BOOLEAN /\ before \in Trees /\ next \in {1, 2} /\ faults \in 0..MaxFaults
      /\ job \in Jobs /\ pc \in Steps
      /\ Placed /\ Held /\ Archived /\ Kept /\ Moved /\ Undone
  BY BakFacts
<1>2. container \in ContainerStates /\ job \in Jobs /\ tree \in Trees
        /\ backups \in [BackupIds -> Backups] /\ copied \in Trees
  BY <1>1
<1>3. tree.data \in Torn..MaxMoments /\ tree.addon_config \in Torn..MaxMoments
        /\ tree.options \in Configs \cup {"none"}
  BY <1>2, TreeType, Zenon
<1>4. container.running /\ Settled(tree) /\ tree' = [tree EXCEPT !.data = tree.data + 1]
      /\ UNCHANGED <<record, container, backups, copied, kept, pc, next, job, before,
           faults>>
  BY Zenon DEF AddonWrites
<1>5. tree.data + 1 \in Torn..MaxMoments
  BY <1>1, <1>3, BackupsAssumption, SMT DEF AddonWrites, Settled, Whole, Torn
<1>6. tree' = [data |-> tree.data + 1, addon_config |-> tree.addon_config,
        options |-> tree.options]
  BY <1>2, <1>4, <1>5, TreeSet, Zenon
<1>7. tree' \in Trees
  BY <1>3, <1>5, <1>6, NewTree, Zenon
<1>8. BakTypeOK' /\ job' \in Jobs /\ pc' \in Steps
  BY <1>1, <1>4, <1>7, SMT DEF BakTypeOK, ContainerStates, Backups
<1>9. Placed'
  BY <1>1, <1>4, SMT DEF Placed
<1>10. Held'
  BY <1>1, <1>4, SMT DEF Held, Placed
<1>11. Archived'
  BY <1>1, <1>4, SMT DEF Archived
<1>12. Kept'
  BY <1>1, <1>3, <1>4, SMT DEF Kept, Placed, Whole
<1>13. Moved'
  BY <1>1, <1>4, SMT DEF Moved, Placed, Archive, Undo
<1>14. Undone'
  BY <1>1, <1>4, SMT DEF Undone, Placed
<1> QED BY <1>8, <1>9, <1>10, <1>11, <1>12, <1>13, <1>14 DEF BakInv

LEMMA AddonSettlesKeeps ==
  ASSUME BakInv, AddonSettles
  PROVE  BakInv'
<1>1. /\ tree \in Trees /\ record \in Configs /\ container \in ContainerStates
      /\ backups \in [BackupIds -> Backups] /\ copied \in Trees
      /\ kept \in BOOLEAN /\ before \in Trees /\ next \in {1, 2} /\ faults \in 0..MaxFaults
      /\ job \in Jobs /\ pc \in Steps
      /\ Placed /\ Held /\ Archived /\ Kept /\ Moved /\ Undone
  BY BakFacts
<1>2. container \in ContainerStates /\ job \in Jobs /\ tree \in Trees
        /\ backups \in [BackupIds -> Backups] /\ copied \in Trees
  BY <1>1
<1>3. tree.data \in Torn..MaxMoments /\ tree.addon_config \in Torn..MaxMoments
        /\ tree.options \in Configs \cup {"none"}
  BY <1>2, TreeType, Zenon
<1>4. container.running /\ ~AtRest(tree) /\ tree' = [tree EXCEPT !.addon_config = tree.data]
      /\ UNCHANGED <<record, container, backups, copied, kept, pc, next, job, before,
           faults>>
  BY Zenon DEF AddonSettles
<1>5. tree' = [data |-> tree.data, addon_config |-> tree.data, options |-> tree.options]
  BY <1>2, <1>3, <1>4, TreeSet, Zenon
<1>6. tree' \in Trees
  BY <1>3, <1>5, NewTree, Zenon
<1>7. BakTypeOK' /\ job' \in Jobs /\ pc' \in Steps
  BY <1>1, <1>4, <1>6, SMT DEF BakTypeOK, ContainerStates, Backups
<1>8. Placed'
  BY <1>1, <1>4, SMT DEF Placed
<1>9. Held'
  BY <1>1, <1>4, SMT DEF Held, Placed
<1>10. Archived'
  BY <1>1, <1>4, SMT DEF Archived
<1>11. Kept'
  BY <1>1, <1>4, SMT DEF Kept, Placed, Whole
<1>12. Moved'
  BY <1>1, <1>4, SMT DEF Moved, Placed, Archive
<1>13. Undone'
  BY <1>1, <1>4, SMT DEF Undone, Placed
<1> QED BY <1>7, <1>8, <1>9, <1>10, <1>11, <1>12, <1>13 DEF BakInv

LEMMA BakPolicyOffKeeps ==
  ASSUME BakInv, BakPolicyOff
  PROVE  BakInv'
<1>1. /\ tree \in Trees /\ record \in Configs /\ container \in ContainerStates
      /\ backups \in [BackupIds -> Backups] /\ copied \in Trees
      /\ kept \in BOOLEAN /\ before \in Trees /\ next \in {1, 2} /\ faults \in 0..MaxFaults
      /\ job \in Jobs /\ pc \in Steps
      /\ Placed /\ Held /\ Archived /\ Kept /\ Moved /\ Undone
  BY BakFacts
<1>2. container \in ContainerStates /\ job \in Jobs /\ tree \in Trees
        /\ backups \in [BackupIds -> Backups] /\ copied \in Trees
  BY <1>1
<1>3. pc = "policy-off" /\ pc' = "stop" /\ container' = [container EXCEPT !.auto = FALSE]
      /\ UNCHANGED <<tree, record, backups, copied, kept, next, job, before, faults>>
  BY Zenon DEF BakPolicyOff, Goto
<1>4. container' \in ContainerStates /\ container'.running = container.running
  BY <1>2, <1>3, ContainerSet, FalseTrue, Zenon
<1>5. BakTypeOK' /\ job' \in Jobs /\ pc' \in Steps
  BY <1>1, <1>3, <1>4, SMT DEF BakTypeOK, Steps, ContainerStates, Backups
<1>6. Placed'
  BY <1>1, <1>3, SMT DEF Placed, Making, Restoring, Undoing, Undo
<1>7. Held'
  BY <1>1, <1>3, SMT DEF Held, Restoring, Undoing, Undo
<1>8. Archived'
  BY <1>1, <1>3, SMT DEF Archived
<1>9. Kept'
  BY <1>1, <1>3, SMT DEF Kept, Restoring, Undoing, Undo
<1>10. Moved'
  BY <1>1, <1>3, SMT DEF Moved, Archive, Undo
<1>11. Undone'
  BY <1>1, <1>3, SMT DEF Undone
<1> QED BY <1>5, <1>6, <1>7, <1>8, <1>9, <1>10, <1>11 DEF BakInv

LEMMA BakStopsKeeps ==
  ASSUME BakInv, BakStops
  PROVE  BakInv'
<1>1. /\ tree \in Trees /\ record \in Configs /\ container \in ContainerStates
      /\ backups \in [BackupIds -> Backups] /\ copied \in Trees
      /\ kept \in BOOLEAN /\ before \in Trees /\ next \in {1, 2} /\ faults \in 0..MaxFaults
      /\ job \in Jobs /\ pc \in Steps
      /\ Placed /\ Held /\ Archived /\ Kept /\ Moved /\ Undone
  BY BakFacts
<1>2. container \in ContainerStates /\ job \in Jobs /\ tree \in Trees
        /\ backups \in [BackupIds -> Backups] /\ copied \in Trees
  BY <1>1
<1>3. /\ pc = "stop" /\ AtRest(tree) /\ container' = [container EXCEPT !.running = FALSE]
      /\ pc' = (IF job.action = "backup" THEN "pack" ELSE "copy")
      /\ IF Settled(tree) THEN before' = tree /\ kept' = (kept /\ tree = before)
                          ELSE UNCHANGED <<before, kept>>
      /\ job' = [job EXCEPT !.found = tree]
      /\ UNCHANGED <<tree, record, backups, copied, next, faults>>
  BY Zenon DEF BakStops, Remembers
<1>4. container' \in ContainerStates /\ container'.running = FALSE
  BY <1>2, <1>3, ContainerSet, FalseTrue, Zenon
<1>5. BakTypeOK' /\ job' \in Jobs /\ pc' \in Steps
  BY <1>1, <1>3, <1>4, SMT DEF BakTypeOK, Steps, Making, ContainerStates, Backups, Jobs
<1>6. Placed'
  BY <1>1, <1>3, SMT DEF Placed, Making, Restoring, Undoing, Undo
<1>7. Held'
  BY <1>1, <1>3, SMT DEF Held, Placed, Restoring, Undoing, Undo
<1>8. Archived'
  BY <1>1, <1>3, SMT DEF Archived
<1>9. Kept'
  BY <1>1, <1>3, SMT DEF Kept, Restoring, Undoing, Undo, Settled, AtRest
<1>10. Moved'
  BY <1>1, <1>3, SMT DEF Moved, Archive, Undo
<1>11. Undone'
  BY <1>1, <1>3, SMT DEF Undone
<1> QED BY <1>5, <1>6, <1>7, <1>8, <1>9, <1>10, <1>11 DEF BakInv

LEMMA WritesSidecarKeeps ==
  ASSUME BakInv, WritesSidecar
  PROVE  BakInv'
<1>1. /\ tree \in Trees /\ record \in Configs /\ container \in ContainerStates
      /\ backups \in [BackupIds -> Backups] /\ copied \in Trees
      /\ kept \in BOOLEAN /\ before \in Trees /\ next \in {1, 2} /\ faults \in 0..MaxFaults
      /\ job \in Jobs /\ pc \in Steps
      /\ Placed /\ Held /\ Archived /\ Kept /\ Moved /\ Undone
  BY BakFacts
<1>2. container \in ContainerStates /\ job \in Jobs /\ tree \in Trees
        /\ backups \in [BackupIds -> Backups] /\ copied \in Trees
  BY <1>1
<1>3. pc # "idle" => job.backup \in BackupIds /\ Archive \in Backups
        /\ Archive.tree \in Trees /\ Archive.config \in Configs \cup {"none"}
  BY <1>1, SMT DEF Placed, Archive, Backups
<1>4. /\ pc = "sidecar" /\ backups' = [backups EXCEPT ![job.backup].side = TRUE]
      /\ pc' = Finally /\ job' = [job EXCEPT !.outcome = "succeeded"]
      /\ UNCHANGED <<tree, record, container, copied, kept, next, before, faults>>
  BY Zenon DEF WritesSidecar
<1>5. job.backup \in BackupIds
  BY <1>3, <1>4, SMT
<1>6. SameArchives
  BY <1>2, <1>4, <1>5, ArchiveVouched, Zenon
<1>7. backups' \in [BackupIds -> Backups]
  BY <1>6 DEF SameArchives
<1>8. /\ job' \in Jobs /\ job'.found = job.found /\ job'.action = job.action
           /\ job'.backup = job.backup
      /\ job'.running = job.running /\ job'.outcome = "succeeded"
  BY <1>2, <1>4, JobEnds, Zenon
<1>9. job.action = "backup" 
  BY <1>1, <1>4, SMT DEF Placed, Making
<1>10. BakTypeOK' /\ job' \in Jobs /\ pc' \in Steps
  BY <1>1, <1>4, <1>7, <1>8, SMT DEF BakTypeOK, Steps, Finally, ContainerStates, Backups
<1>11. Placed'
  BY <1>1, <1>4, <1>9, SMT DEF Placed, Restoring, Undoing, Undo, Finally
<1>12. Held'
  BY <1>1, <1>4, SMT DEF Held, Restoring, Undoing, Undo, Finally
<1>13. Archived'
  BY <1>1, <1>6, SMT DEF Archived, SameArchives
<1>14. Kept'
  BY <1>1, <1>4, SMT DEF Kept, Restoring, Undoing, Undo, Finally
<1>15. Moved'
  BY <1>1, <1>4, SMT DEF Moved, Undo, Finally
<1>16. Undone'
  BY <1>1, <1>8, <1>9, SMT DEF Undone
<1> QED BY <1>10, <1>11, <1>12, <1>13, <1>14, <1>15, <1>16 DEF BakInv

LEMMA BakWritesOptionsKeeps ==
  ASSUME BakInv, BakWritesOptions
  PROVE  BakInv'
<1>1. /\ tree \in Trees /\ record \in Configs /\ container \in ContainerStates
      /\ backups \in [BackupIds -> Backups] /\ copied \in Trees
      /\ kept \in BOOLEAN /\ before \in Trees /\ next \in {1, 2} /\ faults \in 0..MaxFaults
      /\ job \in Jobs /\ pc \in Steps
      /\ Placed /\ Held /\ Archived /\ Kept /\ Moved /\ Undone
  BY BakFacts
<1>2. container \in ContainerStates /\ job \in Jobs /\ tree \in Trees
        /\ backups \in [BackupIds -> Backups] /\ copied \in Trees
  BY <1>1
<1>3. tree.data \in Torn..MaxMoments /\ tree.addon_config \in Torn..MaxMoments
        /\ tree.options \in Configs \cup {"none"}
  BY <1>2, TreeType, Zenon
<1>4. pc # "idle" => job.backup \in BackupIds /\ Archive \in Backups
        /\ Archive.tree \in Trees /\ Archive.config \in Configs \cup {"none"}
  BY <1>1, SMT DEF Placed, Archive, Backups
<1>5. pc = "options" /\ pc' = "record" /\ tree' = [tree EXCEPT !.options = Archive.config]
      /\ UNCHANGED <<record, container, backups, copied, kept, next, job, before, faults>>
  BY Zenon DEF BakWritesOptions, Goto, Archive
<1>6. Archive.config \in Configs \cup {"none"} 
  BY <1>4, <1>5, SMT
<1>7. tree' = [data |-> tree.data, addon_config |-> tree.addon_config,
        options |-> Archive.config]
  BY <1>2, <1>5, <1>6, TreeSet, Zenon
<1>8. tree' \in Trees
  BY <1>3, <1>6, <1>7, NewTree, Zenon
<1>9. BakTypeOK' /\ job' \in Jobs /\ pc' \in Steps
  BY <1>1, <1>5, <1>8, SMT DEF BakTypeOK, Steps, Restoring, Undoing, ContainerStates, Backups
<1>10. Placed'
  BY <1>1, <1>5, SMT DEF Placed, Making, Restoring, Undoing, Undo
<1>11. Held'
  BY <1>1, <1>5, SMT DEF Held, Restoring, Undoing
<1>12. Archived'
  BY <1>1, <1>5, SMT DEF Archived
<1>13. Kept'
  BY <1>1, <1>5, SMT DEF Kept, Restoring, Undoing
<1>14. Moved'
  BY <1>1, <1>5, SMT DEF Moved, Archive, Undo
<1>15. Undone'
  BY <1>1, <1>5, SMT DEF Undone
<1> QED BY <1>9, <1>10, <1>11, <1>12, <1>13, <1>14, <1>15 DEF BakInv

LEMMA BakReportsKeeps ==
  ASSUME BakInv, BakReports
  PROVE  BakInv'
<1>1. /\ tree \in Trees /\ record \in Configs /\ container \in ContainerStates
      /\ backups \in [BackupIds -> Backups] /\ copied \in Trees
      /\ kept \in BOOLEAN /\ before \in Trees /\ next \in {1, 2} /\ faults \in 0..MaxFaults
      /\ job \in Jobs /\ pc \in Steps
      /\ Placed /\ Held /\ Archived /\ Kept /\ Moved /\ Undone
  BY BakFacts
<1>2. /\ pc = "progress" /\ pc' = Finally /\ job' = [job EXCEPT !.outcome = "succeeded"]
      /\ UNCHANGED <<tree, record, container, backups, copied, kept, next, before, faults>>
  BY Zenon DEF BakReports
<1>3. BakTypeOK' /\ job' \in Jobs /\ pc' \in Steps
  BY <1>1, <1>2, SMT DEF BakTypeOK, Steps, Finally, ContainerStates, Backups, Jobs
<1>4. Placed'
  BY <1>1, <1>2, SMT DEF Placed, Making, Restoring, Undoing, Undo, Finally
<1>5. Held'
  BY <1>1, <1>2, SMT DEF Held, Restoring, Undoing, Finally
<1>6. Archived'
  BY <1>1, <1>2, SMT DEF Archived
<1>7. Kept'
  BY <1>1, <1>2, SMT DEF Kept, Restoring, Undoing, Finally
<1>8. Moved'
  BY <1>1, <1>2, SMT DEF Moved, Undo, Finally
<1>9. Undone'
  BY <1>1, <1>2, SMT DEF Undone, Moved, Archive
<1> QED BY <1>3, <1>4, <1>5, <1>6, <1>7, <1>8, <1>9 DEF BakInv

LEMMA BakPolicyOnKeeps ==
  ASSUME BakInv, BakPolicyOn
  PROVE  BakInv'
<1>1. /\ tree \in Trees /\ record \in Configs /\ container \in ContainerStates
      /\ backups \in [BackupIds -> Backups] /\ copied \in Trees
      /\ kept \in BOOLEAN /\ before \in Trees /\ next \in {1, 2} /\ faults \in 0..MaxFaults
      /\ job \in Jobs /\ pc \in Steps
      /\ Placed /\ Held /\ Archived /\ Kept /\ Moved /\ Undone
  BY BakFacts
<1>2. container \in ContainerStates /\ job \in Jobs /\ tree \in Trees
        /\ backups \in [BackupIds -> Backups] /\ copied \in Trees
  BY <1>1
<1>3. pc = "policy-on" /\ pc' = "start" /\ container' = [container EXCEPT !.auto = TRUE]
      /\ UNCHANGED <<tree, record, backups, copied, kept, next, job, before, faults>>
  BY Zenon DEF BakPolicyOn, Goto
<1>4. container' \in ContainerStates /\ container'.running = container.running
  BY <1>2, <1>3, ContainerSet, FalseTrue, Zenon
<1>5. BakTypeOK' /\ job' \in Jobs /\ pc' \in Steps
  BY <1>1, <1>3, <1>4, SMT DEF BakTypeOK, Steps, ContainerStates, Backups
<1>6. Placed'
  BY <1>1, <1>3, SMT DEF Placed, Making, Restoring, Undoing, Undo
<1>7. Held'
  BY <1>1, <1>3, SMT DEF Held, Restoring, Undoing, Undo
<1>8. Archived'
  BY <1>1, <1>3, SMT DEF Archived
<1>9. Kept'
  BY <1>1, <1>3, SMT DEF Kept, Restoring, Undoing, Undo
<1>10. Moved'
  BY <1>1, <1>3, SMT DEF Moved, Undo
<1>11. Undone'
  BY <1>1, <1>3, SMT DEF Undone
<1> QED BY <1>5, <1>6, <1>7, <1>8, <1>9, <1>10, <1>11 DEF BakInv

LEMMA BakStartsKeeps ==
  ASSUME BakInv, BakStarts
  PROVE  BakInv'
<1>1. /\ tree \in Trees /\ record \in Configs /\ container \in ContainerStates
      /\ backups \in [BackupIds -> Backups] /\ copied \in Trees
      /\ kept \in BOOLEAN /\ before \in Trees /\ next \in {1, 2} /\ faults \in 0..MaxFaults
      /\ job \in Jobs /\ pc \in Steps
      /\ Placed /\ Held /\ Archived /\ Kept /\ Moved /\ Undone
  BY BakFacts
<1>2. container \in ContainerStates /\ job \in Jobs /\ tree \in Trees
        /\ backups \in [BackupIds -> Backups] /\ copied \in Trees
  BY <1>1
<1>3. pc = "start" /\ pc' = "end" /\ container' = [container EXCEPT !.running = TRUE]
      /\ UNCHANGED <<tree, record, backups, copied, kept, next, job, before, faults>>
  BY Zenon DEF BakStarts, Goto
<1>4. container' \in ContainerStates /\ container'.running = TRUE
  BY <1>2, <1>3, ContainerSet, FalseTrue, Zenon
<1>5. BakTypeOK' /\ job' \in Jobs /\ pc' \in Steps
  BY <1>1, <1>3, <1>4, SMT DEF BakTypeOK, Steps, ContainerStates, Backups
<1>6. Placed'
  BY <1>1, <1>3, SMT DEF Placed, Making, Restoring, Undoing, Undo
<1>7. Held'
  BY <1>1, <1>3, SMT DEF Held, Restoring, Undoing, Undo
<1>8. Archived'
  BY <1>1, <1>3, SMT DEF Archived
<1>9. Kept'
  BY <1>1, <1>3, SMT DEF Kept, Restoring, Undoing, Undo
<1>10. Moved'
  BY <1>1, <1>3, SMT DEF Moved, Undo
<1>11. Undone'
  BY <1>1, <1>3, SMT DEF Undone, Placed
<1> QED BY <1>5, <1>6, <1>7, <1>8, <1>9, <1>10, <1>11 DEF BakInv

LEMMA BakEndsKeeps ==
  ASSUME BakInv, BakEnds
  PROVE  BakInv'
<1>1. /\ tree \in Trees /\ record \in Configs /\ container \in ContainerStates
      /\ backups \in [BackupIds -> Backups] /\ copied \in Trees
      /\ kept \in BOOLEAN /\ before \in Trees /\ next \in {1, 2} /\ faults \in 0..MaxFaults
      /\ job \in Jobs /\ pc \in Steps
      /\ Placed /\ Held /\ Archived /\ Kept /\ Moved /\ Undone
  BY BakFacts
<1>2. /\ pc = "end" /\ pc' = "idle" /\ next' = 1 /\ copied' = Empty /\ job' = NoJob
           /\ faults' = 0
      /\ UNCHANGED <<tree, record, container, backups, kept, before>>
  BY Zenon DEF BakEnds, Forgets
<1>3. NoJob \in Jobs /\ 0 \in 0..MaxFaults /\ NoJob.action = "none" 
  BY EmptyType, BackupsAssumption, SMT DEF NoJob, Jobs
<1>4. BakTypeOK' /\ job' \in Jobs /\ pc' \in Steps
  BY <1>1, <1>2, <1>3, SMT DEF BakTypeOK, Steps, ContainerStates, Backups, Jobs, NoJob
<1>5. Placed'
  BY <1>1, <1>2, SMT DEF Placed, Making, Restoring, Undoing, Undo, NoJob
<1>6. Held'
  BY <1>1, <1>2, SMT DEF Held, Restoring, Undoing, Undo
<1>7. Archived'
  BY <1>1, <1>2, SMT DEF Archived
<1>8. Kept'
  BY <1>1, <1>2, SMT DEF Kept, Restoring, Undoing, Undo
<1>9. Moved'
  BY <1>1, <1>2, SMT DEF Moved, Undo
<1>10. Undone'
  BY <1>1, <1>2, SMT DEF Undone
<1> QED BY <1>4, <1>5, <1>6, <1>7, <1>8, <1>9, <1>10 DEF BakInv

LEMMA ExtractsKeeps ==
  ASSUME BakInv, Extracts
  PROVE  BakInv'
<1>1. /\ tree \in Trees /\ record \in Configs /\ container \in ContainerStates
      /\ backups \in [BackupIds -> Backups] /\ copied \in Trees
      /\ kept \in BOOLEAN /\ before \in Trees /\ next \in {1, 2} /\ faults \in 0..MaxFaults
      /\ job \in Jobs /\ pc \in Steps
      /\ Placed /\ Held /\ Archived /\ Kept /\ Moved /\ Undone
  BY BakFacts
<1>2. /\ pc = "extract" /\ pc' = "drop" /\ next' = 1
      /\ UNCHANGED <<tree, record, container, backups, copied, kept, job, before, faults>>
  BY Zenon DEF Extracts
<1>3. BakTypeOK' /\ job' \in Jobs /\ pc' \in Steps
  BY <1>1, <1>2, SMT DEF BakTypeOK, Steps, Restoring, Undoing, ContainerStates, Backups
<1>4. Placed'
  BY <1>1, <1>2, SMT DEF Placed, Making, Restoring, Undoing
<1>5. Held'
  BY <1>1, <1>2, SMT DEF Held, Restoring, Undoing
<1>6. Archived'
  BY <1>1, <1>2, SMT DEF Archived
<1>7. Kept'
  BY <1>1, <1>2, SMT DEF Kept, Restoring, Undoing
<1>8. Moved'
  BY <1>1, <1>2, SMT DEF Moved, Undo
<1>9. Undone'
  BY <1>1, <1>2, SMT DEF Undone
<1> QED BY <1>3, <1>4, <1>5, <1>6, <1>7, <1>8, <1>9 DEF BakInv

LEMMA AddonManagedKeeps ==
  ASSUME BakInv, AddonManaged
  PROVE  BakInv'
<1>1. /\ tree \in Trees /\ record \in Configs /\ container \in ContainerStates
      /\ backups \in [BackupIds -> Backups] /\ copied \in Trees
      /\ kept \in BOOLEAN /\ before \in Trees /\ next \in {1, 2} /\ faults \in 0..MaxFaults
      /\ job \in Jobs /\ pc \in Steps
      /\ Placed /\ Held /\ Archived /\ Kept /\ Moved /\ Undone
  BY BakFacts
<1>2. container \in ContainerStates /\ job \in Jobs /\ tree \in Trees
        /\ backups \in [BackupIds -> Backups] /\ copied \in Trees
  BY <1>1
<1>3. tree.data \in Torn..MaxMoments /\ tree.addon_config \in Torn..MaxMoments
        /\ tree.options \in Configs \cup {"none"}
  BY <1>2, TreeType, Zenon
<1>4. /\ pc = "idle" /\ UNCHANGED <<backups, copied, kept, pc, next, job, before, faults>>
      /\ \/ /\ tree' = tree /\ record' = record
            /\ \/ container' = [running |-> TRUE, auto |-> TRUE]
               \/ AtRest(tree) /\ container' = [running |-> FALSE, auto |-> FALSE]
         \/ \E c \in Configs :
              /\ ~container.running /\ Settled(tree) /\ container' = container
              /\ record' = c /\ tree' = [tree EXCEPT !.options = c]
  BY Zenon DEF AddonManaged
<1>5. container' \in ContainerStates
  BY <1>2, <1>4, NewContainer, FalseTrue, Zenon
<1>6. record' \in Configs
  BY <1>1, <1>4, SMT
<1>7. \/ tree' = tree /\ (container'.running \/ AtRest(tree))
      \/ /\ ~container.running /\ Settled(tree) /\ container' = container
         /\ tree' = [tree EXCEPT !.options = record']
  BY <1>4, SMT
<1>8. tree' = tree \/ tree'
        = [data |-> tree.data, addon_config |-> tree.addon_config, options |-> record']
  BY <1>2, <1>6, <1>7, TreeSet, Zenon
<1>9. tree' \in Trees
  BY <1>2, <1>3, <1>6, <1>8, NewTree, Zenon
<1>10. tree'.data = tree.data /\ tree'.addon_config = tree.addon_config
  BY <1>8, SMT
<1>11. BakTypeOK' /\ job' \in Jobs /\ pc' \in Steps
  BY <1>1, <1>4, <1>5, <1>9, SMT DEF BakTypeOK, ContainerStates, Backups
<1>12. Placed'
  BY <1>1, <1>4, SMT DEF Placed
<1>13. Held'
  BY <1>1, <1>4, SMT DEF Held
<1>14. Archived'
  BY <1>1, <1>4, SMT DEF Archived
<1>15. Kept'
  BY <1>1, <1>4, <1>10, SMT DEF Kept, Settled, Whole, AtRest
<1>16. Moved'
  BY <1>1, <1>4, SMT DEF Moved, Undo
<1>17. Undone'
  BY <1>1, <1>4, SMT DEF Undone
<1> QED BY <1>11, <1>12, <1>13, <1>14, <1>15, <1>16, <1>17 DEF BakInv

LEMMA BakBeginsKeeps ==
  ASSUME BakInv, NEW b \in BackupIds, NEW action \in {"backup", "restore"},
         BakBegins(action, b)
  PROVE  BakInv'
<1>1. /\ tree \in Trees /\ record \in Configs /\ container \in ContainerStates
      /\ backups \in [BackupIds -> Backups] /\ copied \in Trees
      /\ kept \in BOOLEAN /\ before \in Trees /\ next \in {1, 2} /\ faults \in 0..MaxFaults
      /\ job \in Jobs /\ pc \in Steps
      /\ Placed /\ Held /\ Archived /\ Kept /\ Moved /\ Undone
  BY BakFacts
<1>2. container \in ContainerStates /\ job \in Jobs /\ tree \in Trees
        /\ backups \in [BackupIds -> Backups] /\ copied \in Trees
  BY <1>1
<1>3. /\ pc = "idle" /\ copied' = Empty /\ faults' = 0
      /\ job' = [action |-> action, backup |-> b, running |-> container.running,
                 outcome |-> "none", found |-> tree]
      /\ IF Settled(tree) THEN before' = tree /\ kept' = (kept /\ tree = before)
                          ELSE UNCHANGED <<before, kept>>
      /\ pc' = (IF container.running THEN "policy-off" ELSE IF action = "backup" THEN "pack"
           ELSE "copy")
      /\ UNCHANGED <<tree, record, container, backups, next>>
      /\ (action = "restore" => Found(b))
  BY Zenon DEF BakBegins, Remembers
<1>4. kept' \in BOOLEAN /\ before' \in Trees
  BY <1>2, <1>1, <1>3, Zenon
<1>5. action = "restore" => backups[b].file = "whole" 
  BY <1>3, Zenon DEF Found
<1>6. 0 \in 0..MaxFaults
  BY BackupsAssumption, SMT
<1>7. container.running \in BOOLEAN /\ pc' \in Steps
  BY <1>2, <1>3, SMT DEF ContainerStates, Steps, Making
<1>8. BakTypeOK' /\ job' \in Jobs /\ pc' \in Steps
  BY <1>1, <1>3, <1>4, <1>6, <1>7, EmptyType, SMT DEF BakTypeOK, ContainerStates, Backups, Jobs
<1>9. Placed'
  BY <1>1, <1>3, <1>5, SMT DEF Placed, Making, Restoring, Undoing, Undo, Archived
<1>10. Held'
  BY <1>1, <1>3, SMT DEF Held, Placed, Restoring, Undoing, Undo
<1>11. Archived'
  BY <1>1, <1>3, SMT DEF Archived
<1>12. Kept'
  BY <1>1, <1>3, SMT DEF Kept, Restoring, Undoing, Undo, Settled
<1>13. Moved'
  BY <1>1, <1>3, <1>5, SMT DEF Moved, Archive, Undo
<1>14. Undone'
  BY <1>1, <1>3, SMT DEF Undone
<1> QED BY <1>8, <1>9, <1>10, <1>11, <1>12, <1>13, <1>14 DEF BakInv

LEMMA PacksKeeps ==
  ASSUME BakInv, Packs
  PROVE  BakInv'
<1>1. /\ tree \in Trees /\ record \in Configs /\ container \in ContainerStates
      /\ backups \in [BackupIds -> Backups] /\ copied \in Trees
      /\ kept \in BOOLEAN /\ before \in Trees /\ next \in {1, 2} /\ faults \in 0..MaxFaults
      /\ job \in Jobs /\ pc \in Steps
      /\ Placed /\ Held /\ Archived /\ Kept /\ Moved /\ Undone
  BY BakFacts
<1>2. container \in ContainerStates /\ job \in Jobs /\ tree \in Trees
        /\ backups \in [BackupIds -> Backups] /\ copied \in Trees
  BY <1>1
<1>3. pc = "pack" /\ pc' = "sidecar"
      /\ UNCHANGED <<tree, record, container, copied, kept, next, job, before, faults>>
  BY Zenon DEF Packs, Goto
<1>4. job.backup \in BackupIds /\ job.action = "backup" /\ job.found = tree
  BY <1>1, <1>3, SMT DEF Placed, Held, Making
<1>5. backups' = [backups EXCEPT ![job.backup] =
                  [file |-> "whole", side |-> FALSE, tree |-> tree, config |-> record,
                   sound |-> Settled(job.found)]]
  BY Zenon DEF Packs
<1>6. [file |-> "whole", side |-> FALSE, tree |-> tree, config |-> record,
                   sound |-> Settled(job.found)] \in Backups
  BY <1>1, SMT DEF Backups, Settled, Whole
<1>7. backups' \in [BackupIds -> Backups]
  BY <1>2, <1>4, <1>5, <1>6, SMT
<1>8. Archived'
  BY <1>1, <1>3, <1>4, <1>5, SMT DEF Archived, Backups
<1>9. BakTypeOK' /\ job' \in Jobs /\ pc' \in Steps
  BY <1>1, <1>3, <1>7, SMT DEF BakTypeOK, Steps, Making, ContainerStates, Backups
<1>10. Placed'
  BY <1>1, <1>3, SMT DEF Placed, Making, Restoring, Undoing, Undo
<1>11. Held'
  BY <1>1, <1>3, SMT DEF Held, Restoring, Undoing, Undo
<1>12. Archived'
  BY <1>1, <1>8, SMT DEF Archived
<1>13. Kept'
  BY <1>1, <1>3, SMT DEF Kept, Restoring, Undoing, Undo
<1>14. Moved'
  BY <1>1, <1>3, SMT DEF Moved, Undo
<1>15. Undone'
  BY <1>1, <1>3, SMT DEF Undone
<1> QED BY <1>9, <1>10, <1>11, <1>12, <1>13, <1>14, <1>15 DEF BakInv

LEMMA CopiesKeeps ==
  ASSUME BakInv, Copies
  PROVE  BakInv'
<1>1. /\ tree \in Trees /\ record \in Configs /\ container \in ContainerStates
      /\ backups \in [BackupIds -> Backups] /\ copied \in Trees
      /\ kept \in BOOLEAN /\ before \in Trees /\ next \in {1, 2} /\ faults \in 0..MaxFaults
      /\ job \in Jobs /\ pc \in Steps
      /\ Placed /\ Held /\ Archived /\ Kept /\ Moved /\ Undone
  BY BakFacts
<1>2. container \in ContainerStates /\ job \in Jobs /\ tree \in Trees
        /\ backups \in [BackupIds -> Backups] /\ copied \in Trees
  BY <1>1
<1>3. pc = "copy" /\ copied' = PutFrom(copied, ROOTS[next], tree)
      /\ UNCHANGED <<tree, record, container, backups, job, before, faults>>
      /\ IF next = 1 THEN next' = 2 /\ UNCHANGED <<pc, kept>>
                     ELSE next' = 1 /\ pc' = "extract" /\ kept' = (kept \/ copied' = before)
  BY Zenon DEF Copies
<1>4. kept' \in BOOLEAN
  BY <1>1, <1>3, Zenon
<1>5. copied' \in Trees
  BY <1>2, <1>1, <1>3, PutsTree, Numbers, Zenon
<1>6. /\ next = 1 => copied'
           = [data |-> tree.data, addon_config |-> copied.addon_config,
           options |-> tree.options]
      /\ next = 2 => copied'
           = [data |-> copied.data, addon_config |-> tree.addon_config,
           options |-> copied.options]
  BY <1>2, <1>3, PutsDirectory, Numbers, Zenon
<1>7. next = 1 => copied'
        = [data |-> tree.data, addon_config |-> None, options |-> tree.options]
  BY <1>1, <1>3, <1>6, SMT DEF Held, Empty
<1>8. tree = [data |-> tree.data, addon_config |-> tree.addon_config,
        options |-> tree.options]
  BY <1>2, TreeIs, Zenon
<1>9. next = 2 => copied' = tree /\ (Settled(tree) => before = tree)
  BY <1>1, <1>3, <1>6, <1>8, SMT DEF Held, Kept, Empty
<1>10. BakTypeOK' /\ job' \in Jobs /\ pc' \in Steps
  BY <1>1, <1>3, <1>4, <1>5, SMT DEF BakTypeOK, Steps, Restoring, Undoing, ContainerStates,
     Backups
<1>11. Placed'
  BY <1>1, <1>3, SMT DEF Placed, Making
<1>12. Held'
  BY <1>1, <1>3, <1>7, <1>9, SMT DEF Held, Restoring, Undoing, Undo
<1>13. Archived'
  BY <1>1, <1>3, SMT DEF Archived
<1>14. Kept'
  BY <1>1, <1>3, <1>4, <1>9, SMT DEF Kept, Placed
<1>15. Moved'
  BY <1>1, <1>3, SMT DEF Moved, Archive, Undo
<1>16. Undone'
  BY <1>1, <1>3, SMT DEF Undone
<1> QED BY <1>10, <1>11, <1>12, <1>13, <1>14, <1>15, <1>16 DEF BakInv

LEMMA DropsKeeps ==
  ASSUME BakInv, Drops
  PROVE  BakInv'
<1>1. /\ tree \in Trees /\ record \in Configs /\ container \in ContainerStates
      /\ backups \in [BackupIds -> Backups] /\ copied \in Trees
      /\ kept \in BOOLEAN /\ before \in Trees /\ next \in {1, 2} /\ faults \in 0..MaxFaults
      /\ job \in Jobs /\ pc \in Steps
      /\ Placed /\ Held /\ Archived /\ Kept /\ Moved /\ Undone
  BY BakFacts
<1>2. container \in ContainerStates /\ job \in Jobs /\ tree \in Trees
        /\ backups \in [BackupIds -> Backups] /\ copied \in Trees
  BY <1>1
<1>3. /\ pc \in {"drop", "undo-drop"} /\ pc' = (IF pc = "drop" THEN "place"
           ELSE "undo-place")
      /\ UNCHANGED <<record, container, backups, copied, kept, next, job, before>>
  BY Zenon DEF Drops
<1>4. \/ tree' = Put(tree, ROOTS[next], None, "none") /\ faults' = faults
      \/ tree' = Put(tree, ROOTS[next], Torn, "none") /\ faults < MaxFaults
           /\ faults' = faults + 1
  BY SMT DEF Drops
<1>5. tree' \in Trees
  BY <1>2, <1>1, <1>4, PutsTree, Numbers, Zenon
<1>6. faults' \in 0..MaxFaults /\ faults' >= faults
  BY <1>1, <1>4, BackupsAssumption, SMT
<1>7. \E x \in {None, Torn} :
        /\ tree' = Put(tree, ROOTS[next], x, "none")
        /\ x # None => faults' = faults + 1
  BY <1>4, Zenon
<1>8. \A x \in Torn..MaxMoments :
        /\ Put(tree, ROOTS[1], x, "none")
             = [data |-> x, addon_config |-> tree.addon_config, options |-> "none"]
        /\ Put(tree, ROOTS[2], x, "none")
             = [data |-> tree.data, addon_config |-> x, options |-> tree.options]
  BY <1>2, PutsDirectory, Zenon
<1>9. {None, Torn} \subseteq Torn..MaxMoments
  BY Numbers, Zenon
<1>10. \E x \in {None, Torn} :
         /\ next = 1 => tree'
              = [data |-> x, addon_config |-> tree.addon_config, options |-> "none"]
         /\ next = 2 => tree'
              = [data |-> tree.data, addon_config |-> x, options |-> tree.options]
         /\ x # None => faults' = faults + 1
  BY <1>7, <1>8, <1>9, Zenon
<1>11. Content(tree, ROOTS[1])' = tree'.data
         /\ Content(tree, ROOTS[2])' = tree'.addon_config
  BY <1>5, PutsDirectory, Numbers, Zenon
<1>12. BakTypeOK' /\ job' \in Jobs /\ pc' \in Steps
  BY <1>1, <1>3, <1>5, <1>6, SMT DEF BakTypeOK, Steps, Restoring, Undoing, Undo, ContainerStates,
     Backups
<1>13. Placed'
  BY <1>1, <1>3, SMT DEF Placed, Making, Restoring, Undoing, Undo
<1>14. Held'
  BY <1>1, <1>3, SMT DEF Held, Restoring, Undoing, Undo
<1>15. Archived'
  BY <1>1, <1>3, SMT DEF Archived
<1>16. Kept'
  BY <1>1, <1>3, SMT DEF Kept, Restoring, Undoing, Undo
<1>17. Moved'
  BY <1>1, <1>3, <1>6, <1>10, <1>11, SMT DEF Moved, Blocked, Archive, Undo
<1>18. Undone'
  BY <1>1, <1>3, SMT DEF Undone
<1> QED BY <1>12, <1>13, <1>14, <1>15, <1>16, <1>17, <1>18 DEF BakInv

LEMMA PlacesKeeps ==
  ASSUME BakInv, Places
  PROVE  BakInv'
<1>1. /\ tree \in Trees /\ record \in Configs /\ container \in ContainerStates
      /\ backups \in [BackupIds -> Backups] /\ copied \in Trees
      /\ kept \in BOOLEAN /\ before \in Trees /\ next \in {1, 2} /\ faults \in 0..MaxFaults
      /\ job \in Jobs /\ pc \in Steps
      /\ Placed /\ Held /\ Archived /\ Kept /\ Moved /\ Undone
  BY BakFacts
<1>2. container \in ContainerStates /\ job \in Jobs /\ tree \in Trees
        /\ backups \in [BackupIds -> Backups] /\ copied \in Trees
  BY <1>1
<1>3. pc # "idle" => job.backup \in BackupIds /\ Archive \in Backups
        /\ Archive.tree \in Trees /\ Archive.config \in Configs \cup {"none"}
  BY <1>1, SMT DEF Placed, Archive, Backups
<1>4. /\ pc = "place" /\ tree' = PutFrom(tree, ROOTS[next], Archive.tree)
      /\ (IF next = 1 THEN pc' = "drop" /\ next' = 2 ELSE pc' = "options" /\ next' = 1)
      /\ UNCHANGED <<record, container, backups, copied, kept, job, before, faults>>
  BY Zenon DEF Places, Archive
<1>5. Archive.tree \in Trees
  BY <1>3, <1>4, SMT
<1>6. tree' \in Trees
  BY <1>2, <1>5, <1>1, <1>4, PutsTree, Numbers, Zenon
<1>7. /\ PutFrom(tree, ROOTS[1], Archive.tree) =
             [data |-> Archive.tree.data, addon_config |-> tree.addon_config,
             options |-> Archive.tree.options]
      /\ PutFrom(tree, ROOTS[2], Archive.tree) =
             [data |-> tree.data, addon_config |-> Archive.tree.addon_config,
             options |-> tree.options]
  BY <1>2, <1>5, PutsDirectory, Numbers, Zenon
<1>8. /\ next = 1 => tree'
           = [data |-> Archive.tree.data, addon_config |-> tree.addon_config,
           options |-> Archive.tree.options]
      /\ next = 2 => tree'
           = [data |-> tree.data, addon_config |-> Archive.tree.addon_config,
           options |-> tree.options]
  BY <1>2, <1>4, <1>5, <1>7, Zenon
<1>9. BakTypeOK' /\ job' \in Jobs /\ pc' \in Steps
  BY <1>1, <1>4, <1>6, SMT DEF BakTypeOK, Steps, Restoring, Undoing, ContainerStates, Backups
<1>10. Placed'
  BY <1>1, <1>4, SMT DEF Placed, Making, Restoring, Undoing
<1>11. Held'
  BY <1>1, <1>4, SMT DEF Held, Restoring, Undoing
<1>12. Archived'
  BY <1>1, <1>4, SMT DEF Archived
<1>13. Kept'
  BY <1>1, <1>4, SMT DEF Kept, Restoring, Undoing
<1>14. Moved'
  BY <1>1, <1>4, <1>8, SMT DEF Moved, Archive, Undo
<1>15. Undone'
  BY <1>1, <1>4, SMT DEF Undone
<1> QED BY <1>9, <1>10, <1>11, <1>12, <1>13, <1>14, <1>15 DEF BakInv

LEMMA BakWritesRecordKeeps ==
  ASSUME BakInv, BakWritesRecord
  PROVE  BakInv'
<1>1. /\ tree \in Trees /\ record \in Configs /\ container \in ContainerStates
      /\ backups \in [BackupIds -> Backups] /\ copied \in Trees
      /\ kept \in BOOLEAN /\ before \in Trees /\ next \in {1, 2} /\ faults \in 0..MaxFaults
      /\ job \in Jobs /\ pc \in Steps
      /\ Placed /\ Held /\ Archived /\ Kept /\ Moved /\ Undone
  BY BakFacts
<1>2. pc = "record" /\ pc' = "progress" /\ record' = Archive.config
      /\ UNCHANGED <<tree, container, backups, copied, kept, next, job, before, faults>>
  BY Zenon DEF BakWritesRecord, Goto, Archive
<1>3. record' \in Configs
  BY <1>1, <1>2, SMT DEF Placed, Archive, Restoring, Undoing
<1>4. BakTypeOK' /\ job' \in Jobs /\ pc' \in Steps
  BY <1>1, <1>2, <1>3, SMT DEF BakTypeOK, Steps, Restoring, Undoing, ContainerStates, Backups
<1>5. Placed'
  BY <1>1, <1>2, SMT DEF Placed, Making, Restoring, Undoing, Undo
<1>6. Held'
  BY <1>1, <1>2, SMT DEF Held, Restoring, Undoing
<1>7. Archived'
  BY <1>1, <1>2, SMT DEF Archived
<1>8. Kept'
  BY <1>1, <1>2, SMT DEF Kept, Restoring, Undoing
<1>9. Moved'
  BY <1>1, <1>2, SMT DEF Moved, Archive, Undo
<1>10. Undone'
  BY <1>1, <1>2, SMT DEF Undone
<1> QED BY <1>4, <1>5, <1>6, <1>7, <1>8, <1>9, <1>10 DEF BakInv

LEMMA UndoesKeeps ==
  ASSUME BakInv, Undoes
  PROVE  BakInv'
<1>1. /\ tree \in Trees /\ record \in Configs /\ container \in ContainerStates
      /\ backups \in [BackupIds -> Backups] /\ copied \in Trees
      /\ kept \in BOOLEAN /\ before \in Trees /\ next \in {1, 2} /\ faults \in 0..MaxFaults
      /\ job \in Jobs /\ pc \in Steps
      /\ Placed /\ Held /\ Archived /\ Kept /\ Moved /\ Undone
  BY BakFacts
<1>2. container \in ContainerStates /\ job \in Jobs /\ tree \in Trees
        /\ backups \in [BackupIds -> Backups] /\ copied \in Trees
  BY <1>1
<1>3. /\ pc = "undo-place" /\ tree' = PutFrom(tree, ROOTS[next], copied)
      /\ (IF next = 1 THEN pc' = "undo-drop" /\ next' = 2 ELSE pc' = Finally /\ next' = 1)
      /\ UNCHANGED <<record, container, backups, copied, kept, job, before, faults>>
  BY Zenon DEF Undoes
<1>4. tree' \in Trees
  BY <1>2, <1>1, <1>3, PutsTree, Numbers, Zenon
<1>5. /\ PutFrom(tree, ROOTS[1], copied) =
             [data |-> copied.data, addon_config |-> tree.addon_config,
             options |-> copied.options]
      /\ PutFrom(tree, ROOTS[2], copied) =
             [data |-> tree.data, addon_config |-> copied.addon_config,
             options |-> tree.options]
  BY <1>2, PutsDirectory, Numbers, Zenon
<1>6. /\ next = 1 => tree'
           = [data |-> copied.data, addon_config |-> tree.addon_config,
           options |-> copied.options]
      /\ next = 2 => tree'
           = [data |-> tree.data, addon_config |-> copied.addon_config,
           options |-> tree.options]
  BY <1>2, <1>3, <1>5, Zenon
<1>7. copied = [data |-> copied.data, addon_config |-> copied.addon_config,
        options |-> copied.options]
  BY <1>2, TreeIs, Zenon
<1>8. next = 2 => tree' = job.found
  BY <1>1, <1>3, <1>6, <1>7, SMT DEF Moved, Held, Restoring, Undo
<1>9. BakTypeOK' /\ job' \in Jobs /\ pc' \in Steps
  BY <1>1, <1>3, <1>4, SMT DEF BakTypeOK, Steps, Restoring, Undo, Finally, ContainerStates,
     Backups
<1>10. Placed'
  BY <1>1, <1>3, SMT DEF Placed, Making, Restoring, Undo, Finally
<1>11. Held'
  BY <1>1, <1>3, SMT DEF Held, Restoring, Undo, Finally
<1>12. Archived'
  BY <1>1, <1>3, SMT DEF Archived
<1>13. Kept'
  BY <1>1, <1>3, SMT DEF Kept, Restoring, Undo, Finally
<1>14. Moved'
  BY <1>1, <1>3, <1>6, SMT DEF Moved, Undo, Finally
<1>15. Undone'
  BY <1>1, <1>3, <1>8, SMT DEF Undone, Placed, Moved
<1> QED BY <1>9, <1>10, <1>11, <1>12, <1>13, <1>14, <1>15 DEF BakInv

LEMMA RaisesKeeps ==
  ASSUME BakInv, Raises
  PROVE  BakInv'
<1>1. /\ tree \in Trees /\ record \in Configs /\ container \in ContainerStates
      /\ backups \in [BackupIds -> Backups] /\ copied \in Trees
      /\ kept \in BOOLEAN /\ before \in Trees /\ next \in {1, 2} /\ faults \in 0..MaxFaults
      /\ job \in Jobs /\ pc \in Steps
      /\ Placed /\ Held /\ Archived /\ Kept /\ Moved /\ Undone
  BY BakFacts
<1>2. /\ pc \notin {"idle", "end"} /\ next' = 1 /\ job' = [job EXCEPT !.outcome = "failed"]
      /\ UNCHANGED <<tree, record, container, backups, copied, kept, before>>
  BY Zenon DEF Raises
<1>3. /\ faults' \in 0..MaxFaults /\ faults' >= faults
      /\ Doomed \/ faults' = faults + 1
  BY <1>1, BackupsAssumption, SMT DEF Raises
<1>4. /\ pc \in {"policy-off", "stop", "policy-on", "start"} => pc' = "end"
      /\ pc \in {"pack", "sidecar", "copy"} \cup Undo => pc' = Finally
      /\ pc \in Undoing => pc' = "undo-drop"
  BY SMT DEF Raises, Handler, Undoing, Undo
<1>5. Doomed => \/ pc = "extract" /\ Archive.file # "whole"
                \/ pc \in {"place", "undo-place"} /\ Blocked
  BY SMT DEF Doomed, Archive, Blocked
<1>6. pc \in Undoing => faults' >= 1
  BY <1>1, <1>3, <1>5, SMT DEF Moved, Placed, Restoring, Undoing, Undo
<1>7. pc \in Undo => faults' >= 2
  BY <1>1, <1>3, <1>5, SMT DEF Moved, Undo
<1>8. job.action = "restore" /\ faults' <= 1 /\ (pc' = "policy-on" \/ (pc' = "end"
        /\ ~job.running))
        => tree = job.found
  BY <1>1, <1>2, <1>3, <1>4, <1>6, <1>7, SMT DEF Steps, Held, Placed, Finally, Making, Undo,
     Undoing, Restoring
<1>9. pc' \in {"policy-on", "end"} \/ (pc' = "undo-drop" /\ pc \in Undoing)
  BY <1>1, <1>2, <1>4, SMT DEF Steps, Finally, Making, Undo, Undoing, Restoring
<1>10. BakTypeOK' /\ job' \in Jobs /\ pc' \in Steps
  BY <1>1, <1>2, <1>3, <1>9, SMT DEF BakTypeOK, Steps, Restoring, Undo, ContainerStates, Backups,
     Jobs
<1>11. Placed'
  BY <1>1, <1>2, <1>4, SMT DEF Placed, Making, Restoring, Undoing, Undo, Finally, Steps
<1>12. Held'
  BY <1>1, <1>2, <1>9, SMT DEF Held, Restoring, Undoing, Undo
<1>13. Archived'
  BY <1>1, <1>2, SMT DEF Archived
<1>14. Kept'
  BY <1>1, <1>2, <1>9, SMT DEF Kept, Restoring, Undoing, Undo
<1>15. Moved'
  BY <1>1, <1>2, <1>6, <1>9, SMT DEF Moved, Undo
<1>16. Undone'
  BY <1>1, <1>2, <1>8, SMT DEF Undone
<1> QED BY <1>10, <1>11, <1>12, <1>13, <1>14, <1>15, <1>16 DEF BakInv

LEMMA BakCrashesKeeps ==
  ASSUME BakInv, BakCrashes
  PROVE  BakInv'
<1>1. /\ tree \in Trees /\ record \in Configs /\ container \in ContainerStates
      /\ backups \in [BackupIds -> Backups] /\ copied \in Trees
      /\ kept \in BOOLEAN /\ before \in Trees /\ next \in {1, 2} /\ faults \in 0..MaxFaults
      /\ job \in Jobs /\ pc \in Steps
      /\ Placed /\ Held /\ Archived /\ Kept /\ Moved /\ Undone
  BY BakFacts
<1>2. container \in ContainerStates /\ job \in Jobs /\ tree \in Trees
        /\ backups \in [BackupIds -> Backups] /\ copied \in Trees
  BY <1>1
<1>3. /\ pc # "idle" /\ pc' = "idle" /\ next' = 1 /\ copied' = Empty /\ job' = NoJob
           /\ faults' = 0
      /\ UNCHANGED <<tree, record, backups, kept, before>>
  BY Zenon DEF BakCrashes, Forgets
<1>4. \/ container' = container
      \/ (container.running => AtRest(tree))
           /\ container' = [container EXCEPT !.running = container.auto]
  BY Zenon DEF BakCrashes
<1>5. container.auto \in BOOLEAN
  BY <1>2, SMT DEF ContainerStates
<1>6. [container EXCEPT !.running = container.auto] \in ContainerStates
  BY <1>2, <1>5, ContainerSet, Zenon
<1>7. container' \in ContainerStates
  BY <1>2, <1>6, <1>4, Zenon
<1>8. container' = container \/ (container.running => AtRest(tree))
  BY <1>4, Zenon
<1>9. NoJob \in Jobs /\ 0 \in 0..MaxFaults /\ NoJob.action = "none" 
  BY EmptyType, BackupsAssumption, SMT DEF NoJob, Jobs
<1>10. BakTypeOK' /\ job' \in Jobs /\ pc' \in Steps
  BY <1>1, <1>3, <1>7, <1>9, SMT DEF BakTypeOK, Steps, ContainerStates, Backups, Jobs, NoJob
<1>11. Placed'
  BY <1>1, <1>3, <1>9, SMT DEF Placed, Making, Restoring, Undoing, Undo
<1>12. Held'
  BY <1>1, <1>3, SMT DEF Held, Restoring, Undoing, Undo
<1>13. Archived'
  BY <1>1, <1>3, SMT DEF Archived
<1>14. Kept'
  BY <1>1, <1>3, <1>8, SMT DEF Kept, Restoring, Undoing, Undo, AtRest
<1>15. Moved'
  BY <1>1, <1>3, SMT DEF Moved, Undo
<1>16. Undone'
  BY <1>1, <1>3, SMT DEF Undone
<1> QED BY <1>10, <1>11, <1>12, <1>13, <1>14, <1>15, <1>16 DEF BakInv

LEMMA DamagedKeeps ==
  ASSUME BakInv, NEW b \in BackupIds, Damaged(b)
  PROVE  BakInv'
<1>1. /\ tree \in Trees /\ record \in Configs /\ container \in ContainerStates
      /\ backups \in [BackupIds -> Backups] /\ copied \in Trees
      /\ kept \in BOOLEAN /\ before \in Trees /\ next \in {1, 2} /\ faults \in 0..MaxFaults
      /\ job \in Jobs /\ pc \in Steps
      /\ Placed /\ Held /\ Archived /\ Kept /\ Moved /\ Undone
  BY BakFacts
<1>2. container \in ContainerStates /\ job \in Jobs /\ tree \in Trees
        /\ backups \in [BackupIds -> Backups] /\ copied \in Trees
  BY <1>1
<1>3. backups' = [backups EXCEPT ![b].file = "damaged"] /\ faults < MaxFaults
        /\ faults' = faults + 1
      /\ UNCHANGED <<tree, record, container, copied, kept, pc, next, job, before>>
  BY Zenon DEF Damaged
<1>4. SameArchives
  BY <1>2, <1>3, ArchiveVouched, Zenon
<1>5. faults' \in 0..MaxFaults
  BY <1>1, <1>3, BackupsAssumption, SMT
<1>6. pc # "idle" => Archive'.tree = Archive.tree /\ Archive'.config = Archive.config
  BY <1>1, <1>3, <1>4, SMT DEF Placed, Archive, SameArchives
<1>7. BakTypeOK' /\ job' \in Jobs /\ pc' \in Steps
  BY <1>1, <1>3, <1>5, SMT DEF BakTypeOK, ContainerStates, Backups
<1>8. Placed'
  BY <1>1, <1>3, SMT DEF Placed
<1>9. Held'
  BY <1>1, <1>3, SMT DEF Held
<1>10. Archived'
  BY <1>1, <1>4, SMT DEF Archived, SameArchives
<1>11. Kept'
  BY <1>1, <1>3, SMT DEF Kept
<1>12. Moved'
  BY <1>1, <1>3, <1>6, SMT DEF Moved, Undo
<1>13. Undone'
  BY <1>1, <1>3, <1>6, SMT DEF Undone
<1> QED BY <1>7, <1>8, <1>9, <1>10, <1>11, <1>12, <1>13 DEF BakInv

LEMMA BakInitially == BakInit => BakInv
<1> SUFFICES ASSUME BakInit PROVE BakInv
  OBVIOUS
<1>1. PICK c \in Configs : tree = [data |-> 0, addon_config |-> 0, options |-> c]
  BY SMT DEF BakInit
<1>2. tree \in Trees
  BY <1>1, Numbers, NewTree, Zenon
<1>3. NoBackup \in Backups /\ ~NoBackup.sound /\ NoBackup.file # "whole"
  BY EmptyType, SMT DEF NoBackup, Backups
<1>4. backups \in [BackupIds -> Backups] /\ \A b \in BackupIds : backups[b] = NoBackup
  BY <1>3, SMT DEF BakInit
<1>5. NoJob \in Jobs /\ NoJob.action = "none"
  BY EmptyType, SMT DEF NoJob, Jobs
<1>6. container \in ContainerStates
  BY NewContainer, FalseTrue, Zenon DEF BakInit
<1>7. BakTypeOK
  <2>1. record \in Configs /\ next \in {1, 2} /\ faults \in 0..MaxFaults
    BY <1>1, BackupsAssumption, SMT DEF BakInit
  <2> QED BY <1>2, <1>4, <1>6, <2>1, EmptyType, FalseTrue, Zenon
           DEF BakInit, BakTypeOK, ContainerStates, Backups
<1>8. Settled(tree)
  BY <1>1, SMT DEF Settled, Whole
<1>9. Archived
  BY <1>3, <1>4, Zenon DEF Archived
<1>10. Placed /\ Held /\ Kept /\ Moved /\ Undone
  BY <1>5, <1>8, SMT DEF BakInit, Placed, Held, Kept, Moved, Undone, Making, Restoring,
     Undoing, Undo, Settled
<1> QED BY <1>5, <1>7, <1>9, <1>10, Zenon DEF BakInit, BakInv, Steps

LEMMA BakStep == BakInv /\ [BakNext]_bakVars => BakInv'
<1> SUFFICES ASSUME BakInv, [BakNext]_bakVars PROVE BakInv'
  OBVIOUS
<1>1. ASSUME NEW b \in BackupIds, NEW action \in {"backup", "restore"}, BakBegins(action, b)
      PROVE  BakInv'
  BY <1>1, BakBeginsKeeps
<1>2. ASSUME NEW b \in BackupIds, Damaged(b) PROVE BakInv'
  BY <1>2, DamagedKeeps
<1>3. CASE JobSteps
  BY <1>3, Zenon, BakPolicyOffKeeps, BakStopsKeeps, PacksKeeps, WritesSidecarKeeps,
     CopiesKeeps, ExtractsKeeps, DropsKeeps, PlacesKeeps, BakWritesOptionsKeeps,
     BakWritesRecordKeeps, BakReportsKeeps, UndoesKeeps, BakPolicyOnKeeps, BakStartsKeeps,
     BakEndsKeeps DEF JobSteps
<1>4. CASE UNCHANGED bakVars
  <2>1. Archive' = Archive /\ Blocked' = Blocked
    BY <1>4, Zenon DEF bakVars, Archive, Blocked
  <2>2. BakTypeOK' /\ (job \in Jobs)' /\ (pc \in Steps)'
    BY <1>4, Zenon DEF bakVars, BakInv, BakTypeOK
  <2>3. Placed' /\ Held' /\ Archived' /\ Kept'
    BY <1>4, ZenonT(60) DEF bakVars, BakInv, Placed, Held, Archived, Kept
  <2>4. Moved'
    BY <1>4, <2>1, Zenon DEF bakVars, BakInv, Moved
  <2>5. Undone'
    BY <1>4, <2>1, Zenon DEF bakVars, BakInv, Undone
  <2> QED BY <2>2, <2>3, <2>4, <2>5, Zenon DEF BakInv
<1> QED
  BY <1>1, <1>2, <1>3, <1>4, AddonWritesKeeps, AddonSettlesKeeps, AddonManagedKeeps,
     RaisesKeeps, BakCrashesKeeps, Zenon DEF BakNext

LEMMA BakAlways == BakSpec => []BakInv
  BY BakInitially, BakStep, PTL DEF BakSpec

-----------------------------------------------------------------------------
LEMMA FindsOneMoment == BakInv => BackupIsOneMoment
  BY Zenon DEF BakInv, Archived, BackupIsOneMoment

(* BackupIsOneMoment (addon_backup.py create, find): what find accepts is of *)
(* one moment of the add-on's life, whatever failed or died while it was made.*)
THEOREM BackupsAreOneMoment == BakSpec => []BackupIsOneMoment
  BY FindsOneMoment, BakAlways, PTL

LEMMA KeepsLastMoment == BakInv => LastMomentSurvives
  BY Zenon DEF BakInv, Kept, LastMomentSurvives

(* LastMomentSurvives (manager.py _backup_or_restore): over any number of     *)
(* restores that fail, die or fail to be undone.                             *)
THEOREM LastMomentIsKept == BakSpec => []LastMomentSurvives
  BY KeepsLastMoment, BakAlways, PTL

LEMMA UndoesOneError == BakInv => OneErrorIsUndone
<1>1. ASSUME BakInv PROVE OneErrorIsUndone
  <2> SUFFICES ASSUME job.action = "restore", faults <= 1,
                      pc = "policy-on" \/ (pc = "end" /\ ~job.running)
               PROVE  CASE job.outcome = "succeeded" ->
                             /\ tree = [Archive.tree EXCEPT !.options = Archive.config]
                             /\ record = tree.options
                        [] job.outcome = "failed" -> tree = job.found
    BY Zenon DEF OneErrorIsUndone, Archive
  <2>1. tree \in Trees /\ backups \in [BackupIds -> Backups] /\ Placed /\ Undone
    BY <1>1, BakFacts
  <2>2. CASE job.outcome = "failed"
    <3>1. tree = job.found
      BY <2>1, <2>2, SMT DEF Undone
    <3>2. job.outcome # "succeeded"
      BY <2>2, SMT
    <3> QED BY <2>2, <3>1, <3>2
  <2>3. CASE job.outcome = "succeeded"
    <3>1. /\ Archive.tree \in Trees /\ Archive.config \in Configs \cup {"none"}
          /\ job.outcome # "failed"
      BY <2>1, <2>3, SMT DEF Placed, Archive, Backups
    <3>2. [Archive.tree EXCEPT !.options = Archive.config] =
            [data |-> Archive.tree.data, addon_config |-> Archive.tree.addon_config,
             options |-> Archive.config]
      BY <3>1, TreeSet, Zenon
    <3>3. tree = [data |-> tree.data, addon_config |-> tree.addon_config,
                  options |-> tree.options]
      BY <2>1, TreeIs, Zenon
    <3>4. /\ tree.data = Archive.tree.data /\ tree.addon_config = Archive.tree.addon_config
          /\ tree.options = Archive.config /\ record = Archive.config
      BY <2>1, <2>3, SMT DEF Undone
    <3>5. tree = [Archive.tree EXCEPT !.options = Archive.config] /\ record = tree.options
      BY <3>2, <3>3, <3>4, Zenon
    <3> HIDE DEF Archive
    <3> QED BY <2>3, <3>1, <3>5
  <2>4. job.outcome = "succeeded" \/ job.outcome = "failed"
    BY <2>1, SMT DEF Undone
  <2> HIDE DEF Archive
  <2> QED BY <2>2, <2>3, <2>4, Zenon
<1> QED BY <1>1

(* OneErrorIsUndone: the except clause of the restore, from whichever call it *)
(* is entered.                                                               *)
THEOREM OneErrorGoesBack == BakSpec => []OneErrorIsUndone
  BY UndoesOneError, BakAlways, PTL
=============================================================================
