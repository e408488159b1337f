------------------------------ MODULE Bundles ------------------------------
(* "opiha-apps backup" and "opiha-apps restore" (opiha_apps/backup.py): the  *)
(* state of all apps as one archive, made while they are all stopped, and    *)
(* its recovery into a new directory.  What an app keeps is counted by its   *)
(* writes; an archive holds that count for every app.                        *)
EXTENDS Integers

CONSTANTS Apps,       \* the apps of the manager, all of the reviewed catalog
          MaxWrites   \* bound: writes of an app

ASSUME BundlesAssumption == MaxWrites \in Nat

VARIABLES
  app,       \* its container, its data, the autostart option on its record and
             \* whether its directory is journaled
  bpc,       \* create's next step
  left,      \* the apps its loop has still to go through
  ran,       \* those it found running and has stopped
  unresumed, \* errors
  staged,    \* the copy under way
  asked,     \* create's call: whether with a signing key, and (read by properties
             \* only) what ran when it began
  output,    \* the bundle and its signature
  recovery   \* restore: its next step, what it has extracted, the destination

bunVars == <<app, bpc, left, ran, unresumed, staged, asked, output, recovery>>

Absent == -1
Nothing == [a \in Apps |-> Absent]
NoCall == [key |-> FALSE, running |-> {}]
NoOutput == [file |-> "none", signed |-> FALSE, content |-> Nothing, journals |-> {}]

BunInit ==
  /\ app \in [Apps -> [recorded : BOOLEAN, journal : BOOLEAN, running : {FALSE}, auto : {FALSE},
                     autostart : BOOLEAN, data : {Absent, 0}]]
  /\ \A a \in Apps : (app[a].recorded \/ app[a].journal) <=> app[a].data = 0
  /\ bpc = "idle" /\ left = {} /\ unresumed = {} /\ staged = Nothing
  /\ ran = {} /\ asked = NoCall
  /\ output = NoOutput
  /\ recovery = [pc |-> "idle", content |-> Nothing, there |-> "none"]

(* The process holds the operation lock from the first stop to the end.      *)
Locked == bpc \notin {"idle", "failed", "done"}

-----------------------------------------------------------------------------
(* The apps and the jobs of the manager.                                     *)

AppRuns(a) ==
  /\ app[a].running /\ app[a].data < MaxWrites
  /\ app' = [app EXCEPT ![a].data = @ + 1]
  /\ UNCHANGED <<bpc, left, ran, unresumed, staged, asked, output, recovery>>

(* A start takes the policy from the record, a stop leaves it, an update with *)
(* other options brings back what ran.                                       *)
AppJob(a) ==
  /\ ~Locked /\ app[a].recorded /\ ~app[a].journal
  /\ \/ app' = [app EXCEPT ![a].running = TRUE, ![a].auto = app[a].autostart]
     \/ app' = [app EXCEPT ![a].running = FALSE]
     \/ \E auto \in BOOLEAN :
          app' = [app EXCEPT ![a].autostart = auto, ![a].auto = auto /\ app[a].running]
  /\ UNCHANGED <<bpc, left, ran, unresumed, staged, asked, output, recovery>>

-----------------------------------------------------------------------------
(* create.                                                                   *)

(* Whichever way it ends, the process is gone and with it what it kept.      *)
call == <<ran, unresumed, staged, asked>>
Ends(as) == bpc' = as /\ ran' = {} /\ unresumed' = {} /\ staged' = Nothing /\ asked' = NoCall

(* records(): a journaled first install may have a directory but no record.  *)
Recorded == {a \in Apps : app[a].recorded}

BunBegins(key) ==
  /\ bpc \in {"idle", "failed"} /\ output = NoOutput
  /\ asked' = [key |-> key, running |-> {a \in Apps : app[a].running}]
  /\ bpc' = "stop" /\ left' = Recorded
  /\ UNCHANGED <<app, ran, unresumed, staged, output, recovery>>

(* A journal or a failing call ends the loop; either way the finally clause  *)
(* goes through the apps noted so far.                                       *)
Noted(a) == IF app[a].running THEN ran \cup {a} ELSE ran

(* Mutation: the restart policy goes, the app goes on                        *)
PolicyOnly(a) ==
  /\ bpc = "stop" /\ a \in left /\ ~app[a].journal
  /\ left' = left \ {a} /\ ran' = Noted(a)
  /\ app' = [app EXCEPT ![a].auto = FALSE]
  /\ UNCHANGED <<bpc, staged, unresumed, asked, output, recovery>>

BunStops(a) ==
  /\ bpc = "stop" /\ a \in left
  /\ \/ /\ ~app[a].journal /\ left' = left \ {a}
        /\ ran' = Noted(a)
        /\ app' = [app EXCEPT ![a].auto = FALSE, ![a].running = FALSE]
        /\ UNCHANGED <<bpc, staged>>
     \/ /\ bpc' = "abort" /\ left' = Recorded \ left
        /\ UNCHANGED <<ran, app, staged>>
     \/ /\ ~app[a].journal /\ bpc' = "abort" /\ left' = (Recorded \ left) \cup {a}
        /\ ran' = Noted(a)
        /\ app' = [app EXCEPT ![a].auto = FALSE]
        /\ UNCHANGED staged
  /\ UNCHANGED <<unresumed, asked, output, recovery>>

BunStopped ==
  /\ bpc = "stop" /\ left = {}
  /\ bpc' = "copy" /\ left' = Apps
  /\ UNCHANGED <<app, ran, unresumed, staged, asked, output, recovery>>

(* copy_tree of apps/, directory by directory; the disk may be full.         *)
BunCopies(a) ==
  /\ bpc = "copy" /\ a \in left
  /\ \/ /\ left' = left \ {a} /\ staged' = [staged EXCEPT ![a] = app[a].data]
        /\ UNCHANGED bpc
     \/ bpc' = "abort" /\ left' = Recorded /\ UNCHANGED staged
  /\ UNCHANGED <<app, ran, unresumed, asked, output, recovery>>

BunCopied ==
  /\ bpc = "copy" /\ left = {}
  /\ bpc' = "resume" /\ left' = Recorded
  /\ UNCHANGED <<app, ran, unresumed, staged, asked, output, recovery>>

PolicyBack(a) == [app EXCEPT ![a].auto = a \in ran /\ app[a].autostart]

(* Mutation: an app that does not resume goes unnoticed                      *)
ResumesQuietly(a) ==
  /\ bpc \in {"resume", "abort"} /\ a \in left /\ left' = left \ {a}
  /\ app' \in {app, PolicyBack(a), [PolicyBack(a) EXCEPT ![a].running = a \in ran]}
  /\ UNCHANGED <<bpc, ran, unresumed, staged, asked, output, recovery>>

(* finally: the recorded policy for those that ran, none for the others;     *)
(* then a start.  An error is kept for the end and the others go on.         *)
BunResumes(a) ==
  /\ bpc \in {"resume", "abort"} /\ a \in left /\ left' = left \ {a}
  /\ \/ /\ app' = [PolicyBack(a) EXCEPT ![a].running = a \in ran]
        /\ UNCHANGED unresumed
     \/ unresumed' = unresumed \cup {a} /\ app' \in {app, PolicyBack(a)}
  /\ UNCHANGED <<bpc, ran, staged, asked, output, recovery>>

BunResumed ==
  /\ bpc \in {"resume", "abort"} /\ left = {}
  /\ IF bpc = "abort" \/ unresumed # {} THEN Ends("failed") ELSE bpc' = "pack" /\ UNCHANGED call
  /\ UNCHANGED <<app, left, output, recovery>>

(* pack, encrypt, name; every step works on files of a temporary directory.  *)
BunPacks ==
  /\ bpc = "pack"
  /\ \/ /\ output' = [file |-> "whole", signed |-> FALSE, content |-> staged,
                      journals |-> {a \in Apps : app[a].journal}]
        /\ IF asked.key THEN bpc' = "sign" /\ UNCHANGED call ELSE Ends("done")
     \/ Ends("failed") /\ UNCHANGED output
  /\ UNCHANGED <<app, left, recovery>>

BunSigns ==
  /\ bpc = "sign"
  /\ \/ output' = [output EXCEPT !.signed = TRUE] /\ Ends("done")
     \/ Ends("failed") /\ UNCHANGED output
  /\ UNCHANGED <<app, left, recovery>>

BunCrashes ==
  /\ Locked /\ Ends("idle") /\ left' = {}
  /\ UNCHANGED <<app, output, recovery>>

(* What lies on the backup disk may be damaged or changed.                   *)
BunDamaged ==
  /\ output.file = "whole" /\ output' = [output EXCEPT !.file = "damaged"]
  /\ UNCHANGED <<app, bpc, left, ran, unresumed, staged, asked, recovery>>

-----------------------------------------------------------------------------
(* restore, in a process without a manager.  Its catalog has no add-ons: a   *)
(* bundle with one is refused, whatever else it holds.                       *)

(* extract: every file listed, with its checksum, in directories of apps the *)
(* catalog knows, none of them in the middle of a replacement.               *)
Accepted ==
  /\ output.file = "whole"
  /\ \A a \in Apps : output.content[a] # Absent => a \notin output.journals

RecoveryStarts ==
  /\ recovery.pc = "idle" /\ recovery.there = "none" /\ output.file # "none"
  /\ recovery' = [recovery EXCEPT !.pc = "extract"]
  /\ UNCHANGED <<app, bpc, left, ran, unresumed, staged, asked, output>>

(* A file read before the damage, or not read, is as it was.                 *)
RecoveryExtracts ==
  /\ recovery.pc = "extract" /\ Accepted
  /\ recovery' = [recovery EXCEPT !.pc = "replace",
                    !.content = IF output.file = "whole" THEN output.content ELSE Nothing]
  /\ UNCHANGED <<app, bpc, left, ran, unresumed, staged, asked, output>>

(* Refused, or a file or a tool fails; what was extracted is removed.        *)
RecoveryFails ==
  /\ recovery.pc # "idle"
  /\ recovery' = [recovery EXCEPT !.pc = "idle", !.content = Nothing]
  /\ UNCHANGED <<app, bpc, left, ran, unresumed, staged, asked, output>>

(* os.replace onto what has appeared there since fails.                      *)
RecoveryReplaces ==
  /\ recovery.pc = "replace" /\ recovery.there = "none"
  /\ recovery' = [recovery EXCEPT !.pc = "idle", !.there = "restored"]
  /\ UNCHANGED <<app, bpc, left, ran, unresumed, staged, asked, output>>

SomethingAppears ==
  /\ recovery.there = "none"
  /\ recovery' = [recovery EXCEPT !.there = "other"]
  /\ UNCHANGED <<app, bpc, left, ran, unresumed, staged, asked, output>>

-----------------------------------------------------------------------------
BunNext ==
  \/ \E a \in Apps : AppRuns(a) \/ AppJob(a) \/ BunStops(a) \/ BunCopies(a) \/ BunResumes(a)
  \/ \E key \in BOOLEAN : BunBegins(key)
  \/ BunStopped \/ BunCopied \/ BunResumed \/ BunPacks \/ BunSigns
  \/ BunCrashes \/ BunDamaged
  \/ RecoveryStarts \/ RecoveryExtracts \/ RecoveryFails \/ RecoveryReplaces \/ SomethingAppears

BunSpec == BunInit /\ [][BunNext]_bunVars

-----------------------------------------------------------------------------
Counts == [Apps -> Absent..MaxWrites]

BunTypeOK ==
  /\ app \in [Apps -> [recorded : BOOLEAN, journal : BOOLEAN, running : BOOLEAN, auto : BOOLEAN,
                       autostart : BOOLEAN, data : Absent..MaxWrites]]
  /\ left \subseteq Apps /\ unresumed \subseteq Apps
  /\ ran \subseteq Apps /\ staged \in Counts
  /\ asked \in [key : BOOLEAN, running : SUBSET Apps]
  /\ output \in [file : {"none", "whole", "damaged"}, signed : BOOLEAN, content : Counts,
                 journals : SUBSET Apps]

(* The copy is of one instant: while it goes through the directories of the  *)
(* apps nobody writes in those that it has been through.  And recovery puts  *)
(* all of it in place, or nothing, whatever became of the bundle meanwhile.  *)
RecoversOneInstant ==
  /\ bpc = "copy" => \A a \in Apps \ left : staged[a] = app[a].data
  /\ recovery.there = "restored" => recovery.content = output.content

(* "A snapshot/resume failure is reported, not called success": when create  *)
(* returns, everything that ran when it began runs again with the restart    *)
(* policy of its record, and the bundle holds what every app keeps and is    *)
(* signed if a key was given.                                                *)
SuccessMeansResumed ==
  [][bpc # "done" /\ bpc' = "done" =>
       /\ \A a \in asked.running : app[a].running /\ app[a].auto = app[a].autostart
       /\ \A a \in Apps : app[a].data # Absent => output'.content[a] # Absent
       /\ asked.key => output'.signed]_bunVars
=============================================================================
