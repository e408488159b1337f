---------------------------- MODULE BoardProofs -----------------------------
(* Proofs about the upkeep of a board: bundles of app state, the two         *)
(* installers, the fleet's commands and the features of the appliance, for   *)
(* any number of apps, releases, hosts and features.                         *)
EXTENDS Bundles, Installers, Fleet, Stack, TLAPS

-----------------------------------------------------------------------------
(* Where the apps are at each step of create: stopped one by one, all of     *)
(* them still while they are copied, and back as they were or noted.         *)
App == [recorded : BOOLEAN, journal : BOOLEAN, running : BOOLEAN, auto : BOOLEAN,
        autostart : BOOLEAN, data : Absent..MaxWrites]
Calls == [key : BOOLEAN, running : SUBSET Apps]

Up(a) == app[a].running /\ app[a].auto = app[a].autostart
Covers(c) == \A a \in Apps : app[a].data # Absent => c[a] # Absent

MakingBundle ==
  /\ \A a \in Apps : /\ app[a].running => app[a].recorded
                     /\ app[a].recorded => app[a].data # Absent
  /\ ran \subseteq Recorded
  /\ ~Locked => ran = {} /\ unresumed = {}
  /\ bpc = "stop" =>
       /\ \A a \in Recorded \ left : ~app[a].running
       /\ \A a \in asked.running \ ran : a \in left /\ app[a].running
  /\ bpc = "copy" =>
       /\ \A a \in Apps : ~app[a].running
       /\ \A a \in Apps \ left : staged[a] = app[a].data
  /\ bpc \in {"copy", "resume"} => asked.running \subseteq ran
  /\ bpc = "resume" => \A a \in ran \ left : a \in unresumed \/ Up(a)
  /\ bpc \in {"resume", "pack"} => Covers(staged)
  /\ bpc \in {"pack", "sign"} => \A a \in asked.running : Up(a)
  /\ bpc = "sign" => Covers(output.content)

(* The output that recovery reads is the only one there will ever be.        *)
Recovering ==
  /\ bpc \in {"stop", "copy", "resume", "abort", "pack"} => output.file = "none"
  /\ recovery.pc # "idle" => output.file # "none" /\ recovery.there # "restored"
  /\ recovery.pc = "replace" => recovery.content = output.content
  /\ recovery.there = "restored" => recovery.content = output.content /\ output.file # "none"

Outputs == [file : {"none", "whole", "damaged"}, signed : BOOLEAN, content : Counts,
            journals : SUBSET Apps]
Recoveries == [pc : {"idle", "extract", "replace"}, content : Counts,
               there : {"none", "other", "restored"}]

BunInv ==
  /\ BunTypeOK
  /\ recovery \in Recoveries
  /\ MakingBundle
  /\ Recovering

-----------------------------------------------------------------------------
(* What one assignment does to a record or to the apps.                      *)
LEMMA SetRunning ==
  \A r \in App, x \in BOOLEAN :
    /\ [r EXCEPT !.running = x] \in App
    /\ [r EXCEPT !.running = x].running = x
    /\ [r EXCEPT !.running = x].auto = r.auto
    /\ [r EXCEPT !.running = x].autostart = r.autostart
    /\ [r EXCEPT !.running = x].data = r.data
    /\ [r EXCEPT !.running = x].recorded = r.recorded
  BY SMT DEF App

LEMMA SetAuto ==
  \A r \in App, x \in BOOLEAN :
    /\ [r EXCEPT !.auto = x] \in App
    /\ [r EXCEPT !.auto = x].auto = x
    /\ [r EXCEPT !.auto = x].autostart = r.autostart
    /\ [r EXCEPT !.auto = x].running = r.running
    /\ [r EXCEPT !.auto = x].data = r.data
    /\ [r EXCEPT !.auto = x].recorded = r.recorded
  BY SMT DEF App

LEMMA SetAutostart ==
  \A r \in App, x \in BOOLEAN :
    /\ [r EXCEPT !.autostart = x] \in App
    /\ [r EXCEPT !.autostart = x].running = r.running
    /\ [r EXCEPT !.autostart = x].data = r.data
    /\ [r EXCEPT !.autostart = x].recorded = r.recorded
  BY SMT DEF App

LEMMA SetData ==
  \A r \in App, x \in Absent..MaxWrites :
    /\ [r EXCEPT !.data = x] \in App
    /\ [r EXCEPT !.data = x].data = x
    /\ [r EXCEPT !.data = x].auto = r.auto
    /\ [r EXCEPT !.data = x].autostart = r.autostart
    /\ [r EXCEPT !.data = x].running = r.running
    /\ [r EXCEPT !.data = x].recorded = r.recorded
  BY SMT DEF App

(* Only a changes, into r, and only by what is not its record.               *)
Becomes(a, r) ==
  /\ app' \in [Apps -> App] /\ app'[a] = r
  /\ \A b \in Apps \ {a} : app'[b] = app[b]
  /\ r.recorded = app[a].recorded
  /\ Recorded' = Recorded

LEMMA AppBecomes ==
  ASSUME app \in [Apps -> App], NEW a \in Apps, NEW r \in App, r.recorded = app[a].recorded,
         app' = [app EXCEPT ![a] = r]
  PROVE  Becomes(a, r)
<1>1. app' \in [Apps -> App] /\ app'[a] = r /\ \A b \in Apps \ {a} : app'[b] = app[b]
  BY SMT
<1>2. \A b \in Apps : app'[b].recorded = app[b].recorded
  BY <1>1, Zenon
<1> QED BY <1>1, <1>2, Zenon DEF Becomes, Recorded

(* Both the policy and the container, in either order.                       *)
LEMMA AppSwitches ==
  ASSUME app \in [Apps -> App], NEW a \in Apps, NEW run \in BOOLEAN, NEW auto \in BOOLEAN,
         \/ app' = [app EXCEPT ![a].auto = auto, ![a].running = run]
         \/ app' = [app EXCEPT ![a].running = run, ![a].auto = auto]
  PROVE  \E r \in App : /\ Becomes(a, r) /\ r.running = run /\ r.auto = auto
                        /\ r.data = app[a].data /\ r.autostart = app[a].autostart
<1>1. app[a] \in App
  BY SMT
<1> DEFINE r == [app[a] EXCEPT !.auto = auto]
           s == [app[a] EXCEPT !.running = run]
<1>2. /\ r \in App /\ r.auto = auto /\ r.data = app[a].data /\ r.recorded = app[a].recorded
      /\ r.autostart = app[a].autostart
  BY <1>1, SetAuto, Zenon
<1>3. /\ s \in App /\ s.running = run /\ s.data = app[a].data /\ s.recorded = app[a].recorded
      /\ s.autostart = app[a].autostart
  BY <1>1, SetRunning, ZenonT(60)
<1>4. \/ app' = [app EXCEPT ![a] = [r EXCEPT !.running = run]]
      \/ app' = [app EXCEPT ![a] = [s EXCEPT !.auto = auto]]
  BY Zenon
<1> HIDE DEF r, s
<1>5. CASE app' = [app EXCEPT ![a] = [r EXCEPT !.running = run]]
  <2> DEFINE q == [r EXCEPT !.running = run]
  <2>1. /\ q \in App /\ q.running = run /\ q.auto = auto /\ q.data = app[a].data
        /\ q.recorded = app[a].recorded /\ q.autostart = app[a].autostart
    BY <1>2, SetRunning, ZenonT(60)
  <2>2. app' = [app EXCEPT ![a] = q]
    BY <1>5
  <2> HIDE DEF q
  <2> QED BY <2>1, <2>2, AppBecomes, Zenon
<1>6. CASE app' = [app EXCEPT ![a] = [s EXCEPT !.auto = auto]]
  <2> DEFINE q == [s EXCEPT !.auto = auto]
  <2>1. /\ q \in App /\ q.running = run /\ q.auto = auto /\ q.data = app[a].data
        /\ q.recorded = app[a].recorded /\ q.autostart = app[a].autostart
    BY <1>3, SetAuto, ZenonT(60)
  <2>2. app' = [app EXCEPT ![a] = q]
    BY <1>6
  <2> HIDE DEF q
  <2> QED BY <2>1, <2>2, AppBecomes, Zenon
<1> QED BY <1>4, <1>5, <1>6

LEMMA PolicyChanges ==
  ASSUME app \in [Apps -> App], NEW a \in Apps, NEW auto \in BOOLEAN,
         app' = [app EXCEPT ![a].auto = auto]
  PROVE  \E r \in App : Becomes(a, r) /\ r.running = app[a].running /\ r.data = app[a].data
<1>1. app[a] \in App
  BY SMT
<1> DEFINE q == [app[a] EXCEPT !.auto = auto]
<1>3. /\ q \in App /\ q.running = app[a].running /\ q.data = app[a].data
      /\ q.recorded = app[a].recorded
  BY <1>1, SetAuto, Zenon
<1>4. app' = [app EXCEPT ![a] = q]
  BY Zenon
<1> HIDE DEF q
<1> QED BY <1>3, <1>4, AppBecomes, Zenon

LEMMA AppsPut ==
  ASSUME NEW g \in [Apps -> App], NEW a \in Apps, NEW r \in App
  PROVE  /\ [g EXCEPT ![a] = r] \in [Apps -> App] /\ [g EXCEPT ![a] = r][a] = r
         /\ \A b \in Apps \ {a} : [g EXCEPT ![a] = r][b] = g[b]
  OBVIOUS

(* The policy first, and then the container as one more assignment.          *)
LEMMA AppComesBack ==
  ASSUME app \in [Apps -> App], NEW a \in Apps, NEW run \in BOOLEAN, NEW auto \in BOOLEAN,
         app' = [[app EXCEPT ![a].auto = auto] EXCEPT ![a].running = run]
  PROVE  \E r \in App : /\ Becomes(a, r) /\ r.running = run /\ r.auto = auto
                        /\ r.data = app[a].data /\ r.autostart = app[a].autostart
<1>1. app[a] \in App
  BY SMT
<1> DEFINE p == [app[a] EXCEPT !.auto = auto]
           g == [app EXCEPT ![a].auto = auto]
           q == [p EXCEPT !.running = run]
<1>2. /\ p \in App /\ p.auto = auto /\ p.data = app[a].data /\ p.recorded = app[a].recorded
      /\ p.autostart = app[a].autostart
  BY <1>1, SetAuto, Zenon
<1>3. g = [app EXCEPT ![a] = p]
  BY Zenon
<1>4. app' = [g EXCEPT ![a] = [g[a] EXCEPT !.running = run]]
  BY Zenon
<1> HIDE DEF p, g
<1>5. g[a] = p
  BY <1>2, <1>3, SMT
<1>6. app' = [g EXCEPT ![a] = q]
  BY <1>4, <1>5, Zenon
<1>7. /\ q \in App /\ q.running = run /\ q.auto = auto /\ q.data = app[a].data
      /\ q.recorded = app[a].recorded /\ q.autostart = app[a].autostart
  BY <1>2, SetRunning, ZenonT(60)
<1> HIDE DEF q
<1>8. /\ g \in [Apps -> App] /\ \A b \in Apps \ {a} : g[b] = app[b]
  BY <1>2, <1>3, SMT
<1>9. app' \in [Apps -> App] /\ app'[a] = q /\ \A b \in Apps \ {a} : app'[b] = app[b]
  <2> DEFINE f == [g EXCEPT ![a] = q]
  <2>1. f \in [Apps -> App] /\ f[a] = q /\ \A b \in Apps \ {a} : f[b] = g[b]
    BY <1>7, <1>8, AppsPut
  <2>2. app' = f
    BY <1>6
  <2> HIDE DEF f
  <2> QED BY <1>8, <2>1, <2>2, Zenon
<1>10. \A b \in Apps : app'[b].recorded = app[b].recorded
  BY <1>7, <1>9, Zenon
<1>11. Recorded' = Recorded
  BY <1>10, Zenon DEF Recorded
<1>12. Becomes(a, q)
  BY <1>7, <1>9, <1>11, Zenon DEF Becomes
<1> QED BY <1>7, <1>12, Zenon

LEMMA AppWrites ==
  ASSUME app \in [Apps -> App], NEW a \in Apps, app[a].data < MaxWrites,
         app' = [app EXCEPT ![a].data = @ + 1]
  PROVE  \E r \in App : /\ Becomes(a, r) /\ r.running = app[a].running /\ r.auto = app[a].auto
                        /\ r.autostart = app[a].autostart /\ r.data # Absent
<1>1. app[a] \in App
  BY SMT
<1> DEFINE n == app[a].data + 1
           q == [app[a] EXCEPT !.data = n]
<1>2. n \in Absent..MaxWrites /\ n # Absent
  BY <1>1, BundlesAssumption, SMT DEF App, Absent
<1>4. app' = [app EXCEPT ![a] = q]
  BY Zenon
<1> HIDE DEF n
<1>3. /\ q \in App /\ q.running = app[a].running /\ q.auto = app[a].auto
      /\ q.autostart = app[a].autostart /\ q.recorded = app[a].recorded /\ q.data = n
  BY <1>1, <1>2, SetData, ZenonT(60)
<1> HIDE DEF q
<1> QED BY <1>2, <1>3, <1>4, AppBecomes, Zenon

(* What a job does between bundles.                                          *)
LEMMA JobDone ==
  ASSUME app \in [Apps -> App], NEW a \in Apps, AppJob(a)
  PROVE  \E r \in App : Becomes(a, r) /\ r.data = app[a].data
<1>1. app[a] \in App /\ TRUE \in BOOLEAN /\ FALSE \in BOOLEAN
  BY SMT
<1>2. app[a].autostart \in BOOLEAN /\ app[a].running \in BOOLEAN
  BY <1>1, Zenon DEF App
<1>3. CASE app' = [app EXCEPT ![a].running = TRUE, ![a].auto = app[a].autostart]
  <2> DEFINE yes == TRUE
  <2>1. yes \in BOOLEAN /\ app' = [app EXCEPT ![a].running = yes, ![a].auto = app[a].autostart]
    BY <1>3
  <2> HIDE DEF yes
  <2> QED BY <1>2, <2>1, AppSwitches, Zenon
<1>4. CASE app' = [app EXCEPT ![a].running = FALSE]
  <2> DEFINE q == [app[a] EXCEPT !.running = FALSE]
  <2>1. q \in App /\ q.data = app[a].data /\ q.recorded = app[a].recorded
    BY <1>1, SetRunning, Zenon
  <2>2. app' = [app EXCEPT ![a] = q]
    BY <1>4, Zenon
  <2> HIDE DEF q
  <2> QED BY <2>1, <2>2, AppBecomes, Zenon
<1>5. ASSUME NEW auto \in BOOLEAN,
             app' = [app EXCEPT ![a].autostart = auto, ![a].auto = auto /\ app[a].running]
      PROVE  \E r \in App : Becomes(a, r) /\ r.data = app[a].data
  <2> DEFINE on == auto /\ app[a].running
             p == [app[a] EXCEPT !.autostart = auto]
             q == [p EXCEPT !.auto = on]
  <2>1. on \in BOOLEAN
    OBVIOUS
  <2>2. app' = [app EXCEPT ![a] = q]
    BY <1>5, Zenon
  <2> HIDE DEF on
  <2>3. p \in App /\ p.data = app[a].data /\ p.recorded = app[a].recorded
    BY <1>1, SetAutostart, Zenon
  <2> HIDE DEF p
  <2>4. q \in App /\ q.data = app[a].data /\ q.recorded = app[a].recorded
    BY <2>1, <2>3, SetAuto, Zenon
  <2> HIDE DEF q
  <2> QED BY <2>2, <2>4, AppBecomes, Zenon
<1> QED BY <1>3, <1>4, <1>5, Zenon DEF AppJob

LEMMA OutputSet ==
  \A o \in Outputs :
    /\ \A x \in BOOLEAN : /\ [o EXCEPT !.signed = x] \in Outputs
                          /\ [o EXCEPT !.signed = x].content = o.content
                          /\ [o EXCEPT !.signed = x].file = o.file
    /\ /\ [o EXCEPT !.file = "damaged"] \in Outputs
       /\ [o EXCEPT !.file = "damaged"].content = o.content
       /\ [o EXCEPT !.file = "damaged"].file = "damaged"
  BY SMT DEF Outputs

LEMMA RecoverySet ==
  ASSUME NEW r \in Recoveries
  PROVE  /\ \A p \in {"idle", "extract", "replace"} :
              [r EXCEPT !.pc = p] = [pc |-> p, content |-> r.content, there |-> r.there]
         /\ \A c \in Counts :
              [r EXCEPT !.content = c] = [pc |-> r.pc, content |-> c, there |-> r.there]
         /\ \A t \in {"none", "other", "restored"} :
              [r EXCEPT !.there = t] = [pc |-> r.pc, content |-> r.content, there |-> t]
  BY SMT DEF Recoveries

LEMMA NothingType == Nothing \in Counts
  BY BundlesAssumption, SMT DEF Nothing, Counts, Absent

-----------------------------------------------------------------------------
LEMMA BunInitially == BunInit => BunInv
<1> SUFFICES ASSUME BunInit PROVE BunInv
  OBVIOUS
<1>1. /\ app \in [Apps -> App]
      /\ \A a \in Apps : ~app[a].running /\ (app[a].recorded => app[a].data # Absent)
  <2>1. {Absent, 0} \subseteq Absent..MaxWrites /\ 0 # Absent
    BY BundlesAssumption, SMT DEF Absent
  <2>2. {FALSE} \subseteq BOOLEAN
    OBVIOUS
  <2>3. \A a \in Apps : app[a] \in App /\ app[a].running = FALSE
    <3> TAKE a \in Apps
    <3>1. app[a] \in [recorded : BOOLEAN, journal : BOOLEAN, running : {FALSE}, auto : {FALSE},
                     autostart : BOOLEAN, data : {Absent, 0}]
      BY Zenon DEF BunInit
    <3>2. app[a].running \in {FALSE}
      BY <3>1, Zenon
    <3> QED BY <2>1, <2>2, <3>1, <3>2, Zenon DEF App
  <2>4. app = [a \in Apps |-> app[a]]
    BY SMT DEF BunInit
  <2>5. \A a \in Apps : app[a].recorded => app[a].data = 0
    BY Zenon DEF BunInit
  <2> QED BY <2>1, <2>3, <2>4, <2>5, Zenon
<1>2. NoOutput \in Outputs /\ NoCall \in Calls
  BY NothingType, SMT DEF NoOutput, Outputs, NoCall, Calls
<1>3. recovery \in Recoveries
  BY NothingType, SMT DEF BunInit, Recoveries
<1>4. BunTypeOK
  BY <1>1, <1>2, NothingType, Zenon DEF BunInit, BunTypeOK, App, Outputs, Calls
<1>5. MakingBundle /\ Recovering
  BY <1>1, SMT DEF BunInit, MakingBundle, Recovering
<1> QED BY <1>3, <1>4, <1>5 DEF BunInv

(* Create itself does not move.                                              *)
BunKept == UNCHANGED <<bpc, left, ran, unresumed, staged, asked>>

LEMMA BunEnds ==
  ASSUME MakingBundle, NEW as \in {"idle", "failed", "done"}, Ends(as), UNCHANGED app
  PROVE  MakingBundle' /\ staged' \in Counts /\ asked' \in Calls
         /\ ran' \subseteq Apps /\ unresumed' \subseteq Apps
<1>1. /\ bpc' \in {"idle", "failed", "done"} /\ ran' = {} /\ unresumed' = {} /\ staged' = Nothing
      /\ asked' = NoCall /\ app' = app /\ Recorded' = Recorded
  BY Zenon DEF Ends, Recorded
<1>2. NoCall \in Calls
  BY SMT DEF NoCall, Calls
<1>3. bpc' \notin {"stop", "copy", "resume", "pack", "sign"}
  BY <1>1, SMT
<1>4. MakingBundle'
  BY <1>1, <1>3, Zenon DEF MakingBundle
<1> QED BY <1>1, <1>2, <1>4, NothingType, Zenon

(* The steps of create and of the apps.                                      *)
LEMMA MakingStep ==
  ASSUME BunInv, [BunNext]_bunVars
  PROVE  app' \in [Apps -> App] /\ left' \subseteq Apps /\ unresumed' \subseteq Apps
         /\ ran' \subseteq Apps /\ staged' \in Counts /\ asked' \in Calls /\ MakingBundle'
<1> DEFINE Goal == /\ app' \in [Apps -> App] /\ left' \subseteq Apps /\ unresumed' \subseteq Apps
                   /\ ran' \subseteq Apps /\ staged' \in Counts /\ asked' \in Calls /\ MakingBundle'
<1>0. /\ app \in [Apps -> App] /\ left \subseteq Apps /\ unresumed \subseteq Apps
      /\ ran \subseteq Apps /\ staged \in Counts /\ asked \in Calls /\ MakingBundle
      /\ Recorded \subseteq Apps /\ asked.running \subseteq Apps
      /\ output \in Outputs
  BY SMT DEF BunInv, BunTypeOK, App, Recorded, Calls, Outputs
<1> USE <1>0
<1>1. ASSUME NEW a \in Apps, AppRuns(a) PROVE Goal
  <2>1. PICK r \in App : /\ Becomes(a, r) /\ r.running = app[a].running /\ r.auto = app[a].auto
                         /\ r.autostart = app[a].autostart /\ r.data # Absent
    BY <1>1, AppWrites, Zenon DEF AppRuns
  <2>2. app[a].running /\ BunKept /\ UNCHANGED output
    BY <1>1, Zenon DEF AppRuns, BunKept
  <2>3. \A b \in Apps : app'[b].running = app[b].running /\ (Up(b) => Up(b)')
    BY <2>1, Zenon DEF Becomes, Up
  <2>4. \A b \in Apps : /\ app'[b].running => app'[b].recorded
                        /\ app'[b].recorded => app'[b].data # Absent
    BY <2>1, <2>3, Zenon DEF Becomes, MakingBundle, Recorded
  <2>5. app[a].data # Absent
    BY <2>2, Zenon DEF MakingBundle
  <2>6. \A b \in Apps : app'[b].data # Absent => app[b].data # Absent
    BY <2>1, <2>5, Zenon DEF Becomes
  <2>7. \A c : Covers(c) => Covers(c)'
    BY <2>6, Zenon DEF Covers
  <2>8. bpc # "copy"
    BY <2>2, Zenon DEF MakingBundle
  <2>9. \A b \in asked.running : Up(b) => Up(b)'
    BY <2>3, Zenon
  <2>10. Covers(staged) => Covers(staged)'
    BY <2>2, <2>6, Zenon DEF Covers, BunKept
  <2>11. Covers(output.content) => Covers(output.content)'
    BY <2>2, <2>6, Zenon DEF Covers, BunKept
  <2>12. MakingBundle'
    <3>1. /\ ran' \subseteq Recorded'
          /\ ~Locked' => ran' = {} /\ unresumed' = {}
          /\ bpc' \in {"copy", "resume"} => asked'.running \subseteq ran'
      BY <2>1, <2>2, Zenon DEF Becomes, MakingBundle, BunKept, Locked
    <3>2. bpc' = "stop" => /\ \A b \in Recorded' \ left' : ~app'[b].running
                           /\ \A b \in asked'.running \ ran' : b \in left' /\ app'[b].running
      BY <2>1, <2>2, <2>3, Zenon DEF Becomes, MakingBundle, BunKept
    <3>3. bpc' = "resume" => \A b \in ran' \ left' : b \in unresumed' \/ Up(b)'
      BY <2>2, <2>3, Zenon DEF MakingBundle, BunKept
    <3>4. bpc' \in {"pack", "sign"} => \A b \in asked'.running : Up(b)'
      BY <2>2, <2>9, Zenon DEF MakingBundle, BunKept
    <3>5. /\ bpc' \in {"resume", "pack"} => Covers(staged)'
          /\ bpc' = "sign" => Covers(output.content)'
      BY <2>2, <2>10, <2>11, Zenon DEF MakingBundle, BunKept
    <3> QED BY <2>2, <2>4, <2>8, <3>1, <3>2, <3>3, <3>4, <3>5, Zenon DEF MakingBundle, BunKept
  <2> QED BY <2>1, <2>2, <2>12, Zenon DEF Becomes, BunKept
<1>2. ASSUME NEW a \in Apps, AppJob(a) PROVE Goal
  <2>1. PICK r \in App : Becomes(a, r) /\ r.data = app[a].data
    BY <1>2, JobDone, Zenon
  <2>2. bpc \in {"idle", "failed", "done"} /\ app[a].recorded /\ BunKept
    BY <1>2, Zenon DEF AppJob, Locked, BunKept
  <2>3. bpc' = bpc /\ bpc \notin {"stop", "copy", "resume", "pack", "sign"}
    BY <2>2, SMT DEF BunKept
  <2>4. \A b \in Apps : /\ app'[b].running => app'[b].recorded
                        /\ app'[b].recorded => app'[b].data # Absent
    BY <2>1, <2>2, Zenon DEF Becomes, MakingBundle
  <2>5. ran' \subseteq Recorded' /\ (~Locked' => ran' = {} /\ unresumed' = {})
    BY <2>1, <2>2, Zenon DEF Becomes, MakingBundle, BunKept, Locked
  <2>6. MakingBundle'
    BY <2>3, <2>4, <2>5, Zenon DEF MakingBundle
  <2> QED BY <2>1, <2>2, <2>6, Zenon DEF Becomes, BunKept
<1>3. ASSUME NEW key \in BOOLEAN, BunBegins(key) PROVE Goal
  <2>1. /\ app' = app /\ bpc' = "stop" /\ left' = Recorded /\ UNCHANGED <<ran, unresumed, staged>>
        /\ asked' = [key |-> key, running |-> {a \in Apps : app[a].running}]
        /\ Recorded' = Recorded /\ Locked'
    BY <1>3, SMT DEF BunBegins, Recorded, Locked
  <2>2. {a \in Apps : app[a].running} \in SUBSET Apps
    BY Zenon
  <2>3. asked' \in Calls /\ asked'.running = {a \in Apps : app[a].running}
    BY <2>1, <2>2, Zenon DEF Calls
  <2>4. \A a \in asked'.running : a \in left' /\ app'[a].running
    BY <2>1, <2>3, Zenon DEF MakingBundle, Recorded
  <2>5. bpc' \notin {"copy", "resume", "pack", "sign"}
    BY <2>1, SMT
  <2>6. MakingBundle'
    BY <2>1, <2>4, <2>5, Zenon DEF MakingBundle
  <2> QED BY <2>1, <2>3, <2>6, Zenon
<1>4. ASSUME NEW a \in Apps, BunStops(a) PROVE Goal
  <2>0. bpc = "stop" /\ a \in left /\ UNCHANGED <<unresumed, staged, asked>>
    BY <1>4, Zenon DEF BunStops
  <2>1. CASE /\ left' = left \ {a} /\ ran' = Noted(a) /\ bpc' = bpc
             /\ app' = [app EXCEPT ![a].auto = FALSE, ![a].running = FALSE]
    <3> DEFINE no == FALSE
    <3>1. no \in BOOLEAN /\ app' = [app EXCEPT ![a].auto = no, ![a].running = no]
      BY <2>1
    <3>a. ~no
      OBVIOUS
    <3> HIDE DEF no
    <3>b. PICK r \in App : Becomes(a, r) /\ r.running = no /\ r.data = app[a].data
      BY <3>1, AppSwitches, Zenon
    <3>2. Becomes(a, r) /\ ~r.running /\ r.data = app[a].data
      BY <3>a, <3>b, Zenon
    <3>3. ran' \subseteq Recorded'
      BY <2>1, <3>2, Zenon DEF Noted, Becomes, MakingBundle, Recorded
    <3>4. \A b \in Apps : app'[b].running => b # a /\ app[b].running
      BY <3>2, Zenon DEF Becomes
    <3>5. \A b \in Apps : /\ app'[b].running => app'[b].recorded
                          /\ app'[b].recorded => app'[b].data # Absent
      <4> TAKE b \in Apps
      <4>1. /\ app[b].running => app[b].recorded
            /\ app[b].recorded => app[b].data # Absent
        BY Zenon DEF MakingBundle
      <4>2. CASE b = a
        BY <3>2, <4>1, <4>2, Zenon DEF Becomes
      <4>3. CASE b # a
        BY <3>2, <4>1, <4>3, Zenon DEF Becomes
      <4> QED BY <4>2, <4>3
    <3>6. \A b \in Recorded' \ left' : ~app'[b].running
      BY <2>0, <2>1, <3>2, <3>4, Zenon DEF Becomes, MakingBundle
    <3>7. bpc' = "stop"
      BY <2>0, <2>1, Zenon
    <3>8. ran' \subseteq Apps /\ left' \subseteq Apps
      BY <2>1, <3>2, <3>3, SMT DEF Becomes
    <3>10. ran \subseteq ran' /\ (app[a].running => a \in ran')
      BY <2>1, Zenon DEF Noted
    <3>11. \A b \in asked'.running \ ran' : b \in left' /\ app'[b].running
      <4> TAKE b \in asked'.running \ ran'
      <4>1. b \in asked.running \ ran /\ b \in Apps
        BY <2>0, <3>10, Zenon
      <4>2. b \in left /\ app[b].running
        BY <2>0, <4>1, Zenon DEF MakingBundle
      <4>3. b # a
        BY <3>10, <4>2, Zenon
      <4> QED BY <2>1, <3>2, <4>1, <4>2, <4>3, Zenon DEF Becomes
    <3>12. Locked' /\ bpc' \notin {"copy", "resume", "pack", "sign"}
      BY <3>7, SMT DEF Locked
    <3>9. MakingBundle'
      BY <3>3, <3>5, <3>6, <3>11, <3>12, Zenon DEF MakingBundle
    <3> QED BY <2>0, <3>2, <3>8, <3>9, Zenon DEF Becomes
  <2>4. ASSUME bpc' = "abort", ran' \subseteq Recorded', left' \subseteq Apps, Recorded' = Recorded,
               app' \in [Apps -> App],
               \A b \in Apps : /\ app'[b].running => app'[b].recorded
                               /\ app'[b].recorded => app'[b].data # Absent
        PROVE  Goal
    <3>1. Locked' /\ bpc' \notin {"stop", "copy", "resume", "pack", "sign"}
      BY <2>4, SMT DEF Locked
    <3>2. MakingBundle'
      BY <2>4, <3>1, Zenon DEF MakingBundle
    <3> QED BY <2>0, <2>4, <3>2, Zenon
  <2>2. CASE bpc' = "abort" /\ left' = Recorded \ left /\ UNCHANGED <<ran, app>>
    <3>1. Recorded' = Recorded
      BY <2>2, Zenon DEF Recorded
    <3> QED BY <2>2, <2>4, <3>1, Zenon DEF MakingBundle
  <2>3. CASE /\ bpc' = "abort" /\ left' = (Recorded \ left) \cup {a} /\ ran' = Noted(a)
             /\ app' = [app EXCEPT ![a].auto = FALSE]
    <3> DEFINE no == FALSE
    <3>1. no \in BOOLEAN /\ app' = [app EXCEPT ![a].auto = no]
      BY <2>3
    <3> HIDE DEF no
    <3>2. PICK r \in App : Becomes(a, r) /\ r.running = app[a].running /\ r.data = app[a].data
      BY <3>1, PolicyChanges, Zenon
    <3>3. ran' \subseteq Recorded'
      BY <2>3, <3>2, Zenon DEF Noted, Becomes, MakingBundle, Recorded
    <3>4. \A b \in Apps : /\ app'[b].running => app'[b].recorded
                          /\ app'[b].recorded => app'[b].data # Absent
      BY <3>2, Zenon DEF Becomes, MakingBundle
    <3> QED BY <2>3, <2>4, <3>2, <3>3, <3>4, Zenon DEF Becomes
  <2> QED BY <1>4, <2>1, <2>2, <2>3, Zenon DEF BunStops
<1>5. CASE BunStopped
  <2>1. /\ bpc = "stop" /\ left = {} /\ bpc' = "copy" /\ left' = Apps
        /\ UNCHANGED <<app, ran, unresumed, staged, asked>>
    BY <1>5, Zenon DEF BunStopped
  <2>2. \A a \in Apps : ~app[a].running
    BY <2>1, Zenon DEF MakingBundle, Recorded
  <2>3. Recorded' = Recorded
    BY <2>1, Zenon DEF Recorded
  <2>4. asked.running \subseteq ran
    BY <2>1, Zenon DEF MakingBundle
  <2>5. Locked' /\ bpc' \notin {"stop", "resume", "pack", "sign"}
    BY <2>1, SMT DEF Locked
  <2>6. MakingBundle'
    BY <2>1, <2>2, <2>3, <2>4, <2>5, Zenon DEF MakingBundle
  <2> QED BY <2>1, <2>6, Zenon
<1>6. ASSUME NEW a \in Apps, BunCopies(a) PROVE Goal
  <2>0. bpc = "copy" /\ UNCHANGED <<app, ran, unresumed, asked>>
    BY <1>6, Zenon DEF BunCopies
  <2>1. Recorded' = Recorded
    BY <2>0, Zenon DEF Recorded
  <2>2. CASE left' = left \ {a} /\ staged' = [staged EXCEPT ![a] = app[a].data] /\ bpc' = bpc
    <3>1. app[a].data \in Absent..MaxWrites
      BY SMT DEF App
    <3>2. /\ staged' \in Counts /\ staged'[a] = app[a].data
          /\ \A b \in Apps \ {a} : staged'[b] = staged[b]
      BY <2>2, <3>1, SMT DEF Counts
    <3>3. \A b \in Apps \ left' : staged'[b] = app[b].data
      BY <2>0, <2>2, <3>2, Zenon DEF MakingBundle
    <3>4. bpc' = "copy" /\ left' \subseteq Apps
      BY <2>0, <2>2, Zenon
    <3>6. Locked' /\ bpc' \notin {"stop", "resume", "pack", "sign"}
      BY <3>4, SMT DEF Locked
    <3>5. MakingBundle'
      BY <2>0, <2>1, <3>3, <3>4, <3>6, Zenon DEF MakingBundle
    <3> QED BY <2>0, <3>2, <3>4, <3>5, Zenon
  <2>3. CASE bpc' = "abort" /\ left' = Recorded /\ staged' = staged
    <3>1. Locked' /\ bpc' \notin {"stop", "copy", "resume", "pack", "sign"}
      BY <2>3, SMT DEF Locked
    <3>2. MakingBundle'
      BY <2>0, <2>1, <3>1, Zenon DEF MakingBundle
    <3> QED BY <2>0, <2>3, <3>2, Zenon
  <2> QED BY <1>6, <2>2, <2>3, Zenon DEF BunCopies
<1>7. CASE BunCopied
  <2>1. /\ bpc = "copy" /\ left = {} /\ bpc' = "resume" /\ left' = Recorded
        /\ UNCHANGED <<app, ran, unresumed, staged, asked>>
    BY <1>7, Zenon DEF BunCopied
  <2>2. Recorded' = Recorded
    BY <2>1, Zenon DEF Recorded
  <2>3. ran' \ left' = {}
    BY <2>1, SMT DEF MakingBundle
  <2>4. \A a \in Apps : staged'[a] = app'[a].data
    BY <2>1, Zenon DEF MakingBundle
  <2>5. Covers(staged)'
    BY <2>4, Zenon DEF Covers
  <2>6. Locked' /\ bpc' \notin {"stop", "copy", "pack", "sign"}
    BY <2>1, SMT DEF Locked
  <2>7. asked.running \subseteq ran
    BY <2>1, Zenon DEF MakingBundle
  <2>8. MakingBundle'
    BY <2>1, <2>2, <2>3, <2>5, <2>6, <2>7, Zenon DEF MakingBundle
  <2> QED BY <2>1, <2>8, Zenon
<1>8. ASSUME NEW a \in Apps, BunResumes(a) PROVE Goal
  <2>0. /\ bpc \in {"resume", "abort"} /\ a \in left /\ left' = left \ {a}
        /\ UNCHANGED <<bpc, ran, staged, asked>>
    BY <1>8, Zenon DEF BunResumes
  <2>4. Locked /\ Locked' /\ bpc \notin {"stop", "copy", "pack", "sign"}
    BY <2>0, SMT DEF Locked
  <2>5. ASSUME NEW r \in App, Becomes(a, r), r.data = app[a].data, r.running => app[a].recorded,
               unresumed' \subseteq Apps, unresumed \subseteq unresumed',
               a \in ran => a \in unresumed' \/ (r.running /\ r.auto = r.autostart)
        PROVE  Goal
    <3>1. \A b \in Apps : /\ app'[b].running => app'[b].recorded
                          /\ app'[b].recorded => app'[b].data # Absent
      BY <2>5, Zenon DEF Becomes, MakingBundle
    <3>2. bpc = "resume" => \A b \in ran \ left' : b \in unresumed' \/ Up(b)'
      <4> SUFFICES ASSUME bpc = "resume", NEW b \in ran \ left' PROVE b \in unresumed' \/ Up(b)'
        OBVIOUS
      <4>1. CASE b = a
        BY <2>5, <4>1, Zenon DEF Becomes, Up
      <4>2. CASE b # a
        <5>1. b \in ran \ left /\ b \in Apps
          BY <2>0, <4>2, Zenon
        <5>2. b \in unresumed \/ Up(b)
          BY <5>1, Zenon DEF MakingBundle
        <5>3. app'[b] = app[b]
          BY <2>5, <4>2, <5>1, Zenon DEF Becomes
        <5> QED BY <2>5, <5>2, <5>3, Zenon DEF Up
      <4> QED BY <4>1, <4>2
    <3>3. \A b \in Apps : app'[b].data = app[b].data
      BY <2>5, Zenon DEF Becomes
    <3>4. Covers(staged) => Covers(staged)'
      BY <2>0, <3>3, Zenon DEF Covers
    <3>6. MakingBundle'
      BY <2>0, <2>4, <2>5, <3>1, <3>2, <3>4, Zenon DEF Becomes, MakingBundle
    <3> QED BY <2>0, <2>5, <3>6, Zenon DEF Becomes
  <2> DEFINE on == a \in ran
             auto == on /\ app[a].autostart
  <2>6. on \in BOOLEAN /\ auto \in BOOLEAN
    OBVIOUS
  <2>7. (on => app[a].recorded) /\ app[a].autostart \in BOOLEAN
    BY SMT DEF MakingBundle, Recorded, App
  <2>1. CASE app' = [PolicyBack(a) EXCEPT ![a].running = a \in ran] /\ unresumed' = unresumed
    <3>1. app' = [[app EXCEPT ![a].auto = auto] EXCEPT ![a].running = on]
      BY <2>1, Zenon DEF PolicyBack
    <3> HIDE DEF on, auto
    <3>2. PICK r \in App : /\ Becomes(a, r) /\ r.running = on /\ r.auto = auto
                           /\ r.data = app[a].data /\ r.autostart = app[a].autostart
      BY <2>6, <3>1, AppComesBack, Zenon
    <3>3. on => r.running /\ r.auto = r.autostart
      BY <2>7, <3>2, Zenon DEF auto
    <3> QED BY <2>1, <2>5, <2>7, <3>2, <3>3, Zenon DEF on
  <2>2. CASE unresumed' = unresumed \cup {a} /\ app' \in {app, PolicyBack(a)}
    <3>1. PICK r \in App : Becomes(a, r) /\ r.running = app[a].running /\ r.data = app[a].data
      <4>1. CASE app' = app
        <5>1. Becomes(a, app[a])
          BY <4>1, Zenon DEF Becomes, Recorded
        <5> QED BY <5>1, SMT
      <4>2. CASE app' = PolicyBack(a)
        <5>1. app' = [app EXCEPT ![a].auto = auto]
          BY <4>2, Zenon DEF PolicyBack
        <5> HIDE DEF auto
        <5> QED BY <2>6, <5>1, PolicyChanges, Zenon
      <4> QED BY <2>2, <4>1, <4>2
    <3>2. app[a].running => app[a].recorded
      BY Zenon DEF MakingBundle
    <3> QED BY <2>2, <2>5, <3>1, <3>2, Zenon
  <2> QED BY <1>8, <2>1, <2>2, Zenon DEF BunResumes
<1>9. CASE BunResumed
  <2>1. bpc \in {"resume", "abort"} /\ left = {} /\ UNCHANGED <<app, left, output>>
    BY <1>9, Zenon DEF BunResumed
  <2>2. CASE Ends("failed")
    BY <2>1, <2>2, BunEnds, Zenon
  <2>3. CASE bpc # "abort" /\ unresumed = {} /\ bpc' = "pack" /\ UNCHANGED call
    <3>1. bpc = "resume" /\ UNCHANGED <<ran, unresumed, staged, asked>> /\ Recorded' = Recorded
      BY <2>1, <2>3, SMT DEF call, Recorded
    <3>2. \A a \in ran : Up(a)
      BY <2>1, <2>3, <3>1, Zenon DEF MakingBundle
    <3>3. asked.running \subseteq ran /\ Covers(staged)
      BY <3>1, SMT DEF MakingBundle
    <3>4. Covers(staged)' /\ \A a \in asked'.running : Up(a)'
      BY <2>1, <3>1, <3>2, <3>3, Zenon DEF Covers, Up
    <3>5. Locked' /\ bpc' \notin {"stop", "copy", "resume", "sign"}
      BY <2>3, SMT DEF Locked
    <3>6. MakingBundle'
      BY <2>1, <3>1, <3>4, <3>5, Zenon DEF MakingBundle
    <3> QED BY <2>1, <3>1, <3>6, Zenon
  <2> QED BY <1>9, <2>2, <2>3, Zenon DEF BunResumed
<1>10. CASE BunPacks \/ BunSigns \/ BunCrashes
  <2>1. UNCHANGED app /\ left' \subseteq left
    BY <1>10, SMT DEF BunPacks, BunSigns, BunCrashes
  <2>2. CASE \E as \in {"idle", "failed", "done"} : Ends(as)
    BY <2>1, <2>2, BunEnds, Zenon
  <2>3. CASE /\ bpc = "pack" /\ bpc' = "sign" /\ UNCHANGED call
             /\ output' = [file |-> "whole", signed |-> FALSE, content |-> staged,
                           journals |-> {a \in Apps : app[a].journal}]
    <3>1. UNCHANGED <<ran, unresumed, staged, asked>> /\ Recorded' = Recorded
      BY <2>1, <2>3, Zenon DEF call, Recorded
    <3>2. Covers(staged) /\ \A a \in asked.running : Up(a)
      BY <2>3, SMT DEF MakingBundle
    <3>3. output'.content = staged
      BY <2>3, Zenon
    <3>4. Covers(output.content)' /\ \A a \in asked'.running : Up(a)'
      BY <2>1, <3>1, <3>2, <3>3, Zenon DEF Covers, Up
    <3>5. Locked' /\ bpc' \notin {"stop", "copy", "resume", "pack"}
      BY <2>3, SMT DEF Locked
    <3>6. MakingBundle'
      BY <2>1, <3>1, <3>4, <3>5, Zenon DEF MakingBundle
    <3> QED BY <2>1, <3>1, <3>6, Zenon
  <2> QED BY <1>10, <2>2, <2>3, Zenon DEF BunPacks, BunSigns, BunCrashes
<1>11. CASE \/ BunDamaged \/ RecoveryStarts \/ RecoveryExtracts \/ RecoveryFails \/ RecoveryReplaces
            \/ SomethingAppears \/ UNCHANGED bunVars
  <2>1. UNCHANGED <<app, bpc, left, ran, unresumed, staged, asked>>
    BY <1>11, Zenon DEF BunDamaged, RecoveryStarts, RecoveryExtracts, RecoveryFails,
                        RecoveryReplaces, SomethingAppears, bunVars
  <2>2. output'.content = output.content
    <3>1. CASE BunDamaged
      BY <3>1, OutputSet, Zenon DEF BunDamaged
    <3>2. CASE output' = output
      BY <3>2, Zenon
    <3> QED BY <1>11, <3>1, <3>2, Zenon DEF RecoveryStarts, RecoveryExtracts, RecoveryFails,
                                            RecoveryReplaces, SomethingAppears, bunVars
  <2>3. Covers(output.content)' <=> Covers(output.content)
    BY <2>1, <2>2, Zenon DEF Covers
  <2>4. MakingBundle'
    BY <2>1, <2>3, Zenon DEF MakingBundle, Recorded, Covers, Up, Locked
  <2> QED BY <2>1, <2>4, Zenon
<1> QED BY <1>1, <1>2, <1>3, <1>4, <1>5, <1>6, <1>7, <1>8, <1>9, <1>10, <1>11, Zenon DEF BunNext

(* The steps of the output and of its recovery.                              *)
LEMMA RecoveringStep ==
  ASSUME BunInv, [BunNext]_bunVars
  PROVE  output' \in Outputs /\ recovery' \in Recoveries /\ Recovering'
<1>0. output \in Outputs /\ recovery \in Recoveries /\ Recovering /\ staged \in Counts
  BY Zenon DEF BunInv, BunTypeOK, Outputs
<1> USE <1>0
<1>1. CASE /\ UNCHANGED <<output, recovery>>
           /\ \/ bpc' \notin {"stop", "copy", "resume", "abort", "pack"}
              \/ bpc \in {"stop", "copy", "resume", "abort", "pack"}
              \/ output = NoOutput
              \/ bpc' = bpc
  <2>1. NoOutput.file = "none"
    BY SMT DEF NoOutput
  <2> QED BY <1>1, <2>1, Zenon DEF Recovering
<1>2. CASE BunPacks /\ ~UNCHANGED output
  <2>1. /\ bpc = "pack" /\ bpc' \in {"sign", "done"} /\ recovery' = recovery
        /\ output' = [file |-> "whole", signed |-> FALSE, content |-> staged,
                      journals |-> {a \in Apps : app[a].journal}]
    BY <1>2, Zenon DEF BunPacks, Ends
  <2>2. {a \in Apps : app[a].journal} \in SUBSET Apps
    BY Zenon
  <2>3. output' \in Outputs
    BY <2>1, <2>2, Zenon DEF Outputs
  <2>4. output.file = "none"
    BY <2>1, SMT DEF Recovering
  <2>5. recovery.pc = "idle" /\ recovery.there # "restored"
    BY <2>4, SMT DEF Recovering
  <2> QED BY <2>1, <2>3, <2>5, SMT DEF Recovering
<1>3. CASE BunSigns \/ BunDamaged
  <2>1. /\ recovery' = recovery
        /\ bpc' \in {"done", "failed"} \/ bpc' = bpc
    BY <1>3, Zenon DEF BunSigns, BunDamaged, Ends
  <2>2. /\ output' \in Outputs /\ output'.content = output.content
        /\ output.file = "none" <=> output'.file = "none"
    <3>1. TRUE \in BOOLEAN
      OBVIOUS
    <3>2. \/ output' = output
          \/ output' = [output EXCEPT !.signed = TRUE]
          \/ output.file = "whole" /\ output' = [output EXCEPT !.file = "damaged"]
      BY <1>3, Zenon DEF BunSigns, BunDamaged
    <3>3. CASE output' = output
      BY <3>3, Zenon
    <3>4. CASE output' = [output EXCEPT !.signed = TRUE]
      BY <3>1, <3>4, OutputSet, Zenon
    <3>5. CASE output.file = "whole" /\ output' = [output EXCEPT !.file = "damaged"]
      <4>1. output' \in Outputs /\ output'.content = output.content /\ output'.file = "damaged"
        BY <3>5, OutputSet, Zenon
      <4> QED BY <3>5, <4>1, SMT
    <3> QED BY <3>2, <3>3, <3>4, <3>5
  <2> QED BY <2>1, <2>2, SMT DEF Recovering
<1>4. CASE RecoveryStarts
  <2>1. /\ recovery.there = "none" /\ output.file # "none" /\ UNCHANGED <<bpc, output>>
        /\ recovery' = [pc |-> "extract", content |-> recovery.content, there |-> recovery.there]
    BY <1>4, RecoverySet, Zenon DEF RecoveryStarts
  <2> QED BY <2>1, SMT DEF Recovering, Recoveries
<1>5. CASE RecoveryExtracts
  <2>1. /\ recovery.pc = "extract" /\ output.file = "whole" /\ UNCHANGED <<bpc, output>>
        /\ recovery' = [recovery EXCEPT !.pc = "replace", !.content = output.content]
    BY <1>5, SMT DEF RecoveryExtracts, Accepted
  <2>2. output.content \in Counts
    BY SMT DEF Outputs
  <2>3. recovery' = [pc |-> "replace", content |-> output.content, there |-> recovery.there]
    <3> DEFINE d == [recovery EXCEPT !.pc = "replace"]
    <3>1. d = [pc |-> "replace", content |-> recovery.content, there |-> recovery.there]
      BY RecoverySet, Zenon
    <3>2. recovery' = [d EXCEPT !.content = output.content]
      BY <2>1
    <3> HIDE DEF d
    <3>3. d \in Recoveries /\ d.pc = "replace" /\ d.there = recovery.there
      BY <3>1, SMT DEF Recoveries
    <3> QED BY <2>2, <3>2, <3>3, RecoverySet, ZenonT(60)
  <2>4. recovery' \in Recoveries
    BY <2>2, <2>3, SMT DEF Recoveries
  <2>5. recovery.there # "restored" /\ output.file # "none"
    BY <2>1, SMT DEF Recovering
  <2>6. /\ recovery'.pc = "replace" /\ recovery'.content = output.content
        /\ recovery'.there = recovery.there
    BY <2>3, Zenon
  <2> QED BY <2>1, <2>4, <2>5, <2>6, Zenon DEF Recovering
<1>6. CASE RecoveryFails
  <2>1. /\ recovery.pc # "idle" /\ UNCHANGED <<bpc, output>>
        /\ recovery' = [recovery EXCEPT !.pc = "idle", !.content = Nothing]
    BY <1>6, Zenon DEF RecoveryFails
  <2>3. recovery' = [pc |-> "idle", content |-> Nothing, there |-> recovery.there]
    <3> DEFINE d == [recovery EXCEPT !.pc = "idle"]
    <3>1. d = [pc |-> "idle", content |-> recovery.content, there |-> recovery.there]
      BY RecoverySet, Zenon
    <3>2. recovery' = [d EXCEPT !.content = Nothing]
      BY <2>1
    <3> HIDE DEF d
    <3>3. d \in Recoveries /\ d.pc = "idle" /\ d.there = recovery.there
      BY <3>1, SMT DEF Recoveries
    <3> QED BY NothingType, <3>2, <3>3, RecoverySet, ZenonT(60)
  <2> QED BY <2>1, <2>3, NothingType, SMT DEF Recovering, Recoveries
<1>7. CASE RecoveryReplaces
  <2>1. /\ recovery.pc = "replace" /\ UNCHANGED <<bpc, output>>
        /\ recovery' = [recovery EXCEPT !.pc = "idle", !.there = "restored"]
    BY <1>7, Zenon DEF RecoveryReplaces
  <2>3. recovery' = [pc |-> "idle", content |-> recovery.content, there |-> "restored"]
    <3> DEFINE d == [recovery EXCEPT !.pc = "idle"]
    <3>1. d = [pc |-> "idle", content |-> recovery.content, there |-> recovery.there]
      BY RecoverySet, Zenon
    <3>2. recovery' = [d EXCEPT !.there = "restored"]
      BY <2>1
    <3> HIDE DEF d
    <3>3. d \in Recoveries /\ d.pc = "idle" /\ d.content = recovery.content
      BY <3>1, SMT DEF Recoveries
    <3> QED BY <3>2, <3>3, RecoverySet, Zenon
  <2> QED BY <2>1, <2>3, SMT DEF Recovering, Recoveries
<1>8. CASE SomethingAppears
  <2>1. /\ recovery.there = "none" /\ UNCHANGED <<bpc, output>>
        /\ recovery' = [pc |-> recovery.pc, content |-> recovery.content, there |-> "other"]
    BY <1>8, RecoverySet, Zenon DEF SomethingAppears
  <2> QED BY <2>1, SMT DEF Recovering, Recoveries
<1>9. ASSUME NEW a \in Apps, AppRuns(a) \/ AppJob(a) \/ BunStops(a) \/ BunCopies(a) \/ BunResumes(a)
      PROVE  UNCHANGED <<output, recovery>>
             /\ (bpc' = bpc \/ bpc \in {"stop", "copy", "resume", "abort", "pack"})
  BY <1>9, SMT DEF AppRuns, AppJob, BunStops, BunCopies, BunResumes
<1>12. ASSUME NEW key \in BOOLEAN, BunBegins(key)
      PROVE  UNCHANGED <<output, recovery>> /\ output = NoOutput
  BY <1>12, Zenon DEF BunBegins
<1>10. CASE \/ BunStopped \/ BunCopied \/ BunResumed \/ BunCrashes \/ UNCHANGED bunVars
            \/ (BunPacks /\ UNCHANGED output)
  <2>1. /\ UNCHANGED <<output, recovery>>
        /\ \/ bpc' \notin {"stop", "copy", "resume", "abort", "pack"}
           \/ bpc \in {"stop", "copy", "resume", "abort", "pack"}
           \/ output = NoOutput
           \/ bpc' = bpc
    BY <1>10, SMT DEF BunStopped, BunCopied, BunResumed, BunCrashes, BunPacks, bunVars, Ends
  <2> QED BY <1>1, <2>1
<1> QED BY <1>1, <1>2, <1>3, <1>4, <1>5, <1>6, <1>7, <1>8, <1>9, <1>10, <1>12, Zenon DEF BunNext

LEMMA BunStep == BunInv /\ [BunNext]_bunVars => BunInv'
  BY MakingStep, RecoveringStep, Zenon DEF BunInv, BunTypeOK, App, Outputs, Calls

LEMMA BunAlways == BunSpec => []BunInv
  BY BunInitially, BunStep, PTL DEF BunSpec

-----------------------------------------------------------------------------
(* For any apps: the copy is of one instant, and recovery puts all of it in  *)
(* place or nothing, though the bundle is damaged while it is read           *)
(* (backup.py create, extract and restore).                                  *)
THEOREM RecoveryIsOfOneInstant == BunSpec => []RecoversOneInstant
<1>1. BunInv => RecoversOneInstant
  BY Zenon DEF BunInv, MakingBundle, Recovering, RecoversOneInstant
<1> QED BY <1>1, BunAlways, PTL

(* When create returns, every app that ran when it began runs again with the *)
(* restart policy of its record, the bundle has the data of every app that   *)
(* keeps any, and it is signed if a key was given; for any number of apps,   *)
(* whichever call fails before (backup.py create).                           *)
THEOREM SuccessIsResumed == BunSpec => SuccessMeansResumed
<1> DEFINE Returned == /\ \A a \in asked.running : app[a].running /\ app[a].auto = app[a].autostart
                       /\ \A a \in Apps : app[a].data # Absent => output'.content[a] # Absent
                       /\ asked.key => output'.signed
<1>1. BunInv /\ [BunNext]_bunVars => [bpc # "done" /\ bpc' = "done" => Returned]_bunVars
  <2> SUFFICES ASSUME BunInv, BunNext, bpc # "done", bpc' = "done" PROVE Returned
    OBVIOUS
  <2>0. MakingBundle /\ output \in Outputs
    BY Zenon DEF BunInv, BunTypeOK, Outputs
  <2>1. BunPacks \/ BunSigns
    <3>1. bpc' = bpc \/ bpc' \in {"stop", "copy", "resume", "abort", "pack", "failed", "idle"}
          \/ BunPacks \/ BunSigns
      BY Zenon DEF BunNext, AppRuns, AppJob, BunStops, BunCopies, BunResumes, BunBegins, BunStopped,
                   BunCopied, BunResumed, BunCrashes, BunDamaged, RecoveryStarts, RecoveryExtracts,
                   RecoveryFails, RecoveryReplaces, SomethingAppears, Ends
    <3> QED BY <3>1, SMT
  <2>2. CASE BunPacks
    <3>1. /\ bpc = "pack" /\ ~asked.key
          /\ output' = [file |-> "whole", signed |-> FALSE, content |-> staged,
                        journals |-> {a \in Apps : app[a].journal}]
      BY <2>2, SMT DEF BunPacks, Ends
    <3>2. output'.content = staged
      BY <3>1, Zenon
    <3>3. Covers(staged) /\ \A a \in asked.running : Up(a)
      BY <2>0, <3>1, SMT DEF MakingBundle
    <3> QED BY <3>1, <3>2, <3>3, Zenon DEF Covers, Up
  <2>3. CASE BunSigns
    <3>1. bpc = "sign" /\ output' = [output EXCEPT !.signed = TRUE]
      BY <2>3, SMT DEF BunSigns, Ends
    <3>2. output'.content = output.content /\ output'.signed = TRUE
      BY <2>0, <3>1, SMT DEF Outputs
    <3>3. Covers(output.content) /\ \A a \in asked.running : Up(a)
      BY <2>0, <3>1, SMT DEF MakingBundle
    <3> QED BY <3>2, <3>3, Zenon DEF Covers, Up
  <2> QED BY <2>1, <2>2, <2>3
<1> QED BY <1>1, BunAlways, PTL DEF BunSpec, SuccessMeansResumed

-----------------------------------------------------------------------------
(* What an installer that is at work has done so far: the files it has       *)
(* written are its own, and those it will write over are not somebody's.     *)
InPlace ==
  /\ ipc \in {"config", "component", "unit", "select"} => release[version] = "whole"
  /\ ipc \in {"unit", "select", "marker"} => place["component"] \in Versions
  /\ ipc \in {"select", "marker"} => place["unit"] \in Versions

Ours(f) == place[f] # Foreign /\ (kind = "apps" => place[f] # Edited)

(* A finished installation's files can be edited by hand, never become those *)
(* of others, and stay there.                                                *)
Owned ==
  /\ ipc \in {"release", "config", "component"} => Ours("component")
  /\ ipc \in {"release", "config", "component", "unit"} => Ours("unit")
  /\ marker # NoRelease => \A f \in {"component", "unit"} : place[f] \notin {NoRelease, Foreign}

InsInv ==
  /\ InsTypeOK
  /\ ipc \in {"idle", "release", "config", "component", "unit", "select", "marker"}
  /\ InPlace
  /\ Owned

LEMMA BytesType == \A f \in OwnFiles, v \in Versions : BytesOf(f, v) \in Versions
  BY InstallersAssumption, SMT DEF BytesOf, OwnFiles, Versions

LEMMA InsInitially == InsInit => InsInv
<1> SUFFICES ASSUME InsInit PROVE InsInv
  OBVIOUS
<1>1. 1 \in Versions
  BY InstallersAssumption, SMT DEF Versions
<1>2. InsTypeOK
  BY <1>1, Zenon DEF InsInit, InsTypeOK
<1>3. InPlace /\ Owned
  BY SMT DEF InsInit, InPlace, Owned
<1> QED BY <1>2, <1>3, Zenon DEF InsInit, InsInv

LEMMA InsStep == InsInv /\ [InsNext]_insVars => InsInv'
<1> SUFFICES ASSUME InsInv, [InsNext]_insVars PROVE InsInv'
  OBVIOUS
<1> USE DEF InsInv, InsTypeOK, InPlace, Owned, Ours, NoRelease, Foreign, Edited
<1>0. /\ Versions \subseteq Nat \ {0}
      /\ \A v \in Versions : Panel[v] \in Versions
      /\ OwnFiles = {"config", "component", "unit"}
      /\ \A f \in OwnFiles, v \in Versions : BytesOf(f, v) \in Versions
  <2>1. Versions \subseteq Nat \ {0}
    BY InstallersAssumption, SMT DEF Versions
  <2>2. \A v \in Versions : Panel[v] \in Versions
    BY InstallersAssumption, Zenon
  <2> QED BY <2>1, <2>2, BytesType, Zenon DEF OwnFiles
<1>1. CASE HandEdits
  BY <1>0, <1>1, SMT DEF HandEdits
<1>2. CASE PanelRestored
  BY <1>0, <1>2, SMT DEF PanelRestored
<1>3. ASSUME NEW v \in Versions, NEW adopt \in BOOLEAN, InsBegins(v, adopt) PROVE InsInv'
  <2>1. Ours("component") /\ Ours("unit")
    <3>1. CASE kind = "apps"
      BY <1>0, <1>3, <3>1, SMT DEF InsBegins, MayInstall, Preview
    <3>2. CASE kind = "host"
      BY <1>0, <1>3, <3>2, SMT DEF InsBegins, MayInstall, Planned
    <3> QED BY <3>1, <3>2
  <2> QED BY <1>3, <2>1, SMT DEF InsBegins
<1>4. CASE InsRelease
  BY <1>4, SMT DEF InsRelease
<1>5. CASE InsConfig
  BY <1>0, <1>5, SMT DEF InsConfig
<1>6. CASE InsComponent
  BY <1>0, <1>6, SMT DEF InsComponent, InsFile
<1>7. CASE InsUnit
  BY <1>0, <1>7, SMT DEF InsUnit, InsFile
<1>8. CASE InsSelects
  BY <1>8, SMT DEF InsSelects
<1>9. CASE InsMarks
  BY <1>0, <1>9, SMT DEF InsMarks
<1>10. CASE InsDies
  BY <1>10, SMT DEF InsDies
<1>11. CASE UNCHANGED insVars
  BY <1>11, SMT DEF insVars
<1> QED BY <1>1, <1>2, <1>3, <1>4, <1>5, <1>6, <1>7, <1>8, <1>9, <1>10, <1>11 DEF InsNext

LEMMA InsAlways == InsSpec => []InsInv
  BY InsInitially, InsStep, PTL DEF InsSpec

(* The type invariant.                                                       *)
THEOREM InstallersTyped == InsSpec => []InsTypeOK
<1>1. InsInv => InsTypeOK
  BY DEF InsInv
<1> QED BY <1>1, InsAlways, PTL

(* However often an installer dies and is run again, whatever is edited in   *)
(* between and whatever files the releases have in common, it writes over no *)
(* file of others; the manager's over none changed by hand, the appliance's  *)
(* not over an edited configuration (install.py preview and install, host.py *)
(* plan and deploy).                                                         *)
THEOREM LocalChangesAreKept == InsSpec => LocalChangesStay
<1> DEFINE Kept == \A f \in OwnFiles :
                     /\ ipc # "idle"
                     /\ place[f] = Foreign \/ (place[f] = Edited /\ (kind = "apps" \/ f = "config"))
                     => place'[f] = place[f]
<1>1. InsInv /\ [InsNext]_insVars => [Kept]_insVars
  <2> SUFFICES ASSUME InsInv, InsNext PROVE Kept
    OBVIOUS
  <2>1. OwnFiles = {"config", "component", "unit"}
    BY DEF OwnFiles
  <2> USE <2>1 DEF InsInv, InsTypeOK, Owned, Ours, NoRelease, Foreign, Edited
  <2>2. CASE InsConfig
    BY <2>2, SMT DEF InsConfig
  <2>3. CASE InsComponent
    BY <2>3, SMT DEF InsComponent, InsFile
  <2>4. CASE InsUnit
    BY <2>4, SMT DEF InsUnit, InsFile
  <2>5. CASE HandEdits \/ PanelRestored
    BY <2>5, SMT DEF HandEdits, PanelRestored
  <2>6. CASE UNCHANGED place
    BY <2>6, Zenon
  <2> QED BY <2>2, <2>3, <2>4, <2>5, <2>6, Zenon
          DEF InsNext, InsBegins, InsRelease, InsSelects, InsMarks, InsDies
<1> QED BY <1>1, InsAlways, PTL DEF InsSpec, LocalChangesStay

(* The release that is selected has the bytes it was published with when it  *)
(* is selected, in either installer (install.py install, host.py deploy).    *)
THEOREM SelectsOnlyWhole == InsSpec => SelectsWhole
<1>1. InsInv /\ [InsNext]_insVars => [current' # current => release'[current'] = "whole"]_insVars
  <2> SUFFICES ASSUME InsInv, InsNext, current' # current PROVE release'[current'] = "whole"
    OBVIOUS
  <2>1. InsSelects
    BY DEF InsNext, HandEdits, PanelRestored, InsBegins, InsRelease, InsConfig, InsComponent,
           InsUnit, InsFile, InsMarks, InsDies
  <2> QED BY <2>1, SMT DEF InsSelects, InsInv, InPlace
<1> QED BY <1>1, InsAlways, PTL DEF InsSpec, SelectsWhole

-----------------------------------------------------------------------------
(* Fleet: one field of the command after another.                            *)
FleetCommands == [op : OPS \cup {"none"}, listed : BOOLEAN, selected : SUBSET Hosts,
                  todo : SUBSET Hosts, known : SUBSET (Hosts \cup Strangers), failed : BOOLEAN,
                  exit : {"none", "ok", "error"}]

(* What one step of a command changes in its state, and what it leaves.      *)
LEMMA SetOp ==
  \A c \in FleetCommands, x \in OPS \cup {"none"} :
    /\ [c EXCEPT !.op = x] \in FleetCommands
    /\ [c EXCEPT !.op = x].op = x /\ [c EXCEPT !.op = x].listed = c.listed
    /\ [c EXCEPT !.op = x].selected = c.selected /\ [c EXCEPT !.op = x].todo = c.todo
    /\ [c EXCEPT !.op = x].known = c.known /\ [c EXCEPT !.op = x].failed = c.failed
    /\ [c EXCEPT !.op = x].exit = c.exit
  BY SMT DEF FleetCommands

LEMMA SetSelected ==
  \A c \in FleetCommands, x \in SUBSET Hosts :
    /\ [c EXCEPT !.selected = x] \in FleetCommands
    /\ [c EXCEPT !.selected = x].selected = x /\ [c EXCEPT !.selected = x].op = c.op
    /\ [c EXCEPT !.selected = x].listed = c.listed /\ [c EXCEPT !.selected = x].todo = c.todo
    /\ [c EXCEPT !.selected = x].known = c.known /\ [c EXCEPT !.selected = x].failed = c.failed
    /\ [c EXCEPT !.selected = x].exit = c.exit
  BY SMT DEF FleetCommands

LEMMA SetTodo ==
  \A c \in FleetCommands, x \in SUBSET Hosts :
    /\ [c EXCEPT !.todo = x] \in FleetCommands
    /\ [c EXCEPT !.todo = x].todo = x /\ [c EXCEPT !.todo = x].op = c.op
    /\ [c EXCEPT !.todo = x].listed = c.listed /\ [c EXCEPT !.todo = x].selected = c.selected
    /\ [c EXCEPT !.todo = x].known = c.known /\ [c EXCEPT !.todo = x].failed = c.failed
    /\ [c EXCEPT !.todo = x].exit = c.exit
  BY SMT DEF FleetCommands

LEMMA SetKnown ==
  \A c \in FleetCommands, x \in SUBSET (Hosts \cup Strangers) :
    /\ [c EXCEPT !.known = x] \in FleetCommands
    /\ [c EXCEPT !.known = x].known = x /\ [c EXCEPT !.known = x].op = c.op
    /\ [c EXCEPT !.known = x].listed = c.listed /\ [c EXCEPT !.known = x].selected = c.selected
    /\ [c EXCEPT !.known = x].todo = c.todo /\ [c EXCEPT !.known = x].failed = c.failed
    /\ [c EXCEPT !.known = x].exit = c.exit
  BY SMT DEF FleetCommands

LEMMA SetFailed ==
  \A c \in FleetCommands, x \in BOOLEAN :
    /\ [c EXCEPT !.failed = x] \in FleetCommands
    /\ [c EXCEPT !.failed = x].failed = x /\ [c EXCEPT !.failed = x].op = c.op
    /\ [c EXCEPT !.failed = x].listed = c.listed /\ [c EXCEPT !.failed = x].selected = c.selected
    /\ [c EXCEPT !.failed = x].todo = c.todo /\ [c EXCEPT !.failed = x].known = c.known
    /\ [c EXCEPT !.failed = x].exit = c.exit
  BY SMT DEF FleetCommands

LEMMA SetListed ==
  \A c \in FleetCommands, x \in BOOLEAN :
    /\ [c EXCEPT !.listed = x] \in FleetCommands
    /\ [c EXCEPT !.listed = x].listed = x /\ [c EXCEPT !.listed = x].op = c.op
    /\ [c EXCEPT !.listed = x].selected = c.selected /\ [c EXCEPT !.listed = x].todo = c.todo
    /\ [c EXCEPT !.listed = x].known = c.known /\ [c EXCEPT !.listed = x].failed = c.failed
    /\ [c EXCEPT !.listed = x].exit = c.exit
  BY SMT DEF FleetCommands

LEMMA SetExit ==
  \A c \in FleetCommands, x \in {"none", "ok", "error"} :
    /\ [c EXCEPT !.exit = x] \in FleetCommands
    /\ [c EXCEPT !.exit = x].exit = x /\ [c EXCEPT !.exit = x].op = c.op
    /\ [c EXCEPT !.exit = x].listed = c.listed /\ [c EXCEPT !.exit = x].selected = c.selected
    /\ [c EXCEPT !.exit = x].todo = c.todo /\ [c EXCEPT !.exit = x].known = c.known
    /\ [c EXCEPT !.exit = x].failed = c.failed
  BY SMT DEF FleetCommands

LEMMA CommandDoes ==
  ASSUME fleet \in FleetCommands, NEW h \in Hosts, NEW ok \in BOOLEAN, Done(h, ok)
  PROVE  /\ fleet' \in FleetCommands
         /\ fleet'.op = fleet.op /\ fleet'.exit = fleet.exit /\ fleet'.selected = fleet.selected
         /\ fleet'.known = fleet.known /\ fleet'.todo = fleet.todo \ {h}
         /\ fleet'.failed <=> fleet.failed \/ ~ok
<1> DEFINE T == fleet.todo \ {h}
           c == [fleet EXCEPT !.todo = T]
           b == fleet.failed \/ ~ok
<1>1. T \in SUBSET Hosts /\ b \in BOOLEAN
  BY SMT DEF FleetCommands
<1>2. fleet' = [c EXCEPT !.failed = c.failed \/ ~ok]
  BY DEF Done, DoneWith
<1> HIDE DEF T
<1>3. /\ c \in FleetCommands /\ c.op = fleet.op /\ c.exit = fleet.exit
      /\ c.selected = fleet.selected /\ c.todo = T /\ c.known = fleet.known
      /\ c.failed = fleet.failed
  BY <1>1, SetTodo, Zenon
<1> HIDE DEF c, b
<1>4. fleet' = [c EXCEPT !.failed = b]
  BY <1>2, <1>3, Zenon DEF b
<1>5. /\ fleet' \in FleetCommands /\ fleet'.op = c.op /\ fleet'.exit = c.exit
      /\ fleet'.selected = c.selected /\ fleet'.todo = c.todo /\ fleet'.known = c.known
      /\ fleet'.failed = b
  BY <1>1, <1>3, <1>4, SetFailed, Zenon
<1> QED BY <1>3, <1>5, Zenon DEF T, b

LEMMA CommandExits ==
  ASSUME fleet \in FleetCommands, NEW code \in {"ok", "error"}, Exits(code)
  PROVE  /\ fleet' \in FleetCommands
         /\ fleet'.op = fleet.op /\ fleet'.exit = code /\ fleet'.selected = fleet.selected
         /\ fleet'.todo = {} /\ fleet'.known = {}
<1> DEFINE c == [fleet EXCEPT !.exit = code]
           d == [c EXCEPT !.todo = {}]
<1>1. fleet' = [d EXCEPT !.known = {}]
  BY DEF Exits
<1>2. {} \in SUBSET Hosts /\ {} \in SUBSET (Hosts \cup Strangers) /\ code \in {"none", "ok", "error"}
  BY Zenon
<1>3. c \in FleetCommands /\ c.op = fleet.op /\ c.exit = code /\ c.selected = fleet.selected
  BY <1>2, SetExit, Zenon
<1> HIDE DEF c
<1>4. d \in FleetCommands /\ d.op = c.op /\ d.exit = c.exit /\ d.selected = c.selected /\ d.todo = {}
  BY <1>2, <1>3, SetTodo, Zenon
<1> HIDE DEF d
<1> QED BY <1>1, <1>2, <1>3, <1>4, SetKnown, Zenon

LEMMA CommandLists ==
  ASSUME fleet \in FleetCommands, NEW K \in SUBSET (Hosts \cup Strangers),
         fleet' = [fleet EXCEPT !.listed = TRUE, !.known = K]
  PROVE  /\ fleet' \in FleetCommands
         /\ fleet'.op = fleet.op /\ fleet'.exit = fleet.exit /\ fleet'.selected = fleet.selected
         /\ fleet'.todo = fleet.todo /\ fleet'.failed = fleet.failed /\ fleet'.known = K
<1> DEFINE c == [fleet EXCEPT !.listed = TRUE]
<1>1. fleet' = [c EXCEPT !.known = K]
  OBVIOUS
<1>0. TRUE \in BOOLEAN
  BY Zenon
<1>2. /\ c \in FleetCommands /\ c.op = fleet.op /\ c.exit = fleet.exit
      /\ c.selected = fleet.selected /\ c.todo = fleet.todo /\ c.failed = fleet.failed
  BY <1>0, SetListed, Zenon
<1> HIDE DEF c
<1> DEFINE e == [c EXCEPT !.known = K]
<1>3. /\ e \in FleetCommands /\ e.op = c.op /\ e.exit = c.exit /\ e.selected = c.selected
      /\ e.todo = c.todo /\ e.failed = c.failed /\ e.known = K
  BY <1>2, SetKnown, Zenon
<1>4. fleet' = e
  BY <1>1
<1> HIDE DEF e
<1> QED BY <1>2, <1>3, <1>4

LEMMA CommandHears ==
  ASSUME fleet \in FleetCommands, NEW h \in Hosts,
         fleet' = [fleet EXCEPT !.todo = @ \ {h}, !.known = @ \cup {h}]
  PROVE  /\ fleet' \in FleetCommands
         /\ fleet'.op = fleet.op /\ fleet'.exit = fleet.exit /\ fleet'.selected = fleet.selected
         /\ fleet'.todo = fleet.todo \ {h} /\ fleet'.failed = fleet.failed
<1> DEFINE c == [fleet EXCEPT !.todo = fleet.todo \ {h}]
           K == c.known \cup {h}
<1>1. fleet' = [c EXCEPT !.known = K]
  OBVIOUS
<1>0. fleet.todo \ {h} \in SUBSET Hosts
  BY SMT DEF FleetCommands
<1>2. /\ c \in FleetCommands /\ c.op = fleet.op /\ c.exit = fleet.exit /\ c.known = fleet.known
      /\ c.selected = fleet.selected /\ c.todo = fleet.todo \ {h} /\ c.failed = fleet.failed
  BY <1>0, SetTodo, Zenon
<1> HIDE DEF c
<1>3. K \in SUBSET (Hosts \cup Strangers)
  BY <1>2, SMT DEF FleetCommands
<1> HIDE DEF K
<1> DEFINE e == [c EXCEPT !.known = K]
<1>4. /\ e \in FleetCommands /\ e.op = c.op /\ e.exit = c.exit /\ e.selected = c.selected
      /\ e.todo = c.todo /\ e.failed = c.failed
  BY <1>2, <1>3, SetKnown, Zenon
<1>5. fleet' = e
  BY <1>1
<1> HIDE DEF e
<1> QED BY <1>2, <1>4, <1>5

(* What a command is for, on one host.                                       *)
DoneFor(op, h) ==
  /\ op = "provision" => /\ daemon[h].version = "asked"
                         /\ h \in Docker /\ secret[h] = "written" => daemon[h].password = "secret"
  /\ op = "register" =>
       saved[h] # "absent"
       \/ \E k \in {g \in Hosts : saved[g] # "absent"} \cup others : <<h, k>> \in Contained
  /\ op = "workspaces" => Known(h)
  /\ op = "status" => Answers(h)

(* What the hub's list has, of the inventory or not.                         *)
InList(k) == k \in others \/ (k \in Hosts /\ saved[k] # "absent")

Projects == [root : BOOLEAN, like : BOOLEAN]

LEMMA ProjectSet ==
  ASSUME project \in [Hosts -> Projects], NEW h \in Hosts
  PROVE  /\ [project EXCEPT ![h].root = TRUE] \in [Hosts -> Projects]
         /\ [project EXCEPT ![h].root = TRUE][h].root = TRUE
         /\ \A k \in Hosts \ {h} : [project EXCEPT ![h].root = TRUE][k] = project[k]
         /\ [project EXCEPT ![h].like = TRUE] \in [Hosts -> Projects]
<1>1. \A q \in Projects, x \in BOOLEAN : /\ [q EXCEPT !.root = x] \in Projects
                                         /\ [q EXCEPT !.root = x].root = x
                                         /\ [q EXCEPT !.like = x] \in Projects
  BY SMT DEF Projects
<1> DEFINE r == [project[h] EXCEPT !.root = TRUE]
           l == [project[h] EXCEPT !.like = TRUE]
<1>2. r \in Projects /\ r.root = TRUE /\ l \in Projects
  <2>1. TRUE \in BOOLEAN
    OBVIOUS
  <2> QED BY <1>1, <2>1, Zenon
<1>3. /\ [project EXCEPT ![h].root = TRUE] = [project EXCEPT ![h] = r]
      /\ [project EXCEPT ![h].like = TRUE] = [project EXCEPT ![h] = l]
  BY Zenon
<1> HIDE DEF r, l
<1>4. /\ [project EXCEPT ![h] = r] \in [Hosts -> Projects] /\ [project EXCEPT ![h] = r][h] = r
      /\ \A k \in Hosts \ {h} : [project EXCEPT ![h] = r][k] = project[k]
      /\ [project EXCEPT ![h] = l] \in [Hosts -> Projects]
  BY <1>2, SMT
<1> QED BY <1>2, <1>3, <1>4, Zenon

(* A command that has not failed yet has done it where it has been; a secret *)
(* that is being written is of a host still to be provisioned; what register *)
(* knows of, the hub has.                                                    *)
FleetInv ==
  /\ FleTypeOK
  /\ fleet.exit = "none" /\ ~fleet.failed =>
       \A h \in fleet.selected \ fleet.todo : DoneFor(fleet.op, h)
  /\ fleet.exit = "ok" => \A h \in fleet.selected : DoneFor(fleet.op, h)
  /\ fleet.exit = "none" /\ fleet.op = "provision" => fleet.known \subseteq fleet.todo
  /\ fleet.op = "register" => \A k \in fleet.known : InList(k)

LEMMA NoCommandType ==
  /\ NoCommand \in FleetCommands /\ NoCommand.op = "none" /\ NoCommand.exit = "none"
  /\ NoCommand.selected = {} /\ NoCommand.known = {}
  BY SMT DEF NoCommand, FleetCommands

LEMMA FleetInitially == FleInit => FleetInv
<1> SUFFICES ASSUME FleInit PROVE FleetInv
  OBVIOUS
<1>1. FleTypeOK
  BY SMT DEF FleInit, FleTypeOK, NoCommand, Passwords, NoProjects
<1> QED BY <1>1, NoCommandType, Zenon DEF FleInit, FleetInv

(* One more host: done as it should be, or the command has failed.           *)
LEMMA OneMore ==
  ASSUME FleetInv, NEW h \in Hosts, fleet' \in FleetCommands, FleTypeOK',
         fleet'.op = fleet.op, fleet'.exit = fleet.exit, fleet'.selected = fleet.selected,
         fleet'.todo = fleet.todo \ {h},
         ~fleet'.failed => ~fleet.failed /\ DoneFor(fleet.op, h)',
         \A k \in Hosts : DoneFor(fleet.op, k) => k = h \/ DoneFor(fleet.op, k)',
         fleet.exit # "ok", h \in fleet.todo,
         fleet.op = "provision" => fleet'.known = {},
         fleet.op = "register" => \A k \in fleet'.known : InList(k)'
  PROVE  FleetInv'
<1>1. fleet.selected \subseteq Hosts
  BY SMT DEF FleetInv, FleTypeOK
<1>2. ASSUME fleet'.exit = "none", ~fleet'.failed, NEW k \in fleet'.selected \ fleet'.todo
      PROVE  DoneFor(fleet.op, k)'
  <2>1. CASE k = h
    BY <1>2, <2>1, Zenon
  <2>2. CASE k # h
    <3>1. k \in fleet.selected \ fleet.todo /\ k \in Hosts
      BY <1>1, <1>2, <2>2, Zenon
    <3>2. DoneFor(fleet.op, k)
      BY <1>2, <3>1, Zenon DEF FleetInv
    <3> QED BY <2>2, <3>1, <3>2, Zenon
  <2> QED BY <2>1, <2>2
<1> QED BY <1>2, Zenon DEF FleetInv, DoneFor, Answers, Known, InList

LEMMA CommandBegins ==
  ASSUME NEW op \in OPS, NEW S \in SUBSET Hosts, FleetBegins(op, S)
  PROVE  /\ fleet' \in FleetCommands /\ fleet'.selected = S /\ fleet'.todo = S
         /\ fleet'.known = {} /\ fleet'.exit = "none"
<1> DEFINE a == [NoCommand EXCEPT !.op = op]
           b == [a EXCEPT !.selected = S]
           c == [b EXCEPT !.todo = S]
           d == [c EXCEPT !.listed = op # "register"]
<1>1. fleet' = d
  BY DEF FleetBegins
<1>2. op \in OPS \cup {"none"} /\ (op # "register") \in BOOLEAN
  BY Zenon
<1>3. a \in FleetCommands /\ a.known = {} /\ a.exit = "none"
  BY <1>2, NoCommandType, SetOp, Zenon
<1> HIDE DEF a
<1>4. b \in FleetCommands /\ b.known = {} /\ b.exit = "none" /\ b.selected = S
  BY <1>3, SetSelected, Zenon
<1> HIDE DEF b
<1>5. c \in FleetCommands /\ c.known = {} /\ c.exit = "none" /\ c.selected = S /\ c.todo = S
  BY <1>4, SetTodo, ZenonT(60)
<1> HIDE DEF c
<1> QED BY <1>1, <1>2, <1>5, SetListed, Zenon

(* Each step of a command, and what befalls hub and hosts beside it,         *)
(* preserves it.                                                             *)
LEMMA FleetStepInv == FleetInv /\ [FleNext]_fleVars => FleetInv'
<1> SUFFICES ASSUME FleetInv, [FleNext]_fleVars PROVE FleetInv'
  OBVIOUS
<1>0. /\ secret \in [Docker -> {"none", "empty", "written"}]
      /\ daemon \in [Hosts -> [version : {"none", "old", "asked"}, password : Passwords]]
      /\ saved \in [Hosts -> {"absent"} \cup Passwords]
      /\ others \subseteq Strangers
      /\ project \in [Hosts -> Projects]
      /\ fleet \in FleetCommands
      /\ fleet.selected \subseteq Hosts /\ fleet.todo \subseteq Hosts
      /\ fleet.known \subseteq Hosts \cup Strangers
  BY SMT DEF FleetInv, FleTypeOK, FleetCommands, Projects
<1>1. ASSUME fleet = NoCommand, fleet' = fleet, FleTypeOK' PROVE FleetInv'
  BY <1>1, NoCommandType, Zenon DEF FleetInv
<1>2. CASE VersionsBumped
  <2>1. daemon' \in [Hosts -> [version : {"none", "old", "asked"}, password : Passwords]]
    BY <1>0, <1>2, SMT DEF VersionsBumped
  <2>2. FleTypeOK'
    BY <1>0, <1>2, <2>1, Zenon DEF VersionsBumped, FleTypeOK, FleetCommands, Projects
  <2> QED BY <1>1, <1>2, <2>2, Zenon DEF VersionsBumped
<1>3. ASSUME NEW h \in Docker, SecretLost(h) PROVE FleetInv'
  <2>1. /\ secret' \in [Docker -> {"none", "empty", "written"}]
        /\ daemon' \in [Hosts -> [version : {"none", "old", "asked"}, password : Passwords]]
        /\ saved' \in [Hosts -> {"absent"} \cup Passwords]
    BY <1>0, <1>3, FleetAssumption, SMT DEF SecretLost, Passwords
  <2>2. FleTypeOK'
    BY <1>0, <1>3, <2>1, Zenon DEF SecretLost, FleTypeOK, FleetCommands, Projects
  <2> QED BY <1>1, <1>3, <2>2, Zenon DEF SecretLost
<1>18. ASSUME NEW st \in Strangers, StrangerSaved(st) PROVE FleetInv'
  <2>1. FleTypeOK'
    BY <1>0, <1>18, SMT DEF StrangerSaved, FleTypeOK, FleetCommands, Projects
  <2> QED BY <1>1, <1>18, <2>1, Zenon DEF StrangerSaved
<1>4. ASSUME NEW h \in Hosts, HubForgets(h) \/ ProjectMade(h) \/ HostReset(h) PROVE FleetInv'
  <2>1. CASE HubForgets(h)
    <3>1. saved' \in [Hosts -> {"absent"} \cup Passwords]
      BY <1>0, <2>1, SMT DEF HubForgets
    <3>2. FleTypeOK'
      BY <1>0, <2>1, <3>1, Zenon DEF HubForgets, FleTypeOK, FleetCommands, Projects
    <3> QED BY <1>1, <2>1, <3>2, Zenon DEF HubForgets
  <2>2. CASE HostReset(h)
    <3>1. /\ daemon' \in [Hosts -> [version : {"none", "old", "asked"}, password : Passwords]]
          /\ project' \in [Hosts -> Projects]
      BY <1>0, <2>2, SMT DEF HostReset, Passwords, Projects, NoProjects
    <3>2. FleTypeOK'
      BY <1>0, <2>2, <3>1, Zenon DEF HostReset, FleTypeOK, FleetCommands, Projects
    <3> QED BY <1>1, <2>2, <3>2, Zenon DEF HostReset
  <2>3. CASE ProjectMade(h)
    <3>1. project' \in [Hosts -> Projects]
      BY <1>0, <2>3, ProjectSet, Zenon DEF ProjectMade
    <3>2. FleTypeOK'
      BY <1>0, <2>3, <3>1, Zenon DEF ProjectMade, FleTypeOK, FleetCommands, Projects
    <3> QED BY <1>1, <2>3, <3>2, Zenon DEF ProjectMade
  <2> QED BY <1>4, <2>1, <2>2, <2>3
<1>5. ASSUME NEW op \in OPS, NEW selected \in (SUBSET Hosts) \ {{}}, FleetBegins(op, selected)
      PROVE  FleetInv'
  <2>1. /\ fleet' \in FleetCommands /\ fleet'.selected = selected /\ fleet'.todo = selected
        /\ fleet'.known = {} /\ fleet'.exit = "none"
    BY <1>5, CommandBegins, Zenon
  <2>2. UNCHANGED <<secret, daemon, saved, others, project>>
    BY <1>5, Zenon DEF FleetBegins
  <2>3. FleTypeOK'
    BY <1>0, <2>1, <2>2, Zenon DEF FleTypeOK, FleetCommands, Projects
  <2>4. fleet'.exit # "ok" /\ fleet'.selected \ fleet'.todo = {}
    BY <2>1, SMT
  <2> QED BY <2>1, <2>3, <2>4, Zenon DEF FleetInv
<1>6. CASE FleetAborts \/ Dispatches
  <2>1. PICK code \in {"ok", "error"} :
          /\ Exits(code) /\ (code = "ok" => fleet.op = "dispatch")
          /\ UNCHANGED <<secret, daemon, saved, others, project>>
    BY <1>6, Zenon DEF FleetAborts, Dispatches, Runs
  <2>2. /\ fleet' \in FleetCommands /\ fleet'.op = fleet.op /\ fleet'.exit = code
        /\ fleet'.known = {}
    BY <1>0, <2>1, CommandExits, Zenon
  <2>3. \A h \in Hosts : DoneFor("dispatch", h)'
    BY SMT DEF DoneFor
  <2>4. FleTypeOK'
    BY <1>0, <2>1, <2>2, Zenon DEF FleTypeOK, FleetCommands, Projects
  <2>5. fleet'.selected \subseteq Hosts
    BY <2>2, SMT DEF FleetCommands
  <2> QED BY <2>1, <2>2, <2>3, <2>4, <2>5, Zenon DEF FleetInv, DoneFor
<1>7. CASE FleetEnds
  <2>1. PICK code \in {"ok", "error"} :
          /\ Exits(code) /\ (code = "ok" => ~fleet.failed)
          /\ fleet.exit = "none" /\ fleet.todo = {}
          /\ UNCHANGED <<secret, daemon, saved, others, project>>
    BY <1>7, Zenon DEF FleetEnds
  <2>2. /\ fleet' \in FleetCommands /\ fleet'.op = fleet.op /\ fleet'.exit = code
        /\ fleet'.selected = fleet.selected /\ fleet'.known = {}
    BY <1>0, <2>1, CommandExits, Zenon
  <2>3. FleTypeOK'
    BY <1>0, <2>1, <2>2, Zenon DEF FleTypeOK, FleetCommands, Projects
  <2>4. code = "ok" => \A h \in fleet.selected : DoneFor(fleet.op, h)
    BY <2>1, Zenon DEF FleetInv
  <2> QED BY <2>1, <2>2, <2>3, <2>4, ZenonT(60) DEF FleetInv, DoneFor, Answers, Known
<1>8. CASE FleetRead
  <2>1. fleet' = NoCommand /\ UNCHANGED <<secret, daemon, saved, others, project>>
    BY <1>8, Zenon DEF FleetRead
  <2>2. FleTypeOK'
    BY <1>0, <2>1, NoCommandType, Zenon DEF FleTypeOK, FleetCommands, Projects
  <2> QED BY <2>1, <2>2, NoCommandType, Zenon DEF FleetInv
<1>9. ASSUME NEW h \in Docker, SecretOpened(h) PROVE FleetInv'
  <2>1. /\ fleet.op = "provision" /\ fleet.exit = "none" /\ h \in fleet.todo
        /\ secret' = [secret EXCEPT ![h] = "empty"] /\ fleet' = [fleet EXCEPT !.known = {h}]
        /\ UNCHANGED <<daemon, saved, others, project>>
    BY <1>9, Zenon DEF SecretOpened, Runs
  <2>2. {h} \in SUBSET (Hosts \cup Strangers) /\ h \in Hosts
    BY FleetAssumption, SMT
  <2>3. /\ fleet' \in FleetCommands /\ fleet'.op = "provision" /\ fleet'.exit = "none"
        /\ fleet'.selected = fleet.selected /\ fleet'.todo = fleet.todo /\ fleet'.failed = fleet.failed
        /\ fleet'.known = {h}
    BY <1>0, <2>1, <2>2, SetKnown, Zenon
  <2>7. secret' \in [Docker -> {"none", "empty", "written"}]
    BY <1>0, <2>1, SMT
  <2>4. FleTypeOK'
    BY <1>0, <2>1, <2>3, <2>7, Zenon DEF FleTypeOK, FleetCommands, Projects
  <2>5. ASSUME NEW k \in Hosts, k # h, DoneFor("provision", k) PROVE DoneFor("provision", k)'
    <3>1. k \in Docker => secret'[k] = secret[k]
      BY <1>0, <2>1, <2>5, SMT
    <3> QED BY <2>1, <2>5, <3>1, Zenon DEF DoneFor
  <2>6. ~fleet'.failed => \A k \in fleet'.selected \ fleet'.todo : DoneFor("provision", k)'
    <3> SUFFICES ASSUME ~fleet.failed, NEW k \in fleet.selected \ fleet.todo PROVE DoneFor("provision", k)'
      BY <2>3, Zenon
    <3>1. DoneFor("provision", k) /\ k # h /\ k \in Hosts
      BY <1>0, <2>1, Zenon DEF FleetInv
    <3> QED BY <2>5, <3>1
  <2> QED BY <2>1, <2>3, <2>4, <2>6, Zenon DEF FleetInv, DoneFor
<1>10. ASSUME NEW h \in Docker, SecretWritten(h) PROVE FleetInv'
  <2>1. /\ fleet.op = "provision" /\ fleet.exit = "none" /\ h \in fleet.known
        /\ secret' = [secret EXCEPT ![h] = "written"] /\ fleet' = [fleet EXCEPT !.known = {}]
        /\ UNCHANGED <<daemon, saved, others, project>>
    BY <1>10, Zenon DEF SecretWritten, Runs
  <2>2. h \in fleet.todo /\ {} \in SUBSET (Hosts \cup Strangers)
    BY <2>1, Zenon DEF FleetInv
  <2>3. /\ fleet' \in FleetCommands /\ fleet'.op = "provision" /\ fleet'.exit = "none"
        /\ fleet'.selected = fleet.selected /\ fleet'.todo = fleet.todo /\ fleet'.failed = fleet.failed
        /\ fleet'.known = {}
    BY <1>0, <2>1, <2>2, SetKnown, Zenon
  <2>7. secret' \in [Docker -> {"none", "empty", "written"}]
    BY <1>0, <2>1, SMT
  <2>4. FleTypeOK'
    BY <1>0, <2>1, <2>3, <2>7, Zenon DEF FleTypeOK, FleetCommands, Projects
  <2>5. ASSUME NEW k \in Hosts, k # h, DoneFor("provision", k) PROVE DoneFor("provision", k)'
    <3>1. k \in Docker => secret'[k] = secret[k]
      BY <1>0, <2>1, <2>5, SMT
    <3> QED BY <2>1, <2>5, <3>1, Zenon DEF DoneFor
  <2>6. ~fleet'.failed => \A k \in fleet'.selected \ fleet'.todo : DoneFor("provision", k)'
    <3> SUFFICES ASSUME ~fleet.failed, NEW k \in fleet.selected \ fleet.todo PROVE DoneFor("provision", k)'
      BY <2>3, Zenon
    <3>1. DoneFor("provision", k) /\ k # h /\ k \in Hosts
      BY <1>0, <2>1, <2>2, Zenon DEF FleetInv
    <3> QED BY <2>5, <3>1
  <2> QED BY <2>1, <2>3, <2>4, <2>6, Zenon DEF FleetInv, DoneFor
<1>11. ASSUME NEW h \in Hosts, Provisions(h) PROVE FleetInv'
  <2>1. /\ fleet.op = "provision" /\ fleet.exit = "none" /\ h \in fleet.todo /\ fleet.known = {}
        /\ UNCHANGED <<secret, saved, others, project>>
    BY <1>11, Zenon DEF Provisions, Runs
  <2>2. PICK ok \in BOOLEAN :
          /\ Done(h, ok)
          /\ daemon' \in {daemon, [daemon EXCEPT ![h] = Provisioned(h)]}
          /\ ok => daemon' = [daemon EXCEPT ![h] = Provisioned(h)]
    BY <1>11, Zenon DEF Provisions
  <2>3. Provisioned(h) \in [version : {"none", "old", "asked"}, password : Passwords]
    BY SMT DEF Provisioned, Passwords
  <2>4. /\ daemon' \in [Hosts -> [version : {"none", "old", "asked"}, password : Passwords]]
        /\ \A k \in Hosts \ {h} : daemon'[k] = daemon[k]
        /\ ok => daemon'[h] = Provisioned(h)
    BY <1>0, <2>2, <2>3, SMT
  <2>5. /\ fleet' \in FleetCommands /\ fleet'.op = fleet.op /\ fleet'.exit = fleet.exit
        /\ fleet'.selected = fleet.selected /\ fleet'.todo = fleet.todo \ {h}
        /\ fleet'.known = fleet.known /\ (fleet'.failed <=> fleet.failed \/ ~ok)
    BY <1>0, <2>2, CommandDoes, ZenonT(60)
  <2>6. FleTypeOK'
    BY <1>0, <2>1, <2>4, <2>5, Zenon DEF FleTypeOK, FleetCommands, Projects
  <2>7. ok => DoneFor("provision", h)'
    BY <2>1, <2>4, SMT DEF DoneFor, Provisioned
  <2>8. \A k \in Hosts : DoneFor("provision", k) => k = h \/ DoneFor("provision", k)'
    BY <2>1, <2>4, SMT DEF DoneFor
  <2> QED BY <2>1, <2>5, <2>6, <2>7, <2>8, OneMore, Zenon DEF DoneFor
<1>12. CASE RegisterLists
  <2> DEFINE K == {h \in Hosts : saved[h] # "absent"} \cup others
  <2>1. /\ fleet.op = "register" /\ fleet.exit = "none"
        /\ fleet' = [fleet EXCEPT !.listed = TRUE, !.known = K]
        /\ UNCHANGED <<secret, daemon, saved, others, project>>
    BY <1>12, Zenon DEF RegisterLists, Runs
  <2>2. K \in SUBSET (Hosts \cup Strangers) /\ \A k \in K : InList(k)
    BY <1>0, Zenon DEF InList
  <2> HIDE DEF K
  <2>3. /\ fleet' \in FleetCommands
        /\ fleet'.op = fleet.op /\ fleet'.exit = fleet.exit /\ fleet'.selected = fleet.selected
        /\ fleet'.todo = fleet.todo /\ fleet'.failed = fleet.failed /\ fleet'.known = K
    BY <1>0, <2>1, <2>2, CommandLists, Zenon
  <2>4. FleTypeOK'
    BY <1>0, <2>1, <2>3, Zenon DEF FleTypeOK, FleetCommands, Projects
  <2> QED BY <2>1, <2>2, <2>3, <2>4, ZenonT(60) DEF FleetInv, DoneFor, Answers, Known, InList
<1>13. ASSUME NEW h \in Hosts, RegisterSkips(h) PROVE FleetInv'
  <2>1. /\ fleet.op = "register" /\ fleet.exit = "none" /\ h \in fleet.todo /\ Done(h, TRUE)
        /\ Mentioned(h) /\ UNCHANGED <<secret, daemon, saved, others, project>>
    BY <1>13, Zenon DEF RegisterSkips, Runs
  <2>2. /\ fleet' \in FleetCommands /\ fleet'.op = fleet.op /\ fleet'.exit = fleet.exit
        /\ fleet'.selected = fleet.selected /\ fleet'.todo = fleet.todo \ {h}
        /\ fleet'.known = fleet.known /\ (fleet'.failed <=> fleet.failed)
    BY <1>0, <2>1, CommandDoes, Zenon
  <2>3. \A k \in fleet.known : InList(k)
    BY <1>0, <2>1, Zenon DEF FleetInv
  <2>4. DoneFor("register", h)
    <3>1. CASE h \in fleet.known
      <4>1. h \notin others
        BY <1>0, FleetAssumption, Zenon
      <4>2. saved[h] # "absent"
        BY <2>3, <3>1, <4>1, Zenon DEF InList
      <4> QED BY <4>2, "register" # "provision", "register" # "workspaces", "register" # "status",
                 Zenon DEF DoneFor
    <3>2. CASE \E k \in fleet.known : <<h, k>> \in Contained
      BY <2>3, <3>2, SMT DEF InList, DoneFor
    <3> QED BY <2>1, <3>1, <3>2, Zenon DEF Mentioned
  <2>5. FleTypeOK'
    BY <1>0, <2>1, <2>2, Zenon DEF FleTypeOK, FleetCommands, Projects
  <2>6. \A k \in Hosts : DoneFor(fleet.op, k) => DoneFor(fleet.op, k)'
    BY <2>1, <2>2, Zenon DEF DoneFor, Answers, Known
  <2>7. DoneFor(fleet.op, h)'
    BY <2>1, <2>4, <2>6
  <2>8. \A k \in fleet'.known : InList(k)'
    BY <2>1, <2>2, <2>3, Zenon DEF InList
  <2> QED BY <2>1, <2>2, <2>5, <2>6, <2>7, <2>8, OneMore, Zenon
<1>14. ASSUME NEW h \in Hosts, Registers(h) PROVE FleetInv'
  <2>1. /\ fleet.op = "register" /\ fleet.exit = "none" /\ h \in fleet.todo
        /\ UNCHANGED <<secret, daemon, others, project>>
    BY <1>14, Zenon DEF Registers, Runs
  <2>2. PICK ok \in BOOLEAN, p \in {"secret", "none"} :
          /\ Done(h, ok)
          /\ saved' = IF ok THEN [saved EXCEPT ![h] = p] ELSE saved
    BY <1>14, Zenon DEF Registers
  <2>3. /\ saved' \in [Hosts -> {"absent"} \cup Passwords]
        /\ \A k \in Hosts : saved[k] # "absent" => saved'[k] # "absent"
        /\ ok => saved'[h] # "absent"
    BY <1>0, <2>2, SMT DEF Passwords
  <2>4. /\ fleet' \in FleetCommands /\ fleet'.op = fleet.op /\ fleet'.exit = fleet.exit
        /\ fleet'.selected = fleet.selected /\ fleet'.todo = fleet.todo \ {h}
        /\ fleet'.known = fleet.known /\ (fleet'.failed <=> fleet.failed \/ ~ok)
    BY <1>0, <2>2, CommandDoes, ZenonT(60)
  <2>5. \A k \in fleet'.known : InList(k)'
    BY <1>0, <2>1, <2>3, <2>4, Zenon DEF FleetInv, InList
  <2>6. FleTypeOK'
    BY <1>0, <2>1, <2>3, <2>4, Zenon DEF FleTypeOK, FleetCommands, Projects
  <2>7. ok => DoneFor("register", h)'
    BY <2>3, SMT DEF DoneFor
  <2>8. \A k \in Hosts : DoneFor("register", k) => DoneFor("register", k)'
    <3>1. {g \in Hosts : saved[g] # "absent"} \cup others
          \subseteq {g \in Hosts : saved'[g] # "absent"} \cup others'
      BY <2>1, <2>3, Zenon
    <3> QED BY <2>3, <3>1, "register" # "provision", "register" # "workspaces", "register" # "status",
               Zenon DEF DoneFor
  <2> QED BY <2>1, <2>4, <2>5, <2>6, <2>7, <2>8, OneMore, Zenon DEF DoneFor
<1>15. ASSUME NEW h \in Hosts, WorkspaceMade(h) PROVE FleetInv'
  <2>1. /\ fleet.op = "workspaces" /\ fleet.exit = "none" /\ h \in fleet.todo
        /\ UNCHANGED <<secret, daemon, saved, others>>
    BY <1>15, Zenon DEF WorkspaceMade, Runs
  <2>2. PICK ok \in BOOLEAN :
          /\ Done(h, ok)
          /\ project' \in {project, [project EXCEPT ![h].root = TRUE]}
          /\ ok => Known(h) \/ project' = [project EXCEPT ![h].root = TRUE]
    BY <1>15, Zenon DEF WorkspaceMade, Done
  <2>3. /\ project' \in [Hosts -> Projects]
        /\ ok => Known(h)'
        /\ \A k \in Hosts : Known(k) => Known(k)'
    <3>1. CASE project' = [project EXCEPT ![h].root = TRUE]
      <4>1. /\ project' \in [Hosts -> Projects] /\ project'[h].root = TRUE
            /\ \A k \in Hosts \ {h} : project'[k] = project[k]
        BY <1>0, <3>1, ProjectSet, Zenon
      <4> QED BY <4>1, Zenon DEF Known
    <3>2. CASE project' = project
      <4>1. [project EXCEPT ![h].root = TRUE][h].root = TRUE
        BY <1>0, ProjectSet, Zenon
      <4> QED BY <1>0, <2>2, <3>2, <4>1, Zenon DEF Known
    <3> QED BY <2>2, <3>1, <3>2
  <2>4. /\ fleet' \in FleetCommands /\ fleet'.op = fleet.op /\ fleet'.exit = fleet.exit
        /\ fleet'.selected = fleet.selected /\ fleet'.todo = fleet.todo \ {h}
        /\ fleet'.known = fleet.known /\ (fleet'.failed <=> fleet.failed \/ ~ok)
    BY <1>0, <2>2, CommandDoes, ZenonT(60)
  <2>5. FleTypeOK'
    BY <1>0, <2>1, <2>3, <2>4, Zenon DEF FleTypeOK, FleetCommands, Projects
  <2>6. ok => DoneFor("workspaces", h)'
    BY <2>3, SMT DEF DoneFor
  <2>7. \A k \in Hosts : DoneFor("workspaces", k) => DoneFor("workspaces", k)'
    BY <2>3, SMT DEF DoneFor
  <2> QED BY <2>1, <2>4, <2>5, <2>6, <2>7, OneMore, Zenon DEF DoneFor
<1>16. ASSUME NEW h \in Hosts, HostSilent(h) \/ HostAnswers(h) PROVE FleetInv'
  <2>1. /\ fleet.op \in {"workspaces", "status", "dispatch"} /\ h \in fleet.todo
        /\ UNCHANGED <<secret, daemon, saved, others, project>>
    BY <1>16, Zenon DEF HostSilent, HostAnswers
  <2>2. /\ fleet' \in FleetCommands /\ fleet'.op = fleet.op /\ fleet'.exit = fleet.exit
        /\ fleet'.selected = fleet.selected /\ fleet'.todo = fleet.todo \ {h}
        /\ fleet'.failed \/ (fleet'.failed = fleet.failed /\ fleet.op # "workspaces" /\ Answers(h))
    <3>1. CASE HostSilent(h)
      BY <1>0, <3>1, CommandDoes, Zenon DEF HostSilent
    <3>2. CASE HostAnswers(h)
      <4>1. /\ fleet.op \in {"status", "dispatch"} /\ Answers(h)
            /\ fleet' = [fleet EXCEPT !.todo = @ \ {h}, !.known = @ \cup {h}]
        BY <3>2, Zenon DEF HostAnswers
      <4>2. fleet.op # "workspaces"
        BY <4>1, SMT
      <4>3. /\ fleet' \in FleetCommands
            /\ fleet'.op = fleet.op /\ fleet'.exit = fleet.exit /\ fleet'.selected = fleet.selected
            /\ fleet'.todo = fleet.todo \ {h} /\ fleet'.failed = fleet.failed
        BY <1>0, <4>1, CommandHears
      <4> QED BY <4>1, <4>2, <4>3, Zenon
    <3> QED BY <1>16, <3>1, <3>2
  <2>3. FleTypeOK'
    BY <1>0, <2>1, <2>2, Zenon DEF FleTypeOK, FleetCommands, Projects
  <2>4. \A k \in Hosts : DoneFor(fleet.op, k)' <=> DoneFor(fleet.op, k)
    BY <2>1, <2>2, Zenon DEF DoneFor, Answers, Known
  <2>5. ~fleet'.failed => ~fleet.failed /\ DoneFor(fleet.op, h)'
    BY <2>1, <2>2, SMT DEF DoneFor, Answers
  <2> QED BY <1>0, <2>1, <2>2, <2>3, <2>4, <2>5, OneMore, SMT DEF FleetInv, DoneFor
<1>17. CASE UNCHANGED fleVars
  <2>1. /\ secret' = secret /\ daemon' = daemon /\ saved' = saved /\ others' = others
        /\ project' = project /\ fleet' = fleet
    BY <1>17, Zenon DEF fleVars
  <2>2. FleTypeOK'
    BY <2>1, Zenon DEF FleetInv, FleTypeOK
  <2>3. \A o, h : DoneFor(o, h)' = DoneFor(o, h)
    BY <2>1, Zenon DEF DoneFor, Answers, Known
  <2>4. \A k : InList(k)' = InList(k)
    BY <2>1, Zenon DEF InList
  <2> QED BY <2>1, <2>2, <2>3, <2>4, Zenon DEF FleetInv
<1> QED
  BY <1>2, <1>3, <1>4, <1>5, <1>6, <1>7, <1>8, <1>9, <1>10, <1>11, <1>12, <1>13, <1>14, <1>15,
     <1>16, <1>17, <1>18, Zenon DEF FleNext

(* A fleet command that exits with zero has done what it is for on every     *)
(* host that was selected, but for what it takes for done already: a host    *)
(* whose id is in the text of the hub's list, a root for which another       *)
(* project is taken, the empty secret of a run that was killed.  However     *)
(* many hosts and strangers there are and whichever fail, fall silent or are *)
(* reset (cli.py provision, register, workspaces and status).                *)
THEOREM CommandsDoWhatTheySay == FleSpec => []ExitZeroMeansDone
<1>1. FleetInv => ExitZeroMeansDone
  BY SMT DEF FleetInv, DoneFor, ExitZeroMeansDone, Ok, Known
<1> QED BY <1>1, FleetInitially, FleetStepInv, PTL DEF FleSpec

-----------------------------------------------------------------------------
(* Stack: what an "up" under way has still to start, it has started, or it   *)
(* has been refused.                                                         *)
Commands == [name : {"none", "up", "backup"}, todo : SUBSET Containers]
StackConfigs == [mode : {"none", "lab", "appliance"}, on : SUBSET Features, chosen : SUBSET Hardware]

Starting ==
  command.name = "up" =>
    /\ told = "none"
    /\ "homeassistant" \in up /\ up \subseteq Services(cfg)
    /\ command.todo \subseteq Services(cfg)
    /\ Services(cfg) \ {"homeassistant"} \subseteq up \cup refused \cup command.todo

StackInv ==
  /\ StackTypeOK
  /\ cfg.mode = "none" => cfg = NoConfig /\ told = "none" /\ command = Nobody
  /\ command.name = "none" => command = Nobody
  /\ command.name = "backup" => told = "none"
  /\ told = "up" => command = Nobody
  /\ Starting
  /\ UpIsAsConfigured

LEMMA ServicesType == \A c \in StackConfigs : Services(c) \subseteq Containers
  BY SMT DEF Services, Containers, StackConfigs

LEMMA NewOn ==
  \A c \in StackConfigs, on \in SUBSET Features :
    [c EXCEPT !.on = on] = [mode |-> c.mode, on |-> on, chosen |-> c.chosen]
  BY SMT DEF StackConfigs

LEMMA NewChosen ==
  \A c \in StackConfigs, chosen \in SUBSET Hardware :
    [c EXCEPT !.chosen = chosen] = [mode |-> c.mode, on |-> c.on, chosen |-> chosen]
  BY SMT DEF StackConfigs

LEMMA NewSettings ==
  ASSUME NEW c \in StackConfigs, NEW on \in SUBSET Features, NEW chosen \in SUBSET Hardware
  PROVE  [c EXCEPT !.on = on, !.chosen = chosen] = [mode |-> c.mode, on |-> on, chosen |-> chosen]
<1> DEFINE d == [c EXCEPT !.on = on]
<1>1. d = [mode |-> c.mode, on |-> on, chosen |-> c.chosen]
  BY NewOn, Zenon
<1>2. [c EXCEPT !.on = on, !.chosen = chosen] = [d EXCEPT !.chosen = chosen]
  OBVIOUS
<1> HIDE DEF d
<1>3. d \in StackConfigs /\ d.mode = c.mode /\ d.on = on
  BY <1>1, SMT DEF StackConfigs
<1>4. [d EXCEPT !.chosen = chosen] = [mode |-> d.mode, on |-> d.on, chosen |-> chosen]
  BY <1>3, NewChosen, Zenon
<1> QED BY <1>2, <1>3, <1>4, Zenon

LEMMA StackInitially == StackInit => StackInv
  BY StackAssumption, SMT
  DEF StackInit, StackInv, StackTypeOK, Starting, UpIsAsConfigured, NoConfig, Nobody, Validates,
      Containers

LEMMA StackKeeps == StackInv /\ [StackNext]_stackVars => StackInv'
<1> SUFFICES ASSUME StackInv, [StackNext]_stackVars PROVE StackInv'
  OBVIOUS
<1>0. /\ cfg \in StackConfigs /\ command \in Commands /\ Validates(cfg)
      /\ Services(cfg) \subseteq Containers
      /\ up \subseteq Containers /\ ready \subseteq Features /\ refused \subseteq Features
      /\ told \in {"none", "up", "down"}
  BY ServicesType, Zenon DEF StackInv, StackTypeOK, StackConfigs, Commands
<1>1. CASE Initializes
  <2>1. /\ cfg = NoConfig /\ UNCHANGED <<ready, up, command, refused, told>>
        /\ \E mode \in {"lab", "appliance"} : cfg' = [mode |-> mode, on |-> {}, chosen |-> {}]
    BY <1>1, SMT DEF Initializes, NoConfig
  <2>2. cfg.mode = "none"
    BY <2>1, SMT DEF NoConfig
  <2>3. told = "none" /\ command = Nobody
    BY <2>2, Zenon DEF StackInv
  <2> QED BY <1>0, <2>1, <2>3, SMT
          DEF StackInv, StackTypeOK, Starting, UpIsAsConfigured, Validates, Nobody
<1>2. CASE Configures
  <2>1. /\ command = Nobody /\ cfg.mode # "none" /\ told' = "none"
        /\ UNCHANGED <<ready, up, command, refused>> /\ Validates(cfg')
    BY <1>2, Zenon DEF Configures, Free, StackInv
  <2>2. PICK on \in SUBSET Features, chosen \in SUBSET Hardware :
          cfg' = [mode |-> cfg.mode, on |-> on, chosen |-> chosen]
    <3>1. PICK on \in SUBSET Features, chosen \in SUBSET Hardware :
            cfg' = [cfg EXCEPT !.on = on, !.chosen = chosen]
      BY <1>2, Zenon DEF Configures
    <3>2. cfg' = [mode |-> cfg.mode, on |-> on, chosen |-> chosen]
      BY <1>0, <3>1, NewSettings, Zenon
    <3> QED BY <3>2, Zenon
  <2>3. cfg' \in StackConfigs /\ cfg'.mode # "none"
    BY <1>0, <2>1, <2>2, SMT DEF StackConfigs
  <2> QED BY <1>0, <2>1, <2>3, SMT
          DEF StackInv, StackTypeOK, Starting, UpIsAsConfigured, Nobody, StackConfigs
<1>3. CASE Replugs
  <2>1. ready' \subseteq Features
    BY <1>0, <1>3, SMT DEF Replugs
  <2> QED BY <1>3, <2>1, Zenon
          DEF Replugs, StackInv, StackTypeOK, Starting, UpIsAsConfigured, Validates, Services
<1>4. CASE StartsHomeAssistant
  <2>1. /\ cfg.mode # "none" /\ cfg' = cfg /\ ready' = ready /\ refused' = {} /\ told' = "none"
        /\ up' = {"homeassistant"} \cup (up \cap Services(cfg))
        /\ command' = [name |-> "up", todo |-> Services(cfg) \ {"homeassistant"}]
    BY <1>4, Zenon DEF StartsHomeAssistant, Free, StackInv
  <2>2. "homeassistant" \in Services(cfg)
    BY SMT DEF Services
  <2>3. Services(cfg') = Services(cfg)
    BY <2>1, Zenon
  <2>4. up' \subseteq Services(cfg') /\ "homeassistant" \in up'
    BY <2>1, <2>2, <2>3, SMT
  <2>5. command'.name = "up" /\ command'.todo = Services(cfg') \ {"homeassistant"}
    BY <2>1, <2>3, SMT
  <2>6. Starting'
    BY <2>1, <2>4, <2>5, SMT DEF Starting
  <2>7. command' \in Commands
    BY <1>0, <2>1, SMT DEF Commands
  <2>8. StackTypeOK'
    BY <1>0, <2>1, <2>3, <2>4, <2>7, SMT DEF StackTypeOK, Validates, StackConfigs, Commands
  <2> QED BY <2>1, <2>5, <2>6, <2>8, SMT DEF StackInv, UpIsAsConfigured
<1>5. ASSUME NEW f \in Features, StartsFeature(f) PROVE StackInv'
  <2>1. /\ command.name = "up" /\ f \in command.todo /\ UNCHANGED <<cfg, ready, told>>
        /\ command' = [command EXCEPT !.todo = @ \ {f}]
        /\ \/ up' = up \cup {f} /\ refused' = refused
           \/ refused' = refused \cup {f} /\ up' = up
    BY <1>5, Zenon DEF StartsFeature
  <2>2. command' = [name |-> "up", todo |-> command.todo \ {f}]
    BY <1>0, <2>1, SMT DEF Commands
  <2>3. Starting
    BY Zenon DEF StackInv
  <2>4. Services(cfg') = Services(cfg)
    BY <2>1, Zenon
  <2>5. f \in Services(cfg) /\ f \in Containers
    BY <2>1, <2>3, <1>0, SMT DEF Starting
  <2>6. told = "none" /\ cfg.mode # "none"
    BY <2>1, <2>3, SMT DEF Starting, StackInv, Nobody
  <2>7. Starting'
    BY <2>1, <2>2, <2>3, <2>4, <2>5, SMT DEF Starting
  <2>8. StackTypeOK'
    BY <1>0, <2>1, <2>2, <2>5, SMT DEF StackTypeOK, Validates, StackConfigs, Commands
  <2> QED BY <2>1, <2>2, <2>6, <2>7, <2>8, SMT DEF StackInv, UpIsAsConfigured
<1>6. CASE StartEnds
  <2>1. /\ command = [name |-> "up", todo |-> {}] /\ command' = Nobody /\ told' = "up"
        /\ UNCHANGED <<cfg, ready, up, refused>>
    BY <1>6, Zenon DEF StartEnds
  <2>2. Starting /\ Services(cfg') = Services(cfg)
    BY <2>1, Zenon DEF StackInv
  <2>3. UpIsAsConfigured'
    BY <2>1, <2>2, SMT DEF Starting, UpIsAsConfigured
  <2>4. cfg.mode # "none"
    BY <2>1, SMT DEF StackInv, Nobody
  <2> QED BY <1>0, <2>1, <2>3, <2>4, SMT
          DEF StackInv, StackTypeOK, Starting, Nobody, StackConfigs, Validates
<1>7. CASE Stops
  <2>1. /\ command = Nobody /\ cfg.mode # "none" /\ told' \in {"none", "down"}
        /\ UNCHANGED <<cfg, ready, command, refused>>
    BY <1>7, Zenon DEF Stops, Free, StackInv
  <2>2. up' \subseteq up
    BY <1>7, SMT DEF Stops, ComposeDown
  <2> QED BY <1>0, <2>1, <2>2, SMT
          DEF StackInv, StackTypeOK, Starting, UpIsAsConfigured, Nobody, StackConfigs, Validates
<1>8. CASE BackupStops
  <2>1. /\ cfg.mode # "none" /\ told' = "none" /\ command' = [name |-> "backup", todo |-> up]
        /\ UNCHANGED <<cfg, ready, refused>>
    BY <1>8, Zenon DEF BackupStops, Free, StackInv
  <2>2. up' \subseteq up
    BY <1>8, SMT DEF BackupStops, ComposeDown
  <2> QED BY <1>0, <2>1, <2>2, SMT
          DEF StackInv, StackTypeOK, Starting, UpIsAsConfigured, Nobody, StackConfigs, Validates
<1>9. CASE BackupResumes
  <2>1. /\ command.name = "backup" /\ command' = Nobody
        /\ UNCHANGED <<cfg, ready, refused, told>>
        /\ up' = up \/ up' = up \cup command.todo
    BY <1>9, Zenon DEF BackupResumes
  <2>2. told = "none" /\ cfg.mode # "none"
    BY <2>1, SMT DEF StackInv, Nobody
  <2>3. up' \subseteq Containers
    BY <1>0, <2>1, SMT DEF Commands
  <2> QED BY <1>0, <2>1, <2>2, <2>3, SMT
          DEF StackInv, StackTypeOK, Starting, UpIsAsConfigured, Nobody, StackConfigs, Validates
<1>10. CASE RestoresSettings
  <2>1. /\ command = Nobody /\ cfg.mode # "none" /\ told' = "none"
        /\ UNCHANGED <<ready, command, refused>>
    BY <1>10, Zenon DEF RestoresSettings, Free, StackInv
  <2>2. up' \subseteq up
    BY <1>10, SMT DEF RestoresSettings, ComposeDown
  <2>3. PICK on \in SUBSET Features, chosen \in SUBSET Hardware :
          LET incoming == [cfg EXCEPT !.on = on, !.chosen = chosen] IN
          /\ Validates(incoming)
          /\ cfg' = IF cfg.mode = "lab" THEN [incoming EXCEPT !.on = {}] ELSE incoming
    BY <1>10, Zenon DEF RestoresSettings
  <2> DEFINE incoming == [cfg EXCEPT !.on = on, !.chosen = chosen]
  <2>4. incoming = [mode |-> cfg.mode, on |-> on, chosen |-> chosen]
    BY <1>0, NewSettings, Zenon
  <2>5. Validates(incoming) /\ cfg' \in {incoming, [incoming EXCEPT !.on = {}]}
    BY <2>3, Zenon
  <2> HIDE DEF incoming
  <2>6. incoming \in StackConfigs
    BY <1>0, <2>4, SMT DEF StackConfigs
  <2>7. cfg' = incoming \/ cfg' = [mode |-> incoming.mode, on |-> {}, chosen |-> incoming.chosen]
    BY <2>5, <2>6, NewOn, Zenon
  <2>8. cfg' \in StackConfigs /\ cfg'.mode # "none" /\ Validates(cfg')
    BY <2>1, <2>4, <2>5, <2>6, <2>7, SMT DEF StackConfigs, Validates
  <2> QED BY <1>0, <2>1, <2>2, <2>8, SMT
          DEF StackInv, StackTypeOK, Starting, UpIsAsConfigured, Nobody, StackConfigs
<1>11. CASE CommandDies
  <2>1. /\ command # Nobody /\ command' = Nobody /\ UNCHANGED <<cfg, ready, up, refused, told>>
    BY <1>11, Zenon DEF CommandDies
  <2> QED BY <1>0, <2>1, SMT
          DEF StackInv, StackTypeOK, Starting, UpIsAsConfigured, Nobody, StackConfigs, Validates
<1>12. CASE UNCHANGED stackVars
  BY <1>12, Zenon
  DEF stackVars, StackInv, StackTypeOK, Starting, UpIsAsConfigured, Validates, Services
<1> QED
  BY <1>1, <1>2, <1>3, <1>4, <1>5, <1>6, <1>7, <1>8, <1>9, <1>10, <1>11, <1>12 DEF StackNext

(* Whatever features and hardware there are, and wherever a command died: an *)
(* "up" that ended well leaves the configuration's containers (cli.py        *)
(* start).                                                                   *)
THEOREM UpLeavesTheConfigured == StackSpec => []UpIsAsConfigured
<1>1. StackInv => UpIsAsConfigured
  BY DEF StackInv
<1> QED BY <1>1, StackInitially, StackKeeps, PTL DEF StackSpec
=============================================================================
