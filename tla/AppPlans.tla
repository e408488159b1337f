------------------------------- MODULE AppPlans -------------------------------
(***************************************************************************)
(* Plans, approval and jobs of one native app (src/opiha_apps/manager.py). *)
(* The daemon's Manager and those that command-line calls build for        *)
(* themselves keep plans, an active flag and one worker each; they share   *)
(* the record and the container of the app and the operation lock.  An     *)
(* add-on may rewrite its own options through the daemon's set_options.    *)
(*                                                                         *)
(* What a job does to an app is one step here; AppTransaction takes it     *)
(* apart call by call and shows that it is atomic.  A container or record  *)
(* is named after the plan it was written for, 0 is an absent one.         *)
(***************************************************************************)
EXTENDS Integers, FiniteSets

CONSTANTS
    Managers,   \* the processes with a Manager
    Daemon,     \* the one that serves; the others are command-line calls
    Nobody,     \* not a manager: the lock is free
    Operator,   \* not a manager: "opiha-apps repair" or "backup"
    Actions,    \* the lifecycle actions that are planned
    Options,    \* the option sets an app may be given
    Limit,      \* plans a manager keeps at most (32)
    MaxPlans    \* bound: plans ever made

AllActions == {"install", "update", "start", "restart", "stop", "remove", "configure", "restore", "backup"}

ASSUME PlansAssumption ==
    /\ Daemon \in Managers
    /\ Nobody \notin Managers /\ Operator \notin Managers /\ Nobody # Operator
    /\ Actions \subseteq AllActions /\ Actions # {}
    /\ Options # {}
    /\ Limit \in Nat \ {0}
    /\ MaxPlans \in Nat \ {0}

Plans == 1..MaxPlans

(* The job that installed the app before the model begins *)
Earlier == MaxPlans + 1
Stamps == 0..Earlier
Jobs == 0..MaxPlans

App == [container : Stamps, running : BOOLEAN, revision : Stamps, options : Options]

(* Neither record nor container; also the value of a local nobody has set *)
Nowhere == [container |-> 0, running |-> FALSE, revision |-> 0, options |-> CHOOSE o \in Options : TRUE]

Plan == [action : Actions, wants : Options, seen : App]

VARIABLES
    app,      \* record.json and the container
    journal,  \* the plan whose replacement was interrupted, 0 when there is no transaction.json
    saved,    \* the state it replaced: transaction.json's "old" and the container
    made,     \* plans ever made
    plan,     \* what each of them says; "seen" has its baseline
    up,       \* the manager's process runs
    plans,    \* Manager.plans
    active,   \* Manager.active
    queue,    \* the job waiting for the worker thread
    pc,       \* the worker thread
    task,     \* its job
    old,      \* the record and container its _execute started from
    final,    \* the status it will publish
    status,   \* Manager.jobs: the status of each plan's job
    newest,   \* the job submitted last
    lock,     \* who holds operation.lock
    draft,    \* the set_options request past its read of the record
    tuned     \* history: plans made before set_options last wrote

disk == <<app, journal, saved>>
paper == <<made, plan>>
workers == <<queue, pc, task, old, final>>
vars == <<disk, paper, up, plans, active, workers, status, newest, lock, draft, tuned>>

(* Revision 0: no request is under way *)
Draft == [revision : Stamps, config : Options]
NoDraft == [revision |-> 0, config |-> CHOOSE o \in Options : TRUE]

Working == {"lock", "check", "apply", "release", "free"}
Final == {"succeeded", "failed"}
Replacing == {"install", "update"}

Installed(a) == a.container # 0

(* A container started or stopped, put in place or removed; a record written *)
Run(a, yes) == [a EXCEPT !.running = yes]
Contain(a, id) == [a EXCEPT !.container = id]
Gone(a) == Contain(Run(a, FALSE), 0)

(* Mutation: revision and options change places *)
RecordSwapped(a, id, opts) == [[a EXCEPT !.revision = opts] EXCEPT !.options = id]

Record(a, id, opts) == [[a EXCEPT !.revision = id] EXCEPT !.options = opts]

(* preflight's checks of container and record *)
Allowed(action, a) ==
    CASE action = "install" -> ~Installed(a)
      [] action = "update" -> a.revision # 0
      [] OTHER -> Installed(a) /\ a.revision # 0

Preflight(action) == journal = 0 /\ Allowed(action, app)

(* Mutation: the container's identity is left out *)
RevisionOnly(a) == <<a.running, a.revision>>

(* What preflight returns and _job compares *)
Baseline(a) == <<a.container, a.running, a.revision>>

Init ==
    /\ made = 0
    /\ \E o \in Options, first \in {0, Earlier} :
           /\ app = [container |-> first, running |-> FALSE, revision |-> first, options |-> o]
           /\ plan = [p \in Plans |-> [action |-> CHOOSE a \in Actions : TRUE, wants |-> o, seen |-> app]]
    /\ journal = 0 /\ saved = Nowhere
    /\ up = [m \in Managers |-> FALSE]
    /\ plans = [m \in Managers |-> {}]
    /\ active = [m \in Managers |-> FALSE]
    /\ queue = [m \in Managers |-> 0]
    /\ pc = [m \in Managers |-> "idle"]
    /\ task = [m \in Managers |-> 0]
    /\ old = [m \in Managers |-> Nowhere]
    /\ final = [m \in Managers |-> "failed"]
    /\ status = [p \in Plans |-> "none"]
    /\ newest = [m \in Managers |-> 0]
    /\ lock = Nobody
    /\ draft = NoDraft
    /\ tuned = {}

-----------------------------------------------------------------------------
(* Planning and approval: under the manager's guard *)

(* A command-line call plans once, applies its plan and ends *)
MayPlan(m) == up[m] /\ (m = Daemon \/ (plans[m] = {} /\ newest[m] = 0))

(* Lifecycle actions use the installed options, a restore those of its backup.  *)
(* Time is not modelled: whenever a plan's age is looked at it may be found     *)
(* expired, and is then forgotten                                              *)
MakePlan(m) ==
    \E action \in Actions, wants \in Options, kept \in SUBSET plans[m] :
        /\ MayPlan(m)
        /\ made < MaxPlans
        /\ Preflight(action)
        /\ action \notin {"install", "update", "configure", "restore"} => wants = app.options
        /\ Cardinality(kept) < Limit
        /\ made' = made + 1
        /\ plan' = [plan EXCEPT ![made'] = [action |-> action, wants |-> wants, seen |-> app]]
        /\ plans' = [plans EXCEPT ![m] = kept \cup {made'}]
        /\ UNCHANGED <<disk, up, active, workers, status, newest, lock, draft, tuned>>

(* "Too many pending plans": the expired ones are gone all the same *)
TooManyPlans(m) ==
    \E action \in Actions, kept \in SUBSET plans[m] :
        /\ MayPlan(m)
        /\ Preflight(action)
        /\ Cardinality(kept) >= Limit
        /\ plans' = [plans EXCEPT ![m] = kept]
        /\ UNCHANGED <<disk, paper, up, active, workers, status, newest, lock, draft, tuned>>

Submit(m, p) ==
    /\ up[m]
    /\ ~active[m]
    /\ p \in plans[m]
    /\ plans' = [plans EXCEPT ![m] = @ \ {p}]
    /\ active' = [active EXCEPT ![m] = TRUE]
    /\ status' = [status EXCEPT ![p] = "queued"]
    /\ newest' = [newest EXCEPT ![m] = p]
    /\ queue' = [queue EXCEPT ![m] = p]
    /\ UNCHANGED <<disk, paper, up, pc, task, old, final, lock, draft, tuned>>

SubmitExpired(m, p) ==
    /\ up[m]
    /\ ~active[m]
    /\ p \in plans[m]
    /\ plans' = [plans EXCEPT ![m] = @ \ {p}]
    /\ UNCHANGED <<disk, paper, up, active, workers, status, newest, lock, draft, tuned>>

(* The job's file cannot be written: write_json raises out of submit *)
SubmitUnwritten(m, p) ==
    /\ up[m]
    /\ ~active[m]
    /\ p \in plans[m]
    /\ plans' = [plans EXCEPT ![m] = @ \ {p}]
    /\ active' = [active EXCEPT ![m] = TRUE]
    /\ status' = [status EXCEPT ![p] = "queued"]
    /\ newest' = [newest EXCEPT ![m] = p]
    /\ UNCHANGED <<disk, paper, up, workers, lock, draft, tuned>>

-----------------------------------------------------------------------------
(* _job, in the worker thread *)

Step(m, at, next) == pc[m] = at /\ pc' = [pc EXCEPT ![m] = next]

Rest == <<paper, up, plans, newest, draft, tuned>>

JobBegins(m) ==
    /\ queue[m] # 0
    /\ Step(m, "idle", "lock")
    /\ task' = [task EXCEPT ![m] = queue[m]]
    /\ queue' = [queue EXCEPT ![m] = 0]
    /\ UNCHANGED <<disk, active, old, final, status, lock, Rest>>

(* Under the lock the job is announced as running, whose file may fail *)
TakeLock(m) ==
    /\ pc[m] = "lock"
    /\ lock = Nobody
    /\ lock' = m
    /\ status' = [status EXCEPT ![task[m]] = "running"]
    /\ \E next \in {"check", "release"} : pc' = [pc EXCEPT ![m] = next]
    /\ UNCHANGED <<disk, active, queue, task, old, final, Rest>>

(* LOCK_NB: "Another native-app operation is active" *)
LockBusy(m) ==
    /\ Step(m, "lock", "free")
    /\ lock # Nobody
    /\ UNCHANGED <<disk, active, queue, task, old, final, status, lock, Rest>>

(* preflight again, and "baseline != plan[baseline]" *)
Valid(p) ==
    /\ Preflight(plan[p].action)
    /\ Baseline(app) = Baseline(plan[p].seen)

(* "Revalidating approved plan"; _execute then reads record and container *)
Revalidate(m) ==
    /\ Step(m, "check", "apply")
    /\ Valid(task[m])
    /\ old' = [old EXCEPT ![m] = app]
    /\ UNCHANGED <<disk, active, queue, task, final, status, lock, Rest>>

(* "Installed state changed after planning; review a new plan" *)
Reject(m) ==
    /\ Step(m, "check", "release")
    /\ ~Valid(task[m])
    /\ UNCHANGED <<disk, active, queue, task, old, final, status, lock, Rest>>

(* What the action of plan p makes of the app, from what was read before *)
Changed(p, before) ==
    LET wants == plan[p].wants IN
    CASE plan[p].action \in Replacing -> Record(Contain(before, p), p, wants)
      [] plan[p].action \in {"start", "restart"} -> Run(app, TRUE)
      [] plan[p].action = "stop" -> Run(app, FALSE)
      [] plan[p].action = "remove" -> Record(Gone(app), p, before.options)
      [] plan[p].action \in {"configure", "restore"} -> Record(app, p, wants)
      [] OTHER -> app

(* The old record, over the old container or one built anew *)
RolledBack(p, before) ==
    {before} \cup (IF Installed(before) THEN {Contain(before, p)} ELSE {})

(* What is left when a call fails: a replacement is rolled back unless it was  *)
(* complete; remove may be past the container, configure and restore past the  *)
(* record; a container may stand stopped or started                            *)
Partial(p, before) ==
    CASE plan[p].action \in Replacing -> RolledBack(p, before) \cup {Changed(p, before)}
      [] plan[p].action = "remove" -> {app, Run(app, FALSE), Gone(app)}
      [] plan[p].action \in {"configure", "restore"} -> {app, Run(app, FALSE), Changed(p, before)}
      [] OTHER -> {app, Run(app, FALSE), Run(app, TRUE)}

Apply(m) ==
    /\ Step(m, "apply", "release")
    /\ app' = Changed(task[m], old[m])
    /\ old' = [old EXCEPT ![m] = Nowhere]
    /\ final' = [final EXCEPT ![m] = "succeeded"]
    /\ UNCHANGED <<journal, saved, active, queue, task, status, lock, Rest>>

(* The rollback of a replacement may fail too and leave its journal *)
Interrupted(m) ==
    /\ app' \in Partial(task[m], old[m])
    /\ \/ UNCHANGED <<journal, saved>>
       \/ /\ plan[task[m]].action \in Replacing
          /\ journal' = task[m]
          /\ saved' = old[m]

ApplyFails(m) ==
    /\ Step(m, "apply", "release")
    /\ Interrupted(m)
    /\ old' = [old EXCEPT ![m] = Nowhere]
    /\ UNCHANGED <<active, queue, task, final, status, lock, Rest>>

(* Mutation: the status is published before the manager is free *)
ReleasePublishes(m) ==
    /\ Step(m, "release", "free")
    /\ lock' = Nobody
    /\ status' = [status EXCEPT ![task[m]] = final[m]]
    /\ UNCHANGED <<disk, active, queue, task, old, final, Rest>>

(* Leaving the with statement *)
Release(m) ==
    /\ Step(m, "release", "free")
    /\ lock' = Nobody
    /\ UNCHANGED <<disk, active, queue, task, old, final, status, Rest>>

Free(m) ==
    /\ Step(m, "free", "publish")
    /\ active' = [active EXCEPT ![m] = FALSE]
    /\ UNCHANGED <<disk, queue, task, old, final, status, lock, Rest>>

Publish(m) ==
    /\ Step(m, "publish", "idle")
    /\ status' = [status EXCEPT ![task[m]] = final[m]]
    /\ task' = [task EXCEPT ![m] = 0]
    /\ final' = [final EXCEPT ![m] = "failed"]
    /\ UNCHANGED <<disk, active, queue, old, lock, Rest>>

Worker(m) ==
    \/ JobBegins(m) \/ TakeLock(m) \/ LockBusy(m) \/ Revalidate(m) \/ Reject(m)
    \/ Apply(m) \/ ApplyFails(m) \/ Release(m) \/ Free(m) \/ Publish(m)

-----------------------------------------------------------------------------
(* set_options of the Supervisor API, in the daemon: the record is read and    *)
(* the new options are validated before the guard is taken                     *)
ReadOptions(o) ==
    /\ up[Daemon]
    /\ app.running /\ app.revision # 0
    /\ draft = NoDraft
    /\ draft' = [revision |-> app.revision, config |-> o]
    /\ UNCHANGED <<disk, paper, up, plans, active, workers, status, newest, lock, tuned>>

WriteOptions ==
    /\ draft.revision # 0
    /\ ~active[Daemon]
    /\ app' = Record(app, draft.revision, draft.config)
    /\ draft' = NoDraft
    /\ tuned' = 1..made
    /\ UNCHANGED <<journal, saved, paper, up, plans, active, workers, status, newest, lock>>

(* "A lifecycle job is running; try again shortly" *)
OptionsRefused ==
    /\ draft.revision # 0
    /\ active[Daemon]
    /\ draft' = NoDraft
    /\ UNCHANGED <<disk, paper, up, plans, active, workers, status, newest, lock, tuned>>

-----------------------------------------------------------------------------
(* Processes, the operator's commands, and the app itself *)

Start(m) ==
    /\ ~up[m]
    /\ up' = [up EXCEPT ![m] = TRUE]
    /\ UNCHANGED <<disk, paper, plans, active, workers, status, newest, lock, draft, tuned>>

(* The process ends: a command-line call that is done, a stop or a crash.      *)
(* The kernel drops its lock                                                   *)
End(m) ==
    /\ up[m]
    /\ up' = [up EXCEPT ![m] = FALSE]
    /\ plans' = [plans EXCEPT ![m] = {}]
    /\ active' = [active EXCEPT ![m] = FALSE]
    /\ queue' = [queue EXCEPT ![m] = 0]
    /\ pc' = [pc EXCEPT ![m] = "idle"]
    /\ newest' = [newest EXCEPT ![m] = 0]
    /\ lock' = IF lock = m THEN Nobody ELSE lock
    /\ draft' = IF m = Daemon THEN NoDraft ELSE draft
    /\ \/ UNCHANGED disk
       \/ pc[m] = "apply" /\ Interrupted(m)
    /\ task' = [task EXCEPT ![m] = 0]
    /\ old' = [old EXCEPT ![m] = Nowhere]
    /\ final' = [final EXCEPT ![m] = "failed"]
    /\ status' = [p \in Plans |-> IF p \in {newest[m], queue[m], task[m]} THEN "none" ELSE status[p]]
    /\ UNCHANGED <<paper, tuned>>

OperatorBegins ==
    /\ lock = Nobody
    /\ lock' = Operator
    /\ UNCHANGED <<disk, paper, up, plans, active, workers, status, newest, draft, tuned>>

(* "opiha-apps repair": the record and container the journal names *)
Repair ==
    /\ lock = Operator
    /\ journal # 0
    /\ app' \in RolledBack(journal, saved)
    /\ journal' = 0
    /\ saved' = Nowhere
    /\ lock' = Nobody
    /\ UNCHANGED <<paper, up, plans, active, workers, status, newest, draft, tuned>>

OperatorEnds ==
    /\ lock = Operator
    /\ lock' = Nobody
    /\ UNCHANGED <<disk, paper, up, plans, active, workers, status, newest, draft, tuned>>

(* An app exits, or Docker or a backup of all apps stops or starts it *)
Drift ==
    /\ Installed(app)
    /\ app' = Run(app, ~app.running)
    /\ UNCHANGED <<journal, saved, paper, up, plans, active, workers, status, newest, lock, draft, tuned>>

-----------------------------------------------------------------------------
Client(m) ==
    \/ MakePlan(m) \/ TooManyPlans(m)
    \/ \E p \in Plans : Submit(m, p) \/ SubmitExpired(m, p) \/ SubmitUnwritten(m, p)
    \/ Start(m) \/ End(m)

Environment ==
    \/ \E o \in Options : ReadOptions(o)
    \/ WriteOptions \/ OptionsRefused
    \/ OperatorBegins \/ Repair \/ OperatorEnds
    \/ Drift

Next == Environment \/ \E m \in Managers : Client(m) \/ Worker(m)

Spec == Init /\ [][Next]_vars

-----------------------------------------------------------------------------
(* Properties *)

(* Every variable keeps the shape the code gives it. *)
TypeOK ==
    /\ app \in App /\ saved \in App
    /\ journal \in Jobs /\ made \in Jobs
    /\ plan \in [Plans -> Plan]
    /\ up \in [Managers -> BOOLEAN] /\ active \in [Managers -> BOOLEAN]
    /\ plans \in [Managers -> SUBSET Plans]
    /\ queue \in [Managers -> Jobs] /\ task \in [Managers -> Jobs] /\ newest \in [Managers -> Jobs]
    /\ pc \in [Managers -> Working \cup {"idle", "publish"}]
    /\ old \in [Managers -> App]
    /\ final \in [Managers -> Final]
    /\ status \in [Plans -> Final \cup {"none", "queued", "running"}]
    /\ lock \in Managers \cup {Nobody, Operator}
    /\ draft \in Draft
    /\ tuned \subseteq Plans

(* manager.py:396: "anyone who sees succeeded or failed must be able to submit *)
(* the next plan immediately".  When the job submitted last shows an end, its  *)
(* manager is free, and no job that shows an end holds the operation lock.     *)
FinalMeansFree ==
    \A m \in Managers :
        /\ newest[m] # 0 /\ active[m] => status[newest[m]] \notin Final
        /\ lock = m => status[task[m]] \notin Final

(* Plans whose job has not come to an effect yet *)
Pending == {"lock", "check", "apply"}

Held(m) ==
    plans[m] \cup {p \in Plans : queue[m] = p \/ (pc[m] \in Pending /\ task[m] = p)}

(* What the baseline of a plan fixes of an installed app for good; whether it  *)
(* runs may change by itself                                                   *)
Identity(a) == [container |-> a.container, revision |-> a.revision]

Promise == INSTANCE ApprovedChanges WITH
    States <- [container : Stamps, revision : Stamps],
    open <- UNION {Held(m) : m \in Managers},
    seen <- [p \in Plans |-> Identity(plan[p].seen)],
    state <- Identity(app),
    broken <- journal # 0

(* Whatever two managers, restarts and repairs do meanwhile, a plan takes      *)
(* effect at most once, and only on the container and revision it was made     *)
(* for, unless set_options wrote in between.                                   *)
AppliesApproved == Promise!Spec

(* manager.py:377, "Another app job is already running": a manager that        *)
(* refuses a plan with these words has a job.                                  *)
BusyMeansJob == \A m \in Managers : active[m] => queue[m] # 0 \/ pc[m] \in Working

(* ARCHITECTURE.md: "The worker repeats preflight and rejects changed state".  *)
(* A job writes a record only over the options its plan was made with.         *)
RejectsChangedState ==
    [][\A m \in Managers :
           pc[m] = "apply" /\ app'.revision # app.revision
               => app.options = plan[task[m]].seen.options]_vars
=============================================================================
