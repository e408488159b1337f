---------------------------- MODULE AppPlansProofs ----------------------------
(***************************************************************************)
(* Safety of AppPlans for every set of managers, actions and options and   *)
(* every number of plans.                                                  *)
(***************************************************************************)
EXTENDS AppPlans, TLAPS

(* The plans a manager knows or has a job for *)
Jobs3(m) == {queue[m], task[m], newest[m]}

(* No plan is known to two managers, nor kept once it was submitted *)
Owned ==
    /\ \A m \in Managers : \A p \in plans[m] : p <= made /\ p \notin Jobs3(m)
    /\ \A m \in Managers : queue[m] <= made /\ task[m] <= made /\ newest[m] <= made
    /\ \A m, n \in Managers : m # n =>
           /\ plans[m] \cap plans[n] = {}
           /\ \A p \in Jobs3(m) : p # 0 => p \notin plans[n] /\ p \notin Jobs3(n)

(* What the active flag says about queue, worker and the job submitted last *)
Busy ==
    \A m \in Managers :
        /\ pc[m] \in Working => active[m] /\ queue[m] = 0 /\ newest[m] = task[m] /\ task[m] # 0
        /\ queue[m] # 0 => active[m] /\ newest[m] = queue[m] /\ queue[m] # task[m]
        /\ pc[m] = "publish" => task[m] # 0 /\ (active[m] => newest[m] # task[m])
        /\ pc[m] = "idle" => task[m] = 0
        /\ active[m] => newest[m] # 0 /\ status[newest[m]] \notin Final

(* The operation lock is held between its acquisition and its release *)
Locked == \A m \in Managers : pc[m] \in {"check", "apply", "release"} <=> lock = m

(* Between the comparison and the effect of a job the app stays as approved *)
Approved ==
    \A m \in Managers : pc[m] = "apply" =>
        /\ journal = 0
        /\ task[m] \in tuned \/ Identity(app) = Identity(plan[task[m]].seen)

IInv == TypeOK /\ Owned /\ Busy /\ Locked /\ Approved

(* The values an app, its options and a request may take *)
LEMMA NowhereType == Nowhere \in App
BY PlansAssumption, SMT DEF Nowhere, App, Stamps, Earlier

LEMMA NoDraftType == NoDraft \in Draft
BY PlansAssumption, SMT DEF NoDraft, Draft, Stamps, Earlier

LEMMA AppParts ==
    ASSUME NEW a \in App
    PROVE  /\ a.container \in Stamps /\ a.running \in BOOLEAN
           /\ a.revision \in Stamps /\ a.options \in Options
BY SMT DEF App

LEMMA RunType ==
    ASSUME NEW a \in App, NEW yes \in BOOLEAN
    PROVE  Run(a, yes) \in App
BY SMT DEF App, Run

LEMMA ContainType ==
    ASSUME NEW a \in App, NEW id \in Stamps
    PROVE  Contain(a, id) \in App
BY SMT DEF App, Contain

LEMMA GoneType ==
    ASSUME NEW a \in App
    PROVE  Gone(a) \in App
<1>1. Run(a, FALSE) \in App
  BY RunType, Zenon
<1>2. 0 \in Stamps
  BY PlansAssumption, SMT DEF Stamps, Earlier
<1> QED BY <1>1, <1>2, ContainType DEF Gone

LEMMA RecordType ==
    ASSUME NEW a \in App, NEW id \in Stamps, NEW opts \in Options
    PROVE  Record(a, id, opts) \in App
<1>1. [a EXCEPT !.revision = id] \in App
  BY SMT DEF App
<1>2. \A b \in App : [b EXCEPT !.options = opts] \in App
  BY SMT DEF App
<1> QED BY <1>1, <1>2, Zenon DEF Record

(* What an action makes of an app is an app *)
LEMMA ChangedType ==
    ASSUME TypeOK, NEW p \in Plans, NEW before \in App
    PROVE  Changed(p, before) \in App
<1>1. plan[p].wants \in Options /\ app \in App /\ p \in Stamps /\ before.options \in Options
  BY PlansAssumption, AppParts, SMT DEF TypeOK, Plans, Plan, Stamps, Earlier
<1>2. Record(Contain(before, p), p, plan[p].wants) \in App
  BY <1>1, ContainType, RecordType
<1>3. Record(Gone(app), p, before.options) \in App
  BY <1>1, GoneType, RecordType
<1>4. Record(app, p, plan[p].wants) \in App
  BY <1>1, RecordType
<1>5. Run(app, TRUE) \in App /\ Run(app, FALSE) \in App
  BY <1>1, RunType, Zenon
<1> QED BY <1>1, <1>2, <1>3, <1>4, <1>5 DEF Changed

LEMMA RolledBackType ==
    ASSUME NEW p \in Stamps, NEW before \in App
    PROVE  RolledBack(p, before) \subseteq App
BY ContainType DEF RolledBack

LEMMA PartialType ==
    ASSUME TypeOK, NEW p \in Plans, NEW before \in App
    PROVE  Partial(p, before) \subseteq App
<1>1. app \in App /\ p \in Stamps
  BY PlansAssumption, SMT DEF TypeOK, Plans, Stamps, Earlier
<1>2. RolledBack(p, before) \subseteq App
  BY <1>1, RolledBackType
<1>3. Gone(app) \in App
  BY <1>1, GoneType
<1>4. Changed(p, before) \in App
  BY ChangedType
<1>5. Run(app, TRUE) \in App /\ Run(app, FALSE) \in App
  BY <1>1, RunType, Zenon
<1> QED BY <1>1, <1>2, <1>3, <1>4, <1>5 DEF Partial

(* What is left of an interrupted action *)
LEMMA InterruptedType ==
    ASSUME TypeOK, NEW m \in Managers, task[m] # 0, Interrupted(m)
    PROVE  app' \in App /\ saved' \in App /\ journal' \in Jobs
<1>1. task[m] \in Plans /\ old[m] \in App
  BY PlansAssumption, SMT DEF TypeOK, Plans, Jobs
<1>2. app' \in App
  BY <1>1, PartialType DEF Interrupted
<1>3. saved' \in App /\ journal' \in Jobs
  BY <1>1, SMT DEF Interrupted, TypeOK
<1> QED BY <1>2, <1>3

(* Every step keeps every variable's shape *)
LEMMA TypeStep ==
    ASSUME IInv, [Next]_vars
    PROVE  TypeOK'
<1> USE PlansAssumption DEF IInv, TypeOK, Plans, Jobs, Working, Final, disk, paper, workers, Rest, Step
<1>1. CASE UNCHANGED vars
  BY <1>1 DEF vars
<1>2. CASE Environment
  <2>1. ASSUME NEW o \in Options, ReadOptions(o)
       PROVE  TypeOK'
    <3>1. draft' \in Draft
      BY <2>1, SMTT(30) DEF ReadOptions, Draft, App
    <3> QED BY <2>1, <3>1, SMTT(30) DEF ReadOptions
  <2>2. CASE WriteOptions
    <3>1. draft.revision \in Stamps /\ draft.config \in Options
      BY SMT DEF Draft
    <3>2. app' \in App
      BY <2>2, <3>1, RecordType DEF WriteOptions
    <3>3. draft' \in Draft
      BY <2>2, NoDraftType DEF WriteOptions
    <3>4. tuned' \subseteq Plans
      BY <2>2, SMT DEF WriteOptions
    <3> QED BY <2>2, <3>2, <3>3, <3>4, SMTT(30) DEF WriteOptions
  <2>3. CASE OptionsRefused
    BY <2>3, NoDraftType, SMTT(30) DEF OptionsRefused
  <2>4. CASE OperatorBegins
    BY <2>4, SMTT(30) DEF OperatorBegins
  <2>5. CASE Repair
    <3>1. journal \in Stamps
      BY SMT DEF Stamps, Earlier
    <3>2. app' \in App
      BY <2>5, <3>1, RolledBackType DEF Repair
    <3> QED BY <2>5, <3>2, NowhereType, SMTT(30) DEF Repair
  <2>6. CASE OperatorEnds
    BY <2>6, SMTT(30) DEF OperatorEnds
  <2>7. CASE Drift
    <3>1. (~app.running) \in BOOLEAN
      OBVIOUS
    <3>2. app' \in App
      BY <2>7, <3>1, RunType, Zenon DEF Drift
    <3> QED BY <2>7, <3>2, SMTT(30) DEF Drift
  <2> QED BY <1>2, <2>1, <2>2, <2>3, <2>4, <2>5, <2>6, <2>7 DEF Environment
<1>3. ASSUME NEW m \in Managers, Client(m)
      PROVE  TypeOK'
  <2>1. CASE MakePlan(m)
    <3> PICK action \in Actions, wants \in Options : plan' = [plan EXCEPT ![made'] = [action |-> action, wants |-> wants, seen |-> app]]
      BY <2>1 DEF MakePlan
    <3>1. [action |-> action, wants |-> wants, seen |-> app] \in Plan
      BY DEF Plan
    <3> QED BY <2>1, <3>1, SMTT(30) DEF MakePlan
  <2>2. CASE TooManyPlans(m)
    BY <2>2, SMTT(30) DEF TooManyPlans, MayPlan
  <2>3. CASE Start(m)
    BY <2>3, SMTT(30) DEF Start
  <2>4. CASE End(m)
    <3>1. app' \in App /\ saved' \in App /\ journal' \in Jobs
      BY <2>4, InterruptedType, SMTT(30) DEF End, Busy
    <3>2. draft' \in Draft
      BY <2>4, NoDraftType, SMTT(30) DEF End
    <3> QED BY <2>4, <3>1, <3>2, NowhereType, SMTT(30) DEF End
  <2>5. ASSUME NEW p \in Plans, Submit(m, p)
       PROVE  TypeOK'
    BY <2>5, SMTT(30) DEF Submit
  <2>6. ASSUME NEW p \in Plans, SubmitExpired(m, p)
       PROVE  TypeOK'
    BY <2>6, SMTT(30) DEF SubmitExpired
  <2>7. ASSUME NEW p \in Plans, SubmitUnwritten(m, p)
       PROVE  TypeOK'
    BY <2>7, SMTT(30) DEF SubmitUnwritten
  <2> QED BY <1>3, <2>1, <2>2, <2>3, <2>4, <2>5, <2>6, <2>7 DEF Client
<1>4. ASSUME NEW m \in Managers, Worker(m)
      PROVE  TypeOK'
  <2>1. CASE JobBegins(m)
    BY <2>1, SMTT(30) DEF JobBegins
  <2>2. CASE TakeLock(m)
    <3>1. task[m] \in Plans
      BY <2>2, SMTT(30) DEF TakeLock, Busy
    <3>2. pc' \in [Managers -> Working \cup {"idle", "publish"}]
      BY <2>2, SMTT(30) DEF TakeLock
    <3>3. status' \in [Plans -> Final \cup {"none", "queued", "running"}]
      BY <2>2, <3>1, SMTT(30) DEF TakeLock
    <3> QED BY <2>2, <3>2, <3>3, SMTT(30) DEF TakeLock
  <2>3. CASE LockBusy(m)
    BY <2>3, SMTT(30) DEF LockBusy
  <2>4. CASE Revalidate(m)
    BY <2>4, SMTT(30) DEF Revalidate
  <2>5. CASE Reject(m)
    BY <2>5, SMTT(30) DEF Reject
  <2>6. CASE Apply(m)
    <3>1. task[m] \in Plans
      BY <2>6, SMTT(30) DEF Apply, Busy
    <3>2. app' \in App
      BY <2>6, <3>1, ChangedType, SMTT(30) DEF Apply
    <3> QED BY <2>6, <3>2, NowhereType, SMTT(30) DEF Apply
  <2>7. CASE ApplyFails(m)
    <3>1. app' \in App /\ saved' \in App /\ journal' \in Jobs
      BY <2>7, InterruptedType, SMTT(30) DEF ApplyFails, Busy
    <3> QED BY <2>7, <3>1, NowhereType, SMTT(30) DEF ApplyFails
  <2>8. CASE Release(m)
    BY <2>8, SMTT(30) DEF Release
  <2>9. CASE Free(m)
    BY <2>9, SMTT(30) DEF Free
  <2>10. CASE Publish(m)
    <3>1. task[m] \in Plans
      BY <2>10, SMTT(30) DEF Publish, Busy
    <3>2. status' \in [Plans -> Final \cup {"none", "queued", "running"}]
      BY <2>10, <3>1, SMTT(30) DEF Publish
    <3> QED BY <2>10, <3>2, SMTT(30) DEF Publish
  <2> QED BY <1>4, <2>1, <2>2, <2>3, <2>4, <2>5, <2>6, <2>7, <2>8, <2>9, <2>10 DEF Worker
<1> QED BY <1>1, <1>2, <1>3, <1>4 DEF Next

(* Plans change hands only when they are made, submitted or forgotten *)
LEMMA OwnedStep ==
    ASSUME IInv, [Next]_vars
    PROVE  Owned'
<1> USE PlansAssumption DEF IInv, TypeOK, Owned, Jobs3, Busy, Working, Plans, Jobs, disk, paper, workers, Rest, Step
<1>1. CASE UNCHANGED vars
  BY <1>1 DEF vars
<1>2. CASE Environment
  <2>1. ASSUME NEW o \in Options, ReadOptions(o)
       PROVE  Owned'
    BY <2>1, SMTT(30) DEF ReadOptions
  <2>2. CASE WriteOptions
    BY <2>2, SMTT(30) DEF WriteOptions
  <2>3. CASE OptionsRefused
    BY <2>3, SMTT(30) DEF OptionsRefused
  <2>4. CASE OperatorBegins
    BY <2>4, SMTT(30) DEF OperatorBegins
  <2>5. CASE Repair
    BY <2>5, SMTT(30) DEF Repair
  <2>6. CASE OperatorEnds
    BY <2>6, SMTT(30) DEF OperatorEnds
  <2>7. CASE Drift
    BY <2>7, SMTT(30) DEF Drift
  <2> QED BY <1>2, <2>1, <2>2, <2>3, <2>4, <2>5, <2>6, <2>7 DEF Environment
<1>3. ASSUME NEW m \in Managers, Client(m)
      PROVE  Owned'
  <2>1. CASE MakePlan(m)
    BY <2>1, SMTT(30) DEF MakePlan, MayPlan, Preflight
  <2>2. CASE TooManyPlans(m)
    BY <2>2, SMTT(30) DEF TooManyPlans, MayPlan
  <2>3. CASE Start(m)
    BY <2>3, SMTT(30) DEF Start
  <2>4. CASE End(m)
    BY <2>4, SMTT(30) DEF End, Interrupted
  <2>5. ASSUME NEW p \in Plans, Submit(m, p)
       PROVE  Owned'
    BY <2>5, SMTT(30) DEF Submit
  <2>6. ASSUME NEW p \in Plans, SubmitExpired(m, p)
       PROVE  Owned'
    BY <2>6, SMTT(30) DEF SubmitExpired
  <2>7. ASSUME NEW p \in Plans, SubmitUnwritten(m, p)
       PROVE  Owned'
    BY <2>7, SMTT(30) DEF SubmitUnwritten
  <2> QED BY <1>3, <2>1, <2>2, <2>3, <2>4, <2>5, <2>6, <2>7 DEF Client
<1>4. ASSUME NEW m \in Managers, Worker(m)
      PROVE  Owned'
  <2>1. CASE JobBegins(m)
    BY <2>1, SMTT(30) DEF JobBegins
  <2>2. CASE TakeLock(m)
    BY <2>2, SMTT(30) DEF TakeLock
  <2>3. CASE LockBusy(m)
    BY <2>3, SMTT(30) DEF LockBusy
  <2>4. CASE Revalidate(m)
    BY <2>4, SMTT(30) DEF Revalidate, Valid, Preflight
  <2>5. CASE Reject(m)
    BY <2>5, SMTT(30) DEF Reject
  <2>6. CASE Apply(m)
    BY <2>6, SMTT(30) DEF Apply
  <2>7. CASE ApplyFails(m)
    BY <2>7, SMTT(30) DEF ApplyFails, Interrupted
  <2>8. CASE Release(m)
    BY <2>8, SMTT(30) DEF Release
  <2>9. CASE Free(m)
    BY <2>9, SMTT(30) DEF Free
  <2>10. CASE Publish(m)
    BY <2>10, SMTT(30) DEF Publish
  <2> QED BY <1>4, <2>1, <2>2, <2>3, <2>4, <2>5, <2>6, <2>7, <2>8, <2>9, <2>10 DEF Worker
<1> QED BY <1>1, <1>2, <1>3, <1>4 DEF Next

(* A manager is busy for a job that has not ended *)
LEMMA BusyStep ==
    ASSUME IInv, [Next]_vars
    PROVE  Busy'
<1> USE PlansAssumption DEF IInv, TypeOK, Owned, Jobs3, Busy, Working, Final, Plans, Jobs, disk, paper, workers, Rest, Step
<1>1. CASE UNCHANGED vars
  BY <1>1 DEF vars
<1>2. CASE Environment
  <2>1. ASSUME NEW o \in Options, ReadOptions(o)
       PROVE  Busy'
    BY <2>1, SMTT(30) DEF ReadOptions
  <2>2. CASE WriteOptions
    BY <2>2, SMTT(30) DEF WriteOptions
  <2>3. CASE OptionsRefused
    BY <2>3, SMTT(30) DEF OptionsRefused
  <2>4. CASE OperatorBegins
    BY <2>4, SMTT(30) DEF OperatorBegins
  <2>5. CASE Repair
    BY <2>5, SMTT(30) DEF Repair
  <2>6. CASE OperatorEnds
    BY <2>6, SMTT(30) DEF OperatorEnds
  <2>7. CASE Drift
    BY <2>7, SMTT(30) DEF Drift
  <2> QED BY <1>2, <2>1, <2>2, <2>3, <2>4, <2>5, <2>6, <2>7 DEF Environment
<1>3. ASSUME NEW m \in Managers, Client(m)
      PROVE  Busy'
  <2>1. CASE MakePlan(m)
    BY <2>1, SMTT(30) DEF MakePlan, MayPlan, Preflight
  <2>2. CASE TooManyPlans(m)
    BY <2>2, SMTT(30) DEF TooManyPlans, MayPlan
  <2>3. CASE Start(m)
    BY <2>3, SMTT(30) DEF Start
  <2>4. CASE End(m)
    BY <2>4, SMTT(30) DEF End, Interrupted
  <2>5. ASSUME NEW p \in Plans, Submit(m, p)
       PROVE  Busy'
    BY <2>5, SMTT(30) DEF Submit
  <2>6. ASSUME NEW p \in Plans, SubmitExpired(m, p)
       PROVE  Busy'
    BY <2>6, SMTT(30) DEF SubmitExpired
  <2>7. ASSUME NEW p \in Plans, SubmitUnwritten(m, p)
       PROVE  Busy'
    BY <2>7, SMTT(30) DEF SubmitUnwritten
  <2> QED BY <1>3, <2>1, <2>2, <2>3, <2>4, <2>5, <2>6, <2>7 DEF Client
<1>4. ASSUME NEW m \in Managers, Worker(m)
      PROVE  Busy'
  <2>1. CASE JobBegins(m)
    BY <2>1, SMTT(30) DEF JobBegins
  <2>2. CASE TakeLock(m)
    BY <2>2, SMTT(30) DEF TakeLock
  <2>3. CASE LockBusy(m)
    BY <2>3, SMTT(30) DEF LockBusy
  <2>4. CASE Revalidate(m)
    BY <2>4, SMTT(30) DEF Revalidate, Valid, Preflight
  <2>5. CASE Reject(m)
    BY <2>5, SMTT(30) DEF Reject
  <2>6. CASE Apply(m)
    BY <2>6, SMTT(30) DEF Apply
  <2>7. CASE ApplyFails(m)
    BY <2>7, SMTT(30) DEF ApplyFails, Interrupted
  <2>8. CASE Release(m)
    BY <2>8, SMTT(30) DEF Release
  <2>9. CASE Free(m)
    BY <2>9, SMTT(30) DEF Free
  <2>10. CASE Publish(m)
    BY <2>10, SMTT(30) DEF Publish
  <2> QED BY <1>4, <2>1, <2>2, <2>3, <2>4, <2>5, <2>6, <2>7, <2>8, <2>9, <2>10 DEF Worker
<1> QED BY <1>1, <1>2, <1>3, <1>4 DEF Next

(* One process at a time holds the lock *)
LEMMA LockedStep ==
    ASSUME IInv, [Next]_vars
    PROVE  Locked'
<1> USE PlansAssumption DEF IInv, TypeOK, Locked, disk, paper, workers, Rest, Step
<1>1. CASE UNCHANGED vars
  BY <1>1 DEF vars
<1>2. CASE Environment
  <2>1. ASSUME NEW o \in Options, ReadOptions(o)
       PROVE  Locked'
    BY <2>1, SMTT(30) DEF ReadOptions
  <2>2. CASE WriteOptions
    BY <2>2, SMTT(30) DEF WriteOptions
  <2>3. CASE OptionsRefused
    BY <2>3, SMTT(30) DEF OptionsRefused
  <2>4. CASE OperatorBegins
    BY <2>4, SMTT(30) DEF OperatorBegins
  <2>5. CASE Repair
    BY <2>5, SMTT(30) DEF Repair
  <2>6. CASE OperatorEnds
    BY <2>6, SMTT(30) DEF OperatorEnds
  <2>7. CASE Drift
    BY <2>7, SMTT(30) DEF Drift
  <2> QED BY <1>2, <2>1, <2>2, <2>3, <2>4, <2>5, <2>6, <2>7 DEF Environment
<1>3. ASSUME NEW m \in Managers, Client(m)
      PROVE  Locked'
  <2>1. CASE MakePlan(m)
    BY <2>1, SMTT(30) DEF MakePlan, MayPlan, Preflight
  <2>2. CASE TooManyPlans(m)
    BY <2>2, SMTT(30) DEF TooManyPlans, MayPlan
  <2>3. CASE Start(m)
    BY <2>3, SMTT(30) DEF Start
  <2>4. CASE End(m)
    BY <2>4, SMTT(30) DEF End, Interrupted
  <2>5. ASSUME NEW p \in Plans, Submit(m, p)
       PROVE  Locked'
    BY <2>5, SMTT(30) DEF Submit
  <2>6. ASSUME NEW p \in Plans, SubmitExpired(m, p)
       PROVE  Locked'
    BY <2>6, SMTT(30) DEF SubmitExpired
  <2>7. ASSUME NEW p \in Plans, SubmitUnwritten(m, p)
       PROVE  Locked'
    BY <2>7, SMTT(30) DEF SubmitUnwritten
  <2> QED BY <1>3, <2>1, <2>2, <2>3, <2>4, <2>5, <2>6, <2>7 DEF Client
<1>4. ASSUME NEW m \in Managers, Worker(m)
      PROVE  Locked'
  <2>1. CASE JobBegins(m)
    BY <2>1, SMTT(30) DEF JobBegins
  <2>2. CASE TakeLock(m)
    BY <2>2, SMTT(30) DEF TakeLock
  <2>3. CASE LockBusy(m)
    BY <2>3, SMTT(30) DEF LockBusy
  <2>4. CASE Revalidate(m)
    BY <2>4, SMTT(30) DEF Revalidate, Valid, Preflight
  <2>5. CASE Reject(m)
    BY <2>5, SMTT(30) DEF Reject
  <2>6. CASE Apply(m)
    BY <2>6, SMTT(30) DEF Apply
  <2>7. CASE ApplyFails(m)
    BY <2>7, SMTT(30) DEF ApplyFails, Interrupted
  <2>8. CASE Release(m)
    BY <2>8, SMTT(30) DEF Release
  <2>9. CASE Free(m)
    BY <2>9, SMTT(30) DEF Free
  <2>10. CASE Publish(m)
    BY <2>10, SMTT(30) DEF Publish
  <2> QED BY <1>4, <2>1, <2>2, <2>3, <2>4, <2>5, <2>6, <2>7, <2>8, <2>9, <2>10 DEF Worker
<1> QED BY <1>1, <1>2, <1>3, <1>4 DEF Next

(* Nothing but the holder of the lock changes container and journal *)
LEMMA ApprovedStep ==
    ASSUME IInv, [Next]_vars
    PROVE  Approved'
<1> USE PlansAssumption DEF IInv, TypeOK, Approved, Locked, Owned, Busy, Working, Identity, Plan, App, Plans, Jobs, disk, paper, workers, Rest, Step
<1>1. CASE UNCHANGED vars
  BY <1>1 DEF vars
<1>2. CASE Environment
  <2>1. ASSUME NEW o \in Options, ReadOptions(o)
       PROVE  Approved'
    BY <2>1, SMTT(30) DEF ReadOptions
  <2>2. CASE WriteOptions
    BY <2>2, SMTT(30) DEF WriteOptions
  <2>3. CASE OptionsRefused
    BY <2>3, SMTT(30) DEF OptionsRefused
  <2>4. CASE OperatorBegins
    BY <2>4, SMTT(30) DEF OperatorBegins
  <2>5. CASE Repair
    BY <2>5, SMTT(30) DEF Repair
  <2>6. CASE OperatorEnds
    BY <2>6, SMTT(30) DEF OperatorEnds
  <2>7. CASE Drift
    BY <2>7, SMTT(30) DEF Drift, Run
  <2> QED BY <1>2, <2>1, <2>2, <2>3, <2>4, <2>5, <2>6, <2>7 DEF Environment
<1>3. ASSUME NEW m \in Managers, Client(m)
      PROVE  Approved'
  <2>1. CASE MakePlan(m)
    BY <2>1, SMTT(30) DEF MakePlan, MayPlan, Preflight
  <2>2. CASE TooManyPlans(m)
    BY <2>2, SMTT(30) DEF TooManyPlans, MayPlan
  <2>3. CASE Start(m)
    BY <2>3, SMTT(30) DEF Start
  <2>4. CASE End(m)
    BY <2>4, SMTT(30) DEF End, Interrupted
  <2>5. ASSUME NEW p \in Plans, Submit(m, p)
       PROVE  Approved'
    BY <2>5, SMTT(30) DEF Submit
  <2>6. ASSUME NEW p \in Plans, SubmitExpired(m, p)
       PROVE  Approved'
    BY <2>6, SMTT(30) DEF SubmitExpired
  <2>7. ASSUME NEW p \in Plans, SubmitUnwritten(m, p)
       PROVE  Approved'
    BY <2>7, SMTT(30) DEF SubmitUnwritten
  <2> QED BY <1>3, <2>1, <2>2, <2>3, <2>4, <2>5, <2>6, <2>7 DEF Client
<1>4. ASSUME NEW m \in Managers, Worker(m)
      PROVE  Approved'
  <2>1. CASE JobBegins(m)
    BY <2>1, SMTT(30) DEF JobBegins
  <2>2. CASE TakeLock(m)
    BY <2>2, SMTT(30) DEF TakeLock
  <2>3. CASE LockBusy(m)
    BY <2>3, SMTT(30) DEF LockBusy
  <2>4. CASE Revalidate(m)
    <3>1. Identity(app) = Identity(plan[task[m]].seen)
      BY <2>4 DEF Revalidate, Valid, Baseline
    <3> QED BY <2>4, <3>1, SMTT(30) DEF Revalidate, Valid, Preflight
  <2>5. CASE Reject(m)
    BY <2>5, SMTT(30) DEF Reject
  <2>6. CASE Apply(m)
    BY <2>6, SMTT(30) DEF Apply
  <2>7. CASE ApplyFails(m)
    BY <2>7, SMTT(30) DEF ApplyFails, Interrupted
  <2>8. CASE Release(m)
    BY <2>8, SMTT(30) DEF Release
  <2>9. CASE Free(m)
    BY <2>9, SMTT(30) DEF Free
  <2>10. CASE Publish(m)
    BY <2>10, SMTT(30) DEF Publish
  <2> QED BY <1>4, <2>1, <2>2, <2>3, <2>4, <2>5, <2>6, <2>7, <2>8, <2>9, <2>10 DEF Worker
<1> QED BY <1>1, <1>2, <1>3, <1>4 DEF Next

(* Every step keeps the invariant *)
LEMMA InvariantStep ==
    ASSUME IInv, [Next]_vars
    PROVE  IInv'
BY TypeStep, OwnedStep, BusyStep, LockedStep, ApprovedStep DEF IInv

(* It holds of an app that is installed and of one that is not *)
LEMMA InitInvariant == Init => IInv
<1> SUFFICES ASSUME Init
             PROVE  IInv
  OBVIOUS
<1> USE PlansAssumption DEF Init, Plans, Jobs, Stamps, Earlier, Working, Final
<1>1. PICK o \in Options, first \in {0, Earlier} :
          /\ app = [container |-> first, running |-> FALSE, revision |-> first, options |-> o]
          /\ plan = [p \in Plans |-> [action |-> CHOOSE a \in Actions : TRUE, wants |-> o, seen |-> app]]
  BY Zenon
<1>2. app \in App
  BY <1>1, SMT DEF App
<1>3. plan \in [Plans -> Plan]
  BY <1>1, <1>2, SMT DEF Plan
<1>4. TypeOK
  <2>1. up \in [Managers -> BOOLEAN] /\ active \in [Managers -> BOOLEAN]
    BY Zenon
  <2>2. plans \in [Managers -> SUBSET Plans]
    BY SMT
  <2>3. old \in [Managers -> App] /\ saved \in App /\ draft \in Draft
    BY NowhereType, NoDraftType, SMT
  <2>4. /\ queue \in [Managers -> Jobs]
        /\ task \in [Managers -> Jobs]
        /\ newest \in [Managers -> Jobs]
    BY SMT
  <2>5. pc \in [Managers -> Working \cup {"idle", "publish"}] /\ final \in [Managers -> Final]
    BY SMT
  <2>6. status \in [Plans -> Final \cup {"none", "queued", "running"}]
    BY SMT
  <2>7. journal \in Jobs /\ made \in Jobs /\ tuned \subseteq Plans
        /\ lock \in Managers \cup {Nobody, Operator}
    BY SMT
  <2> QED BY <1>2, <1>3, <2>1, <2>2, <2>3, <2>4, <2>5, <2>6, <2>7, Zenon DEF TypeOK
<1>5. Owned /\ Busy /\ Locked /\ Approved
  BY SMTT(30) DEF Owned, Jobs3, Busy, Locked, Approved
<1> QED BY <1>4, <1>5 DEF IInv

(* The strengthening all results below rest on: who knows a plan, what the    *)
(* active flag means, who holds the lock and what stays as approved under it. *)
THEOREM Invariance == Spec => []IInv
BY InitInvariant, InvariantStep, PTL DEF Spec

(* Every variable of plans, jobs and the app keeps its shape. *)
THEOREM TypeCorrect == Spec => []TypeOK
<1>1. IInv => TypeOK
  BY DEF IInv
<1> QED BY Invariance, <1>1, PTL

(* A job shows its end only when its manager takes the next plan and the      *)
(* operation lock is no longer its own (the comment at manager.py:396).       *)
THEOREM EndsAreFree == Spec => []FinalMeansFree
<1>1. IInv => FinalMeansFree
  BY SMT DEF IInv, Busy, Locked, Working, FinalMeansFree
<1> QED BY Invariance, <1>1, PTL

-----------------------------------------------------------------------------
(* The refinement *)

Open == UNION {Held(m) : m \in Managers}
Identities == [container : Stamps, revision : Stamps]
PromiseVars == <<made, Open, [p \in Plans |-> Identity(plan[p].seen)], tuned, Identity(app), journal # 0>>

(* Nothing a plan tells apart changes, and no plan gains a life *)
Fewer == \A n \in Managers : Held(n)' \subseteq Held(n)
Quiet ==
    /\ UNCHANGED <<made, plan, tuned, journal>>
    /\ Identity(app') = Identity(app)
    /\ Fewer

LEMMA FewerOpen ==
    ASSUME Fewer
    PROVE  Open' \subseteq Open
BY DEF Fewer, Open

LEMMA IdentityType ==
    ASSUME NEW a \in App
    PROVE  Identity(a) \in Identities
BY AppParts DEF Identity, Identities

LEMMA QuietForgets ==
    ASSUME Quiet
    PROVE  Promise!Forget
BY FewerOpen DEF Quiet, Promise!Forget, Open

(* A job's effect, whole or partial, uses up its plan *)
LEMMA EffectApplies ==
    ASSUME IInv, TypeOK', NEW m \in Managers, pc[m] = "apply",
           UNCHANGED <<made, plan, tuned>>, Fewer, task[m] \notin Held(m)'
    PROVE  Promise!Apply(task[m])
<1> DEFINE p == task[m]
<1>1. p \in Plans /\ p \in Held(m) /\ p # 0
  BY PlansAssumption, SMT DEF IInv, TypeOK, Busy, Working, Held, Pending, Plans, Jobs
<1>2. \A n \in Managers : n # m => p \notin Held(n)
  BY <1>1, SMT DEF IInv, Owned, Jobs3, Held
<1>3. Open' \subseteq Open \ {p}
  BY <1>2, FewerOpen DEF Fewer, Open
<1>4. journal = 0 /\ (p \in tuned \/ Identity(app) = Identity(plan[p].seen))
  BY DEF IInv, Approved
<1>5. Identity(app') \in Identities
  BY IdentityType DEF TypeOK
<1>6. p \in Open
  BY <1>1 DEF Open
<1>7. (journal' # 0) \in BOOLEAN
  OBVIOUS
<1> QED BY <1>1, <1>3, <1>4, <1>5, <1>6, <1>7 DEF Promise!Apply, Open, Identities

LEMMA PlanProposes ==
    ASSUME IInv, NEW m \in Managers, MakePlan(m)
    PROVE  Promise!Propose
<1> USE PlansAssumption
<1>1. PICK action \in Actions, wants \in Options, kept \in SUBSET plans[m] :
          /\ plan' = [plan EXCEPT ![made'] = [action |-> action, wants |-> wants, seen |-> app]]
          /\ plans' = [plans EXCEPT ![m] = kept \cup {made'}]
  BY DEF MakePlan
<1>2. /\ made < MaxPlans /\ made' = made + 1 /\ journal = 0 /\ made' \in Plans
      /\ UNCHANGED <<disk, workers, tuned>>
  BY SMT DEF MakePlan, Preflight, IInv, TypeOK, Jobs, Plans
<1>3. \A n \in Managers : Held(n)' \subseteq Held(n) \cup {made'}
  <2> TAKE n \in Managers
  <2>1. plans'[n] \subseteq plans[n] \cup {made'}
    BY <1>1, SMT DEF IInv, TypeOK
  <2>2. pc' = pc /\ queue' = queue /\ task' = task
    BY <1>2 DEF workers
  <2> QED BY <2>1, <2>2, Zenon DEF Held
<1>4. Open' \subseteq Open \cup {made'}
  BY <1>3 DEF Open
<1>5. [p \in Plans |-> Identity(plan'[p].seen)]
          = [[p \in Plans |-> Identity(plan[p].seen)] EXCEPT ![made'] = Identity(app)]
  <2>1. \A p \in Plans : plan'[p].seen = IF p = made' THEN app ELSE plan[p].seen
    BY <1>1, <1>2, SMT DEF IInv, TypeOK
  <2> QED BY <1>2, <2>1
<1> QED BY <1>2, <1>4, <1>5 DEF Promise!Propose, Open, disk

LEMMA TaskIsPlan ==
    ASSUME IInv, NEW m \in Managers, pc[m] = "apply"
    PROVE  task[m] \in Plans
BY PlansAssumption, SMT DEF IInv, TypeOK, Busy, Working, Plans, Jobs

(* Every step is a step of the promise; most of them forget or change nothing  *)
LEMMA StepRefines ==
    ASSUME IInv, TypeOK', [Next]_vars
    PROVE  Promise!Next
<1> USE DEF disk, paper, workers, Rest, Step
<1>1. Quiet => Promise!Next
  BY QuietForgets DEF Promise!Next
<1>2. CASE UNCHANGED vars
  BY <1>1, <1>2, Zenon DEF vars, Quiet, Fewer, Held
<1>3. CASE Environment
  <2>1. CASE WriteOptions
    <3>1. Open' = Open
      <4>1. \A n \in Managers : Held(n)' = Held(n)
        BY <2>1, Zenon DEF WriteOptions, Held
      <4> QED BY <4>1 DEF Open
    <3>2. Identity(app') \in Identities
      BY IdentityType DEF TypeOK
    <3>3. Promise!Tune
      BY <2>1, <3>1, <3>2, Zenon DEF WriteOptions, Promise!Tune, Open, Identities
    <3> QED BY <3>3 DEF Promise!Next
  <2>2. CASE Repair
    <3>1. Open' = Open
      <4>1. \A n \in Managers : Held(n)' = Held(n)
        BY <2>2, Zenon DEF Repair, Held
      <4> QED BY <4>1 DEF Open
    <3>2. Identity(app') \in Identities
      BY IdentityType DEF TypeOK
    <3>3. Promise!Repair
      BY <2>2, <3>1, <3>2, Zenon DEF Repair, Promise!Repair, Open, Identities
    <3> QED BY <3>3 DEF Promise!Next
  <2>3. CASE Drift
    <3>1. Identity(app') = Identity(app)
      BY <2>3, SMT DEF Drift, Run, Identity, IInv, TypeOK, App
    <3> QED BY <1>1, <2>3, <3>1, Zenon DEF Drift, Quiet, Fewer, Held
  <2>4. ASSUME NEW o \in Options, ReadOptions(o)
        PROVE  Quiet
    BY <2>4, Zenon DEF ReadOptions, Quiet, Fewer, Held
  <2>5. CASE OptionsRefused \/ OperatorBegins \/ OperatorEnds
    BY <1>1, <2>5, Zenon DEF OptionsRefused, OperatorBegins, OperatorEnds, Quiet, Fewer, Held
  <2> QED BY <1>1, <1>3, <2>1, <2>2, <2>3, <2>4, <2>5 DEF Environment
<1>4. ASSUME NEW m \in Managers, Client(m)
      PROVE  Promise!Next
  <2> USE DEF IInv, TypeOK
  <2>1. CASE MakePlan(m)
    BY <2>1, PlanProposes DEF Promise!Next
  <2>2. CASE TooManyPlans(m)
    <3>1. Fewer
      BY <2>2, SMTT(30) DEF TooManyPlans, Fewer, Held
    <3> QED BY <1>1, <2>2, <3>1 DEF TooManyPlans, Quiet
  <2>3. CASE Start(m)
    BY <1>1, <2>3, Zenon DEF Start, Quiet, Fewer, Held
  <2>4. ASSUME NEW p \in Plans, Submit(m, p)
        PROVE  Quiet
    <3>1. Fewer
      BY <2>4, SMTT(30) DEF Submit, Fewer, Held, Busy
    <3> QED BY <2>4, <3>1 DEF Submit, Quiet
  <2>5. ASSUME NEW p \in Plans, SubmitExpired(m, p)
        PROVE  Quiet
    <3>1. Fewer
      BY <2>5, SMTT(30) DEF SubmitExpired, Fewer, Held
    <3> QED BY <2>5, <3>1 DEF SubmitExpired, Quiet
  <2>6. ASSUME NEW p \in Plans, SubmitUnwritten(m, p)
        PROVE  Quiet
    <3>1. Fewer
      BY <2>6, SMTT(30) DEF SubmitUnwritten, Fewer, Held
    <3> QED BY <2>6, <3>1 DEF SubmitUnwritten, Quiet
  <2>7. CASE End(m)
    <3>1. Fewer /\ task[m] \notin Held(m)'
      BY <2>7, PlansAssumption, SMTT(30) DEF End, Fewer, Held, Plans, Pending
    <3>2. CASE UNCHANGED disk
      BY <1>1, <2>7, <3>1, <3>2 DEF End, Quiet
    <3>3. CASE pc[m] = "apply"
      <4>1. Promise!Apply(task[m])
        BY <2>7, <3>1, <3>3, EffectApplies DEF End
      <4> QED BY <3>3, <4>1, TaskIsPlan DEF Promise!Next, Promise!Plans, Plans
    <3> QED BY <2>7, <3>2, <3>3 DEF End
  <2> QED BY <1>1, <1>4, <2>1, <2>2, <2>3, <2>4, <2>5, <2>6, <2>7 DEF Client
<1>5. ASSUME NEW m \in Managers, Worker(m)
      PROVE  Promise!Next
  <2> USE DEF IInv, TypeOK
  <2>1. ASSUME Fewer, UNCHANGED <<disk, made, plan, tuned>>
        PROVE  Promise!Next
    BY <1>1, <2>1 DEF Quiet
  <2>2. ASSUME Apply(m) \/ ApplyFails(m)
        PROVE  Promise!Next
    <3>1. Fewer /\ task[m] \notin Held(m)'
      BY <2>2, SMTT(30) DEF Apply, ApplyFails, Fewer, Held, Pending, Owned, Jobs3, Busy, Working
    <3>2. pc[m] = "apply" /\ UNCHANGED <<made, plan, tuned>>
      BY <2>2 DEF Apply, ApplyFails
    <3>3. Promise!Apply(task[m])
      BY <3>1, <3>2, EffectApplies
    <3> QED BY <3>2, <3>3, TaskIsPlan DEF Promise!Next, Promise!Plans, Plans
  <2>3. CASE JobBegins(m)
    <3>1. Fewer
      <4> SUFFICES ASSUME NEW n \in Managers
                   PROVE  Held(n)' \subseteq Held(n)
        BY DEF Fewer
      <4>1. CASE n = m
        <5>1. /\ plans' = plans /\ queue'[m] = 0 /\ task'[m] = queue[m] /\ pc'[m] = "lock"
          BY <2>3, SMT DEF JobBegins
        <5> QED BY <4>1, <5>1, PlansAssumption, SMT DEF Held, Pending, Plans
      <4>2. CASE n # m
        <5>1. /\ plans' = plans /\ queue'[n] = queue[n] /\ task'[n] = task[n] /\ pc'[n] = pc[n]
          BY <2>3, <4>2, SMT DEF JobBegins
        <5> QED BY <5>1, Zenon DEF Held
      <4> QED BY <4>1, <4>2
    <3> QED BY <2>1, <2>3, <3>1 DEF JobBegins
  <2>4. CASE TakeLock(m)
    <3>1. Fewer
      BY <2>4, SMTT(30) DEF TakeLock, Fewer, Held, Pending, Busy
    <3> QED BY <2>1, <2>4, <3>1 DEF TakeLock
  <2>5. CASE LockBusy(m)
    <3>1. Fewer
      BY <2>5, SMTT(30) DEF LockBusy, Fewer, Held, Pending, Busy
    <3> QED BY <2>1, <2>5, <3>1 DEF LockBusy
  <2>6. CASE Revalidate(m)
    <3>1. Fewer
      BY <2>6, SMTT(30) DEF Revalidate, Fewer, Held, Pending, Busy
    <3> QED BY <2>1, <2>6, <3>1 DEF Revalidate
  <2>7. CASE Reject(m)
    <3>1. Fewer
      BY <2>7, SMTT(30) DEF Reject, Fewer, Held, Pending, Busy
    <3> QED BY <2>1, <2>7, <3>1 DEF Reject
  <2>8. CASE Release(m)
    <3>1. Fewer
      BY <2>8, SMTT(30) DEF Release, Fewer, Held, Pending, Busy
    <3> QED BY <2>1, <2>8, <3>1 DEF Release
  <2>9. CASE Free(m)
    <3>1. Fewer
      BY <2>9, SMTT(30) DEF Free, Fewer, Held, Pending, Busy
    <3> QED BY <2>1, <2>9, <3>1 DEF Free
  <2>10. CASE Publish(m)
    <3>1. Fewer
      BY <2>10, SMTT(30) DEF Publish, Fewer, Held, Pending, Busy
    <3> QED BY <2>1, <2>10, <3>1 DEF Publish
  <2> QED BY <1>5, <2>2, <2>3, <2>4, <2>5, <2>6, <2>7, <2>8, <2>9, <2>10 DEF Worker
<1> QED BY <1>2, <1>3, <1>4, <1>5 DEF Next

LEMMA InitRefines == Init => Promise!Init
<1> SUFFICES ASSUME Init
             PROVE  Promise!Init
  OBVIOUS
<1>1. TypeOK
  BY InitInvariant DEF IInv
<1>2. \A p \in Plans : Identity(plan[p].seen) \in Identities
  <2> TAKE p \in Plans
  <2>1. plan[p].seen \in App
    BY <1>1, SMT DEF TypeOK, Plan
  <2> QED BY <2>1, IdentityType
<1>3. Identity(app) \in Identities
  BY <1>1, IdentityType DEF TypeOK
<1>4. Open = {}
  BY PlansAssumption, SMT DEF Init, Open, Held, Pending, Plans
<1> QED BY <1>2, <1>3, <1>4, SMT DEF Init, Promise!Init, Promise!Plans, Plans, Open, Identities

(* Plans, approvals and jobs of several managers implement ApprovedChanges: a  *)
(* plan takes effect at most once, on the container and revision it was made   *)
(* for, unless set_options wrote in between.                                   *)
THEOREM RefinesApprovedChanges == Spec => AppliesApproved
<1>1. IInv /\ IInv' /\ [Next]_vars => [Promise!Next]_PromiseVars
  BY StepRefines DEF IInv
<1> QED BY Invariance, InitRefines, <1>1, PTL
    DEF Spec, AppliesApproved, Promise!Spec, Promise!vars, PromiseVars, Open
=============================================================================
