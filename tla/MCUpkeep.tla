------------------------------ MODULE MCUpkeep ------------------------------
(* What a board and its apps are kept and used with, for TLC: the parts that  *)
(* share no state, one after the other in one instance.  The fairness is that  *)
(* of Terminals; the other parts are checked for safety.                       *)
EXTENDS Terminals, Strip, Presence, AddonBackups, AddonSources, Bundles, Installers, Fleet, Options, Stack

CONSTANT Parts  \* the components this instance explores

VARIABLE part

vars == <<part, termVars, strVars, preVars, bakVars, srcVars, bunVars, insVars, fleVars, optVars, stackVars>>

CONSTANTS pi, pi2, nas  \* the id of the first host is part of the others' entries
MCContained == {<<pi, pi2>>, <<pi, nas>>}

(* The second release leaves the panel as it was.                            *)
MCPanel == [v \in 1..3 |-> IF v = 3 THEN 3 ELSE 1]

(* Version 2 asks for more, drops an option and makes another a list.        *)
OldManifest == [schema |-> [level |-> "optional", host |-> "required"],
                defaults |-> [level |-> "default", host |-> Null],
                ports |-> [p80 |-> 80], needs |-> {"net"}]
NewManifest == [schema |-> [host |-> "list"], defaults |-> [host |-> "default"],
                ports |-> [p80 |-> 80], needs |-> {"net", "dbus"}]
MCManifests == {OldManifest, NewManifest}

(* Where a component may start in several states, the others' is fixed.      *)
MCInit ==
  /\ part \in Parts
  /\ TermInit /\ StrInit /\ PreInit
  /\ BakInit /\ SrcInit /\ BunInit /\ InsInit /\ FleInit /\ OptInit /\ StackInit
  /\ part # "strip" => pos = 0 /\ \A w \in Screens : w <= screen
  /\ part # "backups" => record = CHOOSE c \in Configs : TRUE
  /\ part # "bundles" => \A a \in Apps : app[a].data = Absent /\ ~app[a].autostart
  /\ part # "installers" => kind = "apps"
  /\ part # "options" => manifest = OldManifest

(* A step of one component; the others and their number stay as they are.   *)
TerminalsStep(A) == part = "terminals" /\ A /\ UNCHANGED <<part, strVars, preVars, bakVars, srcVars, bunVars, insVars, fleVars, optVars, stackVars>>
StripStep(A) == part = "strip" /\ A /\ UNCHANGED <<part, termVars, preVars, bakVars, srcVars, bunVars, insVars, fleVars, optVars, stackVars>>
PresenceStep(A) == part = "presence" /\ A /\ UNCHANGED <<part, termVars, strVars, bakVars, srcVars, bunVars, insVars, fleVars, optVars, stackVars>>
AddonBackupsStep(A) == part = "backups" /\ A /\ UNCHANGED <<part, termVars, strVars, preVars, srcVars, bunVars, insVars, fleVars, optVars, stackVars>>
AddonSourcesStep(A) == part = "sources" /\ A /\ UNCHANGED <<part, termVars, strVars, preVars, bakVars, bunVars, insVars, fleVars, optVars, stackVars>>
BundlesStep(A) == part = "bundles" /\ A /\ UNCHANGED <<part, termVars, strVars, preVars, bakVars, srcVars, insVars, fleVars, optVars, stackVars>>
InstallersStep(A) == part = "installers" /\ A /\ UNCHANGED <<part, termVars, strVars, preVars, bakVars, srcVars, bunVars, fleVars, optVars, stackVars>>
FleetStep(A) == part = "fleet" /\ A /\ UNCHANGED <<part, termVars, strVars, preVars, bakVars, srcVars, bunVars, insVars, optVars, stackVars>>
OptionsStep(A) == part = "options" /\ A /\ UNCHANGED <<part, termVars, strVars, preVars, bakVars, srcVars, bunVars, insVars, fleVars, stackVars>>
StackStep(A) == part = "stack" /\ A /\ UNCHANGED <<part, termVars, strVars, preVars, bakVars, srcVars, bunVars, insVars, fleVars, optVars>>

-----------------------------------------------------------------------------
TerminalsMoves ==
  \/ TerminalsStep(PumpReads)
  \/ TerminalsStep(ShellExits)
  \/ TerminalsStep(PumpEnds)
  \/ \E h \in Threads :
       \/ TerminalsStep(TermCloses(h))
       \/ TerminalsStep(TermOpens(h))
       \/ TerminalsStep(LooksUp(h))
       \/ TerminalsStep(WriteFails(h))
       \/ TerminalsStep(Reads(h))
       \/ TerminalsStep(NewSession(h))
       \/ TerminalsStep(AsksForSession(h))
       \/ TerminalsStep(SessionOpened(h))
       \/ TerminalsStep(SessionRefused(h))
       \/ TerminalsStep(Polls(h))
       \/ TerminalsStep(Types(h))
       \/ TerminalsStep(IoAnswered(h))
       \/ TerminalsStep(IoRefused(h))
       \/ TerminalsStep(ReadLost(h))
       \/ TerminalsStep(Leaves(h))
       \/ TerminalsStep(GoneClosed(h))

StripMoves ==
  \/ StripStep(StripPressed)
  \/ StripStep(StripMoved)
  \/ StripStep(StripDropped)
  \/ StripStep(StripTapped)
  \/ StripStep(StripAction)
  \/ StripStep(TimerFires)

PresenceMoves ==
  \/ PresenceStep(Ticks)
  \/ PresenceStep(VisionStarts)
  \/ PresenceStep(VisionOpens)
  \/ PresenceStep(StreamEnds)
  \/ PresenceStep(VisionDies)
  \/ \E detected \in BOOLEAN :
       \/ PresenceStep(Looks(detected))

AddonBackupsMoves ==
  \/ AddonBackupsStep(AddonWrites)
  \/ AddonBackupsStep(AddonSettles)
  \/ AddonBackupsStep(AddonManaged)
  \/ AddonBackupsStep(BakPolicyOff)
  \/ AddonBackupsStep(BakStops)
  \/ AddonBackupsStep(Packs)
  \/ AddonBackupsStep(WritesSidecar)
  \/ AddonBackupsStep(Copies)
  \/ AddonBackupsStep(Extracts)
  \/ AddonBackupsStep(Drops)
  \/ AddonBackupsStep(Places)
  \/ AddonBackupsStep(BakWritesOptions)
  \/ AddonBackupsStep(BakWritesRecord)
  \/ AddonBackupsStep(BakReports)
  \/ AddonBackupsStep(Undoes)
  \/ AddonBackupsStep(BakPolicyOn)
  \/ AddonBackupsStep(BakStarts)
  \/ AddonBackupsStep(BakEnds)
  \/ AddonBackupsStep(Raises)
  \/ AddonBackupsStep(BakCrashes)
  \/ \E b \in BackupIds, action \in {"backup", "restore"} :
       \/ AddonBackupsStep(BakBegins(action, b))
  \/ \E b \in BackupIds :
       \/ AddonBackupsStep(Damaged(b))

AddonSourcesMoves ==
  \/ AddonSourcesStep(Commits)
  \/ AddonSourcesStep(ReadsRaw)
  \/ AddonSourcesStep(Hashes)
  \/ AddonSourcesStep(Expired)
  \/ AddonSourcesStep(Compares)
  \/ AddonSourcesStep(CopiesFile)
  \/ AddonSourcesStep(Builds)
  \/ \E h \in Handlers :
       \/ AddonSourcesStep(Adds(h))
       \/ AddonSourcesStep(Renames(h))
       \/ AddonSourcesStep(Fetches(h))
       \/ AddonSourcesStep(ResetStarts(h))
       \/ AddonSourcesStep(ResetEnds(h))
       \/ AddonSourcesStep(RefreshFails(h))
       \/ AddonSourcesStep(Removes(h))
       \/ AddonSourcesStep(RemoveGoesOn(h))

BundlesMoves ==
  \/ \E a \in Apps :
       \/ BundlesStep(AppRuns(a))
       \/ BundlesStep(AppJob(a))
       \/ BundlesStep(BunStops(a))
       \/ BundlesStep(BunCopies(a))
       \/ BundlesStep(BunResumes(a))
  \/ \E key \in BOOLEAN :
       \/ BundlesStep(BunBegins(key))
  \/ BundlesStep(BunStopped)
  \/ BundlesStep(BunCopied)
  \/ BundlesStep(BunResumed)
  \/ BundlesStep(BunPacks)
  \/ BundlesStep(BunSigns)
  \/ BundlesStep(BunCrashes)
  \/ BundlesStep(BunDamaged)
  \/ BundlesStep(RecoveryStarts)
  \/ BundlesStep(RecoveryExtracts)
  \/ BundlesStep(RecoveryFails)
  \/ BundlesStep(RecoveryReplaces)
  \/ BundlesStep(SomethingAppears)

InstallersMoves ==
  \/ InstallersStep(HandEdits)
  \/ InstallersStep(PanelRestored)
  \/ \E v \in Versions, adopt \in BOOLEAN :
       \/ InstallersStep(InsBegins(v, adopt))
  \/ InstallersStep(InsRelease)
  \/ InstallersStep(InsConfig)
  \/ InstallersStep(InsComponent)
  \/ InstallersStep(InsUnit)
  \/ InstallersStep(InsSelects)
  \/ InstallersStep(InsMarks)
  \/ InstallersStep(InsDies)

FleetMoves ==
  \/ FleetStep(VersionsBumped)
  \/ FleetStep(FleetAborts)
  \/ FleetStep(FleetEnds)
  \/ FleetStep(FleetRead)
  \/ FleetStep(RegisterLists)
  \/ FleetStep(Dispatches)
  \/ \E op \in OPS, selected \in (SUBSET Hosts) \ {{}} :
       \/ FleetStep(FleetBegins(op, selected))
  \/ \E h \in Docker :
       \/ FleetStep(SecretLost(h))
       \/ FleetStep(SecretOpened(h))
       \/ FleetStep(SecretWritten(h))
  \/ \E s \in Strangers :
       \/ FleetStep(StrangerSaved(s))
  \/ \E h \in Hosts :
       \/ FleetStep(HubForgets(h))
       \/ FleetStep(ProjectMade(h))
       \/ FleetStep(HostReset(h))
       \/ FleetStep(Provisions(h))
       \/ FleetStep(RegisterSkips(h))
       \/ FleetStep(Registers(h))
       \/ FleetStep(WorkspaceMade(h))
       \/ FleetStep(HostSilent(h))
       \/ FleetStep(HostAnswers(h))

OptionsMoves ==
  \/ OptionsStep(Offers)
  \/ OptionsStep(Installs)
  \/ \E o \in stored :
       \/ OptionsStep(ConfiguresAddon(o))
       \/ OptionsStep(SetsOptions(o))
       \/ OptionsStep(BacksUpOptions(o))
       \/ OptionsStep(RestoresOptions(o))

StackMoves ==
  \/ StackStep(Initializes)
  \/ StackStep(Configures)
  \/ StackStep(Replugs)
  \/ StackStep(StartsHomeAssistant)
  \/ StackStep(StartEnds)
  \/ StackStep(Stops)
  \/ StackStep(BackupStops)
  \/ StackStep(BackupResumes)
  \/ StackStep(RestoresSettings)
  \/ StackStep(CommandDies)
  \/ \E f \in Features :
       \/ StackStep(StartsFeature(f))

MCNext ==
  \/ TerminalsMoves
  \/ StripMoves
  \/ PresenceMoves
  \/ AddonBackupsMoves
  \/ AddonSourcesMoves
  \/ BundlesMoves
  \/ InstallersMoves
  \/ FleetMoves
  \/ OptionsMoves
  \/ StackMoves

UpkeepFairness ==
  /\ WF_vars(TerminalsStep(PumpEnds))
  /\ \A h \in Threads : WF_vars(TerminalsStep(ServerSteps(h) \/ AnswerSteps(h)))
  /\ WF_vars(TerminalsStep(\E h \in Threads : Polls(h)))

MCSpec == MCInit /\ [][MCNext]_vars /\ UpkeepFairness

(* Every component's values are those it is written for; the appliance's     *)
(* configuration stays one that config.py validates, whatever writes it.     *)
UpkeepTypeOK ==
  /\ TermTypeOK /\ StrTypeOK /\ PreTypeOK
  /\ BakTypeOK /\ SrcTypeOK /\ BunTypeOK /\ InsTypeOK /\ FleTypeOK /\ OptTypeOK
  /\ StackTypeOK
=============================================================================
