-------------------------------- MODULE Fleet --------------------------------
(* paseo-fleet (src/paseo_fleet/cli.py): one command at a time goes through  *)
(* the hosts it was given, any of which may fail, time out or end the whole  *)
(* command, and is run again later.  The secret of a host in Docker is a     *)
(* file beside the inventory; what a daemon and the hub know of it is told   *)
(* by how it compares with that file.                                        *)
EXTENDS Integers, FiniteSets

CONSTANTS Hosts,     \* the hosts of the inventory, except the hub, which is
                     \* provisioned like them and not registered with itself
          Docker,    \* those that run in Docker, with a password
          Loose,     \* those whose workspace root another project can be taken for
          Strangers, \* what else the hub's list may have, none of the inventory
          Contained  \* pairs: the host's id occurs in the other's entry in that list,
                     \* in its name, its labels or its connection

ASSUME FleetAssumption ==
  /\ Docker \subseteq Hosts /\ Loose \subseteq Hosts /\ Strangers \cap Hosts = {}
  /\ Contained \subseteq Hosts \X (Hosts \cup Strangers)

VARIABLES
  secret,   \* secrets/<id>.password: none, empty (cut short) or written
  daemon,   \* what runs on a host: of the versions asked for, and the password
  saved,    \* the hub's list: not there, or the password it has
  others,   \* the strangers in it
  project,  \* the projects of a host's daemon, as far as its workspace root goes
  fleet     \* the command under way

fleVars == <<secret, daemon, saved, others, project, fleet>>

OPS == {"provision", "register", "workspaces", "status", "dispatch"}

(* secret: that of the file; lost: of a file that is gone; default: the text *)
(* that stands for a password which is still to be made.                     *)
Passwords == {"none", "secret", "lost", "default"}

(* root: the workspace root is a project; like: another one is taken for it. *)
NoProjects == [root |-> FALSE, like |-> FALSE]

NoCommand == [op |-> "none", listed |-> FALSE, selected |-> {}, todo |-> {}, known |-> {},
              failed |-> FALSE, exit |-> "none"]

FleInit ==
  /\ secret = [h \in Docker |-> "none"]
  /\ daemon = [h \in Hosts |-> [version |-> "none", password |-> "none"]]
  /\ saved = [h \in Hosts |-> "absent"]
  /\ others = {}
  /\ project = [h \in Hosts |-> NoProjects]
  /\ fleet = NoCommand

Runs(op) == fleet.op = op /\ fleet.exit = "none"
Exits(code) == fleet' = [fleet EXCEPT !.exit = code, !.todo = {}, !.known = {}]
DoneWith(h, ok) == [fleet EXCEPT !.todo = @ \ {h}, !.failed = @ \/ ~ok]
Done(h, ok) == fleet' = DoneWith(h, ok)

-----------------------------------------------------------------------------
(* Between commands.                                                         *)

VersionsBumped ==
  /\ fleet = NoCommand
  /\ daemon' = [h \in Hosts |-> [daemon[h] EXCEPT !.version = IF @ = "asked" THEN "old" ELSE @]]
  /\ UNCHANGED <<secret, saved, others, project, fleet>>

(* The file is lost; whoever had its password has a lost one.                *)
SecretLost(h) ==
  /\ fleet = NoCommand /\ secret[h] # "none"
  /\ secret' = [secret EXCEPT ![h] = "none"]
  /\ daemon' = [daemon EXCEPT ![h].password = IF @ = "secret" THEN "lost" ELSE @]
  /\ saved' = [saved EXCEPT ![h] = IF @ = "secret" THEN "lost" ELSE @]
  /\ UNCHANGED <<others, project, fleet>>

HubForgets(h) ==
  /\ fleet = NoCommand /\ saved[h] # "absent"
  /\ saved' = [saved EXCEPT ![h] = "absent"]
  /\ UNCHANGED <<secret, daemon, others, project, fleet>>

StrangerSaved(s) ==
  /\ fleet = NoCommand /\ others' \in {others \cup {s}, others \ {s}}
  /\ UNCHANGED <<secret, daemon, saved, project, fleet>>

ProjectMade(h) ==
  /\ fleet = NoCommand /\ h \in Loose /\ daemon[h].version # "none"
  /\ project' = [project EXCEPT ![h].like = TRUE]
  /\ UNCHANGED <<secret, daemon, saved, others, fleet>>

HostReset(h) ==
  /\ fleet = NoCommand /\ daemon[h].version # "none"
  /\ daemon' = [daemon EXCEPT ![h] = [version |-> "none", password |-> "none"]]
  /\ project' = [project EXCEPT ![h] = NoProjects]
  /\ UNCHANGED <<secret, saved, others, fleet>>

-----------------------------------------------------------------------------
(* select, and a command's start; its end is read and forgotten.             *)

FleetBegins(op, selected) ==
  /\ fleet = NoCommand
  /\ fleet' = [NoCommand EXCEPT !.op = op, !.selected = selected, !.todo = selected,
                                !.listed = op # "register"]
  /\ UNCHANGED <<secret, daemon, saved, others, project>>

(* An exception that is not caught: a tool that is missing, a time limit,    *)
(* a kill.                                                                   *)
FleetAborts ==
  /\ fleet.op # "none" /\ fleet.exit = "none" /\ Exits("error")
  /\ UNCHANGED <<secret, daemon, saved, others, project>>

FleetEnds ==
  /\ fleet.op \in OPS \ {"dispatch"} /\ fleet.exit = "none" /\ fleet.todo = {} /\ fleet.listed
  /\ Exits(IF fleet.failed THEN "error" ELSE "ok")
  /\ UNCHANGED <<secret, daemon, saved, others, project>>

FleetRead ==
  /\ fleet.exit # "none" /\ fleet' = NoCommand
  /\ UNCHANGED <<secret, daemon, saved, others, project>>

-----------------------------------------------------------------------------
(* provision.                                                                *)

(* docker_password: the file is opened, then written.                        *)
SecretOpened(h) ==
  /\ Runs("provision") /\ h \in fleet.todo /\ secret[h] = "none"
  /\ secret' = [secret EXCEPT ![h] = "empty"]
  /\ fleet' = [fleet EXCEPT !.known = {h}]
  /\ UNCHANGED <<daemon, saved, others, project>>

SecretWritten(h) ==
  /\ Runs("provision") /\ h \in fleet.known
  /\ secret' = [secret EXCEPT ![h] = "written"]
  /\ fleet' = [fleet EXCEPT !.known = {}]
  /\ UNCHANGED <<daemon, saved, others, project>>

(* Mutation: a docker host that answers is not provisioned again             *)
SkipsHealthy(h) ==
  CASE h \notin Docker -> [version |-> "asked", password |-> "none"]
    [] daemon[h].version # "none" -> [daemon[h] EXCEPT !.version = "asked"]
    [] OTHER -> [version |-> "asked", password |-> "secret"]

(* build_artifacts and what provisioning leaves: an empty file counts as one *)
(* that is still to be made.                                                 *)
Provisioned(h) ==
  [version |-> "asked",
   password |-> IF h \notin Docker THEN "none"
                ELSE IF secret[h] = "written" THEN "secret" ELSE "default"]

Provisions(h) ==
  /\ Runs("provision") /\ h \in fleet.todo /\ fleet.known = {}
  /\ h \in Docker => secret[h] # "none"
  /\ \/ daemon' = [daemon EXCEPT ![h] = Provisioned(h)] /\ Done(h, TRUE)
     \/ daemon' \in {daemon, [daemon EXCEPT ![h] = Provisioned(h)]} /\ Done(h, FALSE)
  /\ UNCHANGED <<secret, saved, others, project>>

-----------------------------------------------------------------------------
(* register: the hub's list is read once.                                    *)

RegisterLists ==
  /\ Runs("register") /\ ~fleet.listed
  /\ fleet' = [fleet EXCEPT !.listed = TRUE,
                            !.known = {h \in Hosts : saved[h] # "absent"} \cup others]
  /\ UNCHANGED <<secret, daemon, saved, others, project>>

(* The id is looked for in the whole text of the list.                       *)
Mentioned(h) == h \in fleet.known \/ \E k \in fleet.known : <<h, k>> \in Contained

RegisterSkips(h) ==
  /\ Runs("register") /\ fleet.listed /\ h \in fleet.todo /\ Mentioned(h)
  /\ Done(h, TRUE)
  /\ UNCHANGED <<secret, daemon, saved, others, project>>

(* The password of a file that is there and not empty.                       *)
Registers(h) ==
  /\ Runs("register") /\ fleet.listed /\ h \in fleet.todo /\ ~Mentioned(h)
  /\ \/ /\ saved' = [saved EXCEPT ![h] = IF h \in Docker /\ secret[h] = "written" THEN "secret" ELSE "none"]
        /\ Done(h, TRUE)
     \/ UNCHANGED saved /\ Done(h, FALSE)
  /\ UNCHANGED <<secret, daemon, others, project>>

-----------------------------------------------------------------------------
(* workspaces, status and dispatch ask the daemons themselves.               *)

(* _paseo gets an answer: there is a daemon, whose password is the file's if *)
(* the file has one.                                                         *)
Answers(h) ==
  /\ daemon[h].version # "none"
  /\ h \in Docker => secret[h] = "written" /\ daemon[h].password = "secret"

(* A project with the root's path, in small letters, or, if the root is below *)
(* ~, with a path that ends in the rest of it.                               *)
Known(h) == project[h].root \/ project[h].like

(* Only the root must become a project; repositories may fail.  What timed   *)
(* out may have been made.                                                   *)
WorkspaceMade(h) ==
  /\ Runs("workspaces") /\ h \in fleet.todo /\ Answers(h)
  /\ \/ Known(h) /\ UNCHANGED project /\ Done(h, TRUE)
     \/ ~Known(h) /\ project' = [project EXCEPT ![h].root = TRUE] /\ fleet' \in {DoneWith(h, TRUE), DoneWith(h, FALSE)}
     \/ ~Known(h) /\ UNCHANGED project /\ Done(h, FALSE)
  /\ UNCHANGED <<secret, daemon, saved, others>>

(* No answer, or none in time; dispatch does without the host.               *)
HostSilent(h) ==
  /\ fleet.op \in {"workspaces", "status", "dispatch"} /\ h \in fleet.todo
  /\ Done(h, FALSE)
  /\ UNCHANGED <<secret, daemon, saved, others, project>>

HostAnswers(h) ==
  /\ fleet.op \in {"status", "dispatch"} /\ h \in fleet.todo /\ Answers(h)
  /\ fleet' = [fleet EXCEPT !.todo = @ \ {h}, !.known = @ \cup {h}]
  /\ UNCHANGED <<secret, daemon, saved, others, project>>

(* An agent is started on the least busy of those that answered.             *)
Dispatches ==
  /\ Runs("dispatch") /\ fleet.todo = {}
  /\ \/ fleet.known # {} /\ Exits("ok")
     \/ Exits("error")
  /\ UNCHANGED <<secret, daemon, saved, others, project>>

-----------------------------------------------------------------------------
FleNext ==
  \/ VersionsBumped \/ FleetAborts \/ FleetEnds \/ FleetRead \/ RegisterLists \/ Dispatches
  \/ \E op \in OPS, selected \in (SUBSET Hosts) \ {{}} : FleetBegins(op, selected)
  \/ \E h \in Docker : SecretLost(h) \/ SecretOpened(h) \/ SecretWritten(h)
  \/ \E s \in Strangers : StrangerSaved(s)
  \/ \E h \in Hosts :
       \/ HubForgets(h) \/ ProjectMade(h) \/ HostReset(h) \/ Provisions(h) \/ RegisterSkips(h) \/ Registers(h)
       \/ WorkspaceMade(h) \/ HostSilent(h) \/ HostAnswers(h)

FleSpec == FleInit /\ [][FleNext]_fleVars

-----------------------------------------------------------------------------
FleTypeOK ==
  /\ secret \in [Docker -> {"none", "empty", "written"}]
  /\ daemon \in [Hosts -> [version : {"none", "old", "asked"}, password : Passwords]]
  /\ saved \in [Hosts -> {"absent"} \cup Passwords]
  /\ others \subseteq Strangers
  /\ project \in [Hosts -> [root : BOOLEAN, like : BOOLEAN]]
  /\ fleet \in [op : OPS \cup {"none"}, listed : BOOLEAN, selected : SUBSET Hosts,
                todo : SUBSET Hosts, known : SUBSET (Hosts \cup Strangers), failed : BOOLEAN,
                exit : {"none", "ok", "error"}]

Ok(op) == fleet.op = op /\ fleet.exit = "ok"

(* A command that exits with 0 has done what it is for on every host it was  *)
(* given, whatever failed or was cut short in earlier ones, but for what it  *)
(* takes for done: provision leaves the versions asked for behind the        *)
(* password of the secret file, unless that file is the empty one of a run   *)
(* that was killed; register leaves the hub with every host whose id is not  *)
(* in the text of what it has already; workspaces leaves every root a        *)
(* project unless another is taken for it; status has had every answer.      *)
ExitZeroMeansDone ==
  \A h \in fleet.selected :
    /\ Ok("provision") => daemon[h].version = "asked"
    /\ Ok("provision") /\ h \in Docker /\ secret[h] = "written" => daemon[h].password = "secret"
    /\ Ok("register") =>
         saved[h] # "absent"
         \/ \E k \in {g \in Hosts : saved[g] # "absent"} \cup others : <<h, k>> \in Contained
    /\ Ok("workspaces") => project[h].root \/ project[h].like
    /\ Ok("status") => Answers(h)
=============================================================================
