------------------------------- MODULE Stack -------------------------------
(* The appliance's configuration and the containers Docker Compose makes of  *)
(* it (opiha/config.py, opiha/compose.py and the commands of opiha/cli.py    *)
(* that change either): Home Assistant and the optional features.  Commands  *)
(* exclude each other by the lock of the work directory, but one may die at  *)
(* any step, and devices come and go.  The gates of a start (activation,     *)
(* journals, versions) are StateRestore's.                                   *)
EXTENDS Integers

CONSTANTS Features,   \* the optional features
          Hardware    \* those of them that need a device to be chosen

ASSUME StackAssumption == Hardware \subseteq Features /\ "homeassistant" \notin Features

VARIABLES
  cfg,       \* appliance.json
  ready,     \* features that would pass verify_hardware
  up,        \* the project's containers
  command,   \* the command that has the lock, and what it still has to start
  refused,   \* features the last "up" could not start
  told       \* what the last command that ended well has promised

stackVars == <<cfg, ready, up, command, refused, told>>

Nobody == [name |-> "none", todo |-> {}]
NoConfig == [mode |-> "none", on |-> {}, chosen |-> {}]

StackInit ==
  /\ cfg = NoConfig /\ up = {} /\ ready = {}
  /\ command = Nobody /\ refused = {} /\ told = "none"

(* validate: a feature with hardware needs its device's path.                *)
Validates(c) == c.on \cap Hardware \subseteq c.chosen

(* generate: the lab has Home Assistant only, in an internal network.        *)
Services(c) == {"homeassistant"} \cup (IF c.mode = "appliance" THEN c.on ELSE {})

Free == command = Nobody /\ cfg # NoConfig

-----------------------------------------------------------------------------
Initializes ==
  /\ command = Nobody /\ cfg = NoConfig
  /\ \E mode \in {"lab", "appliance"} : cfg' = [NoConfig EXCEPT !.mode = mode]
  /\ UNCHANGED <<ready, up, command, refused, told>>

(* Mutation: the new settings are not validated                              *)
ConfiguresAnything ==
  /\ Free
  /\ \E on \in SUBSET Features, chosen \in SUBSET Hardware :
       cfg' = [cfg EXCEPT !.on = on, !.chosen = chosen]
  /\ told' = "none"
  /\ UNCHANGED <<ready, up, command, refused>>

(* configure, in the lab as well: the file is written, nothing is restarted. *)
Configures ==
  /\ Free
  /\ \E on \in SUBSET Features, chosen \in SUBSET Hardware :
       cfg' = [cfg EXCEPT !.on = on, !.chosen = chosen]
  /\ Validates(cfg') /\ cfg' # cfg
  /\ told' = "none"
  /\ UNCHANGED <<ready, up, command, refused>>

(* A device is plugged in or pulled, a password file or a database appears.  *)
Replugs ==
  /\ \E f \in Features : ready' = IF f \in ready THEN ready \ {f} ELSE ready \cup {f}
  /\ UNCHANGED <<cfg, up, command, refused, told>>

(* Compose, "down": the services the file declares, or a part of them.       *)
ComposeDown(whole) ==
  IF whole THEN up' = up \ Services(cfg)
           ELSE \E s \in SUBSET (up \cap Services(cfg)) : up' = up \ s

(* start: "up --remove-orphans homeassistant" ...                            *)
StartsHomeAssistant ==
  /\ Free
  /\ up' = {"homeassistant"} \cup (up \cap Services(cfg))
  /\ command' = [name |-> "up", todo |-> Services(cfg) \ {"homeassistant"}]
  /\ refused' = {} /\ told' = "none"
  /\ UNCHANGED <<cfg, ready>>

(* Mutation: the check is made of all features, not of the one to be started *)
VerifiesAll(f) ==
  /\ command.name = "up" /\ f \in command.todo
  /\ command' = [command EXCEPT !.todo = @ \ {f}]
  /\ \/ cfg.on \subseteq ready /\ up' = up \cup {f} /\ UNCHANGED refused
     \/ f \notin ready /\ refused' = refused \cup {f} /\ UNCHANGED up
     \/ ~(cfg.on \subseteq ready) /\ UNCHANGED <<up, refused>>
  /\ UNCHANGED <<cfg, ready, told>>

(* ... then each feature by itself, with a check of its own hardware alone;  *)
(* one that fails, there or in Compose, is reported and the others go on.    *)
(* One that already runs goes on running.                                    *)
StartsFeature(f) ==
  /\ command.name = "up" /\ f \in command.todo
  /\ command' = [command EXCEPT !.todo = @ \ {f}]
  /\ \/ f \in ready /\ up' = up \cup {f} /\ UNCHANGED refused
     \/ refused' = refused \cup {f} /\ UNCHANGED up
  /\ UNCHANGED <<cfg, ready, told>>

StartEnds ==
  /\ command = [name |-> "up", todo |-> {}]
  /\ command' = Nobody /\ told' = "up"
  /\ UNCHANGED <<cfg, ready, up, refused>>

(* down, and the first half of deactivate.                                   *)
Stops ==
  /\ Free
  /\ \/ ComposeDown(TRUE) /\ told' = "down"
     \/ ComposeDown(FALSE) /\ told' = "none"
  /\ UNCHANGED <<cfg, ready, command, refused>>

(* backup: what runs is noted and stopped ...                                *)
BackupStops ==
  /\ Free /\ ComposeDown(TRUE)
  /\ command' = [name |-> "backup", todo |-> up] /\ told' = "none"
  /\ UNCHANGED <<cfg, ready, refused>>

(* ... and started again in one call, without a look at the hardware.  That  *)
(* call is refused as a whole when it names a service the file has not.      *)
BackupResumes ==
  /\ command.name = "backup" /\ command' = Nobody
  /\ \/ command.todo \subseteq Services(cfg) /\ up' = up \cup command.todo
     \/ UNCHANGED up
  /\ UNCHANGED <<cfg, ready, refused, told>>

(* restore --apply-settings: stopped under the old settings, then the new    *)
(* ones are written, which turn nothing on in the lab.                       *)
RestoresSettings ==
  /\ Free /\ ComposeDown(TRUE)
  /\ \E on \in SUBSET Features, chosen \in SUBSET Hardware :
       LET incoming == [cfg EXCEPT !.on = on, !.chosen = chosen] IN
       /\ Validates(incoming)
       /\ cfg' = IF cfg.mode = "lab" THEN [incoming EXCEPT !.on = {}] ELSE incoming
  /\ told' = "none"
  /\ UNCHANGED <<ready, command, refused>>

CommandDies ==
  /\ command # Nobody /\ command' = Nobody
  /\ UNCHANGED <<cfg, ready, up, refused, told>>

-----------------------------------------------------------------------------
StackNext ==
  \/ Initializes \/ Configures \/ Replugs \/ StartsHomeAssistant
  \/ \E f \in Features : StartsFeature(f)
  \/ StartEnds \/ Stops \/ BackupStops \/ BackupResumes \/ RestoresSettings \/ CommandDies

StackSpec == StackInit /\ [][StackNext]_stackVars

-----------------------------------------------------------------------------
Containers == {"homeassistant"} \cup Features

StackTypeOK ==
  /\ cfg \in [mode : {"none", "lab", "appliance"}, on : SUBSET Features, chosen : SUBSET Hardware]
  /\ ready \subseteq Features /\ refused \subseteq Features /\ up \subseteq Containers
  /\ command \in [name : {"none", "up", "backup"}, todo : SUBSET Containers]
  /\ told \in {"none", "up", "down"}
  /\ Validates(cfg)

(* After an "up" that ended well and until the next command, the containers  *)
(* are those of the configuration: none that an earlier one left behind, and *)
(* of the enabled features each that did not itself fail to start, whatever  *)
(* is wrong with the hardware of another (cli.py start).                     *)
UpIsAsConfigured ==
  told = "up" =>
    /\ "homeassistant" \in up
    /\ up \subseteq Services(cfg)
    /\ Services(cfg) \ {"homeassistant"} \subseteq up \cup refused
=============================================================================
