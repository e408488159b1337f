----------------------------- MODULE Installers -----------------------------
(* The two installers that put a release of this repository on a host: the   *)
(* native-app manager's (opiha_apps/install.py, "apps") and the appliance's  *)
(* (opiha/host.py, "host").  Both copy the release beside its place and      *)
(* rename it, write their files, select the release and write down what they *)
(* own last; either may die between any two of these steps, and must not     *)
(* take over what is not theirs when it is run again.                        *)
EXTENDS Integers

CONSTANTS MaxVersion,  \* bound: releases
          Panel        \* the panel's files in a release, told by a release that has
                       \* the same: many releases leave them as they were

Versions == 1..MaxVersion

ASSUME InstallersAssumption == MaxVersion \in Nat \ {0} /\ Panel \in [Versions -> Versions]

OwnFiles == {"config", "component", "unit"}  \* component: the kiosk's units of the host
NoRelease == 0
Foreign == -1   \* somebody else's file
Edited == -2    \* ours, changed by hand

VARIABLES
  kind,      \* which of the two installers
  release,   \* the release directories: "none", "whole", "edited"
  place,     \* the files outside them: whose, and with which content
  dirs,      \* the installer's directories exist
  current,   \* the selected release
  marker,    \* deployment.json: the version it is about, NoRelease without one
  ipc,       \* the installer's next step
  version    \* the version it installs

insVars == <<kind, release, place, dirs, current, marker, ipc, version>>

InsInit ==
  /\ kind \in {"apps", "host"}
  /\ release = [v \in Versions |-> "none"]
  /\ place = [f \in OwnFiles |-> NoRelease]
  /\ dirs = FALSE /\ current = NoRelease /\ marker = NoRelease
  /\ ipc = "idle" /\ version = 1

-----------------------------------------------------------------------------
(* What others do; nobody edits what an installer is just writing.           *)

HandEdits ==
  /\ ipc = "idle"
  /\ \/ \E f \in OwnFiles :
          /\ place' = [place EXCEPT ![f] = IF @ \in {NoRelease, Foreign} THEN Foreign ELSE Edited]
          /\ UNCHANGED release
     \/ \E v \in Versions :
          /\ release[v] = "whole"
          /\ release' = [release EXCEPT ![v] = "edited"] /\ UNCHANGED place
  /\ UNCHANGED <<kind, dirs, current, marker, ipc, version>>

(* A Home Assistant backup brings back the panel's files.                    *)
PanelRestored ==
  /\ ipc = "idle" /\ kind = "apps" /\ marker = NoRelease
  /\ \E v \in Versions : place' = [place EXCEPT !["component"] = Panel[v]]
  /\ UNCHANGED <<kind, release, dirs, current, marker, ipc, version>>

-----------------------------------------------------------------------------
(* The installers.                                                           *)

(* What a release writes into a file: every release has its own defaults for *)
(* the configuration, and all have the same unit, SERVICE.                   *)
BytesOf(f, v) ==
  CASE f = "config" -> v
    [] f = "component" -> Panel[v]
    [] f = "unit" -> 1

(* Mutation: an installation of this kind is upgraded whatever it looks like *)
TrustsMarker(v, adopt) == marker = NoRelease => ~dirs /\ \A f \in OwnFiles : place[f] = NoRelease

(* preview: without a marker nothing of it may be there, except a panel with *)
(* the very bytes of this release if asked to adopt it; with a marker every  *)
(* file it has a hash of must match.                                         *)
Preview(v, adopt) ==
  IF marker = NoRelease
    THEN /\ ~dirs /\ place["config"] = NoRelease /\ place["unit"] = NoRelease
         /\ place["component"] = NoRelease \/ (adopt /\ place["component"] = Panel[v])
    ELSE \A f \in {"component", "unit"} : place[f] = BytesOf(f, marker)

(* plan: what exists is in the manifest's list, which names all of them; a   *)
(* release that is there is the one of the manifest, with its checksum.      *)
Planned(v) ==
  /\ marker = NoRelease => (\A f \in OwnFiles : place[f] = NoRelease) /\ current = NoRelease
  /\ release[v] # "none" => marker = v /\ release[v] = "whole"

MayInstall(v, adopt) == IF kind = "apps" THEN Preview(v, adopt) ELSE Planned(v)

InsBegins(v, adopt) ==
  /\ ipc = "idle" /\ MayInstall(v, adopt)
  /\ ipc' = "release" /\ version' = v
  /\ dirs' = TRUE
  /\ UNCHANGED <<kind, release, place, current, marker>>

(* Mutation: a release directory that exists is used whatever it contains    *)
UsesRelease ==
  /\ ipc = "release" /\ ipc' = "config"
  /\ release' = [release EXCEPT ![version] = IF @ = "none" THEN "whole" ELSE @]
  /\ UNCHANGED <<kind, place, dirs, current, marker, version>>

(* Copied and renamed, or there already with these bytes; the host's plan    *)
(* has looked at them before.                                                *)
InsRelease ==
  /\ ipc = "release" /\ release[version] # "edited"
  /\ ipc' = "config"
  /\ release' = [release EXCEPT ![version] = "whole"]
  /\ UNCHANGED <<kind, place, dirs, current, marker, version>>

(* The first configuration stays; state and credentials come with it.        *)
InsConfig ==
  /\ ipc = "config" /\ ipc' = "component"
  /\ place' = [place EXCEPT !["config"] = IF @ = NoRelease THEN BytesOf("config", version) ELSE @]
  /\ UNCHANGED <<kind, release, dirs, current, marker, version>>

InsFile(f, follows) ==
  /\ ipc = f /\ ipc' = follows
  /\ place' = [place EXCEPT ![f] = BytesOf(f, version)]
  /\ UNCHANGED <<kind, release, dirs, current, marker, version>>

(* The panel with its connection and its stanza; then the unit.              *)
InsComponent == InsFile("component", "unit")
InsUnit == InsFile("unit", "select")

InsSelects ==
  /\ ipc = "select" /\ ipc' = "marker"
  /\ current' = version
  /\ UNCHANGED <<kind, release, place, dirs, marker, version>>

InsMarks ==
  /\ ipc = "marker" /\ ipc' = "idle"
  /\ marker' = version
  /\ UNCHANGED <<kind, release, place, dirs, current, version>>

(* It is killed, or a call fails: nothing is undone.                         *)
InsDies ==
  /\ ipc # "idle" /\ ipc' = "idle"
  /\ UNCHANGED <<kind, release, place, dirs, current, marker, version>>

-----------------------------------------------------------------------------
InsNext ==
  \/ HandEdits \/ PanelRestored
  \/ \E v \in Versions, adopt \in BOOLEAN : InsBegins(v, adopt)
  \/ InsRelease \/ InsConfig \/ InsComponent \/ InsUnit \/ InsSelects \/ InsMarks \/ InsDies

InsSpec == InsInit /\ [][InsNext]_insVars

-----------------------------------------------------------------------------
InsTypeOK ==
  /\ kind \in {"apps", "host"} /\ version \in Versions
  /\ release \in [Versions -> {"none", "whole", "edited"}]
  /\ place \in [OwnFiles -> Versions \cup {NoRelease, Foreign, Edited}]
  /\ dirs \in BOOLEAN /\ current \in Versions \cup {NoRelease} /\ marker \in Versions \cup {NoRelease}

(* Whatever died before and whatever was edited by hand, the release that is *)
(* selected has exactly the bytes it was published with when it is selected. *)
SelectsWhole == [][current' # current => release'[current'] = "whole"]_insVars

(* "An edited managed file ... is a deliberate upgrade stop. Preserve the     *)
(* local change": however often the manager's installer is killed and run    *)
(* again over whatever was edited in between, it writes over no file that is *)
(* not its own or was changed by hand.  The appliance's, which has no hashes *)
(* of its units, keeps the files of others and an edited configuration.      *)
LocalChangesStay ==
  [][\A f \in OwnFiles :
       /\ ipc # "idle"
       /\ place[f] = Foreign \/ (place[f] = Edited /\ (kind = "apps" \/ f = "config"))
       => place'[f] = place[f]]_insVars
=============================================================================
