------------------------------ MODULE Options ------------------------------
(* The settings of an add-on: what its manifest asks (opiha_apps/addons.py), *)
(* what the administrator, a backup or the add-on itself supplies, and what  *)
(* the record keeps (addon_runtime.py options, manager.py).  Every operation *)
(* checks the recorded settings again, so those that were accepted once must *)
(* be accepted ever after.  Requests are one step here; how they overlap is  *)
(* AppPlans' subject.                                                        *)
EXTENDS Integers

CONSTANTS Manifests,   \* what the repository may offer, parsed
          HostPorts,   \* host ports that may be asked for
          Supplies     \* bound: values of an option that may be supplied

(* A manifest: its schema and its default options, by name; the container    *)
(* ports it publishes with their defaults; the privileges it asks for.       *)
(* null: no value.  A default is null or fits its rule.                      *)
Null == "null"
Rules == {"required", "optional", "list", "optional list", "group"}
Values == {Null, "default", "chosen", "unfit"}

ASSUME OptionsAssumption ==
  /\ Supplies \subseteq Values
  /\ \A m \in Manifests :
       /\ DOMAIN m.defaults \subseteq DOMAIN m.schema
       /\ \A k \in DOMAIN m.schema : m.schema[k] \in Rules
       /\ \A k \in DOMAIN m.defaults : m.defaults[k] \in {Null, "default"}

VARIABLES
  offered,   \* the manifest in the repository
  manifest,  \* the manifest that was approved and drives the add-on
  stored,    \* the settings in the record, if there is one
  archived   \* the options in its last backup

optVars == <<offered, manifest, stored, archived>>

-----------------------------------------------------------------------------
(* _check_scalar and validate_options.  A list of optional items may be left *)
(* out like an optional value; a group may not.                              *)
MayBeLeftOut(rule) == rule \in {"optional", "optional list"}

ValueIn(config, k) == IF k \in DOMAIN config THEN config[k] ELSE Null

FitsSchema(schema, config) ==
  /\ DOMAIN config \subseteq DOMAIN schema
  /\ \A k \in DOMAIN schema :
       /\ ValueIn(config, k) # "unfit"
       /\ ValueIn(config, k) = Null => MayBeLeftOut(schema[k])

(* What has no value is left out of the result.                              *)
Validated(config) == [k \in {n \in DOMAIN config : config[n] # Null} |-> config[k]]

-----------------------------------------------------------------------------
(* addon_runtime.options: ports on this host only, and ports on the network  *)
(* but the RESERVED_LAN_PORTS of the range.                                  *)
Loopback == 20000..29999
Lan == 1024..65535 \ {3389, 5900, 8098, 8123, 18123}

DefaultPorts(m) == [c \in DOMAIN m.ports |-> 20000 + (m.ports[c] % 10000)]

DefaultSettings(m) == [config |-> m.defaults, grants |-> {}, ports |-> DefaultPorts(m), lan |-> FALSE]

(* What f leaves out is taken from g: {**g, **f}.                            *)
Over(f, g) == [k \in DOMAIN f \cup DOMAIN g |-> IF k \in DOMAIN f THEN f[k] ELSE g[k]]

(* Options the caller leaves out take the add-on's defaults.                 *)
Merged(m, s) ==
  [Over(s, DefaultSettings(m)) EXCEPT
     !.config = Over(IF "config" \in DOMAIN s THEN s.config ELSE <<>>, m.defaults)]

PortsFit(m, s) ==
  /\ DOMAIN s.ports \subseteq DOMAIN m.ports
  /\ \A c \in DOMAIN s.ports :
       s.ports[c] \in IF s.lan THEN Lan ELSE Loopback
  /\ \A c, d \in DOMAIN s.ports : s.ports[c] = s.ports[d] => c = d

AcceptsSettings(m, s) ==
  /\ FitsSchema(m.schema, Merged(m, s).config)
  /\ Merged(m, s).grants \subseteq m.needs
  /\ PortsFit(m, Merged(m, s))

Settings(m, s) == [Merged(m, s) EXCEPT !.config = Validated(@)]

CheckGrants(m, s) == m.needs \subseteq s.grants

-----------------------------------------------------------------------------
OptionNames == UNION {DOMAIN m.schema : m \in Manifests}
ContainerPorts == UNION {DOMAIN m.ports : m \in Manifests}
Privileges == UNION {m.needs : m \in Manifests}
Partial(S, T) == UNION {[D -> T] : D \in SUBSET S}
OptionSets == Partial(OptionNames, Supplies)

OptInit ==
  /\ offered \in Manifests /\ manifest = offered
  /\ stored = {} /\ archived = {}

Offers ==
  /\ offered' \in Manifests \ {offered}
  /\ UNCHANGED <<manifest, stored, archived>>

(* plan_addon: install or update, with the settings supplied only.  The      *)
(* record there is must be acceptable to the new manifest already.           *)
Installs ==
  \E config \in OptionSets, grants \in {g \in SUBSET Privileges : offered.needs \subseteq g} :
    \E s \in {[grants |-> grants], [config |-> config, grants |-> grants]} \cup
           [config : {config}, grants : {grants}, ports : Partial(ContainerPorts, HostPorts), lan : BOOLEAN] :
      /\ \A o \in stored : AcceptsSettings(offered, o)
      /\ AcceptsSettings(offered, s) /\ CheckGrants(offered, Settings(offered, s))
      /\ manifest' = offered
      /\ stored' = {Settings(offered, s)}
      /\ UNCHANGED <<offered, archived>>

(* configure: nothing but the options may change.                            *)
ConfiguresAddon(o) ==
  \E config \in OptionSets :
    LET s == [o EXCEPT !.config = config] IN
    /\ o \in stored /\ AcceptsSettings(manifest, s) /\ CheckGrants(manifest, s)
    /\ stored' = {Settings(manifest, s)}
    /\ UNCHANGED <<offered, manifest, archived>>

(* Mutation: what the add-on sends is kept as it is                          *)
SetsUnchecked(o) ==
  \E config \in OptionSets :
    /\ o \in stored
    /\ stored' = {[o EXCEPT !.config = config]}
    /\ UNCHANGED <<offered, manifest, archived>>

(* set_options, by the add-on through the Supervisor API.                    *)
SetsOptions(o) ==
  \E config \in OptionSets :
    LET s == [o EXCEPT !.config = config] IN
    /\ o \in stored /\ AcceptsSettings(manifest, s)
    /\ stored' = {Settings(manifest, s)}
    /\ UNCHANGED <<offered, manifest, archived>>

(* plan, for anything but install, update and configure: refused as a change *)
(* of settings unless checking the recorded ones again gives the same ones.  *)
Unchanged(o) == AcceptsSettings(manifest, o) /\ Settings(manifest, o) = o

BacksUpOptions(o) ==
  /\ o \in stored /\ Unchanged(o)
  /\ archived' = {o.config}
  /\ UNCHANGED <<offered, manifest, stored>>

(* The options of a backup must fit the manifest there is now; nothing else  *)
(* of the settings changes.                                                  *)
RestoresOptions(o) ==
  \E config \in archived :
    LET s == [o EXCEPT !.config = config] IN
    /\ o \in stored /\ Unchanged(o) /\ AcceptsSettings(manifest, s)
    /\ stored' = {[o EXCEPT !.config = Settings(manifest, s).config]}
    /\ UNCHANGED <<offered, manifest, archived>>

-----------------------------------------------------------------------------
OptNext ==
  \/ Offers \/ Installs
  \/ \E o \in stored :
       \/ ConfiguresAddon(o) \/ SetsOptions(o) \/ BacksUpOptions(o) \/ RestoresOptions(o)

OptSpec == OptInit /\ [][OptNext]_optVars

-----------------------------------------------------------------------------
OptTypeOK ==
  /\ offered \in Manifests /\ manifest \in Manifests
  /\ \A o \in stored : o.config \in Partial(OptionNames, Values) /\ o.lan \in BOOLEAN
  /\ archived \subseteq Partial(OptionNames, Values)

(* Settings in the record stay acceptable: checking them again, as every     *)
(* later request and start does, keeps each option that has a value and adds *)
(* nothing but the defaults of options without one.                          *)
OptionsStable ==
  \A o \in stored :
    /\ AcceptsSettings(manifest, o)
    /\ \A k \in OptionNames :
         LET again == ValueIn(Settings(manifest, o).config, k) IN
         again # ValueIn(o.config, k) => ValueIn(o.config, k) = Null /\ again = "default"

(* "lifecycle actions use the installed settings" (manager.py plan): a       *)
(* request to start, stop or remove that says nothing of settings is not     *)
(* refused as one that would change them.                                    *)
LifecycleUsesInstalled == \A o \in stored : Unchanged(o)
=============================================================================
