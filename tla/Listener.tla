------------------------------ MODULE Listener ------------------------------
(* How the Supervisor API stays reachable from add-ons: run_forever of       *)
(* opiha_apps/supervisor_api.py binds its server to an address of the add-on *)
(* bridge and keeps two firewall rules in place, while Docker makes and      *)
(* removes the bridge and the host reloads its firewall.                     *)
EXTENDS Integers

CONSTANT MaxDisturbances  \* bound: changes of the bridge, the port, the rules

ASSUME ListenerAssumption == MaxDisturbances \in Nat

VARIABLES
  bridge,       \* the add-on bridge and its address exist
  taken,        \* another process listens on the address
  server,       \* ours: none, bound, or bound to an address that went away
  rules,        \* the rules of the firewall that are there
  lpc,          \* the loop's next step
  shown,        \* shim_state: what the panel shows
  disturbances

lisVars == <<bridge, taken, server, rules, lpc, shown, disturbances>>

RULES == {"PREROUTING", "OUTPUT"}

LisInit ==
  /\ bridge \in BOOLEAN /\ taken = FALSE
  /\ server = "none" /\ rules = {} /\ lpc = "bind"
  /\ shown = [listening |-> FALSE, redirect |-> FALSE]
  /\ disturbances = 0

-----------------------------------------------------------------------------
(* The host.                                                                 *)

Disturbs == disturbances < MaxDisturbances /\ disturbances' = disturbances + 1

BridgeGoes ==
  /\ bridge /\ bridge' = FALSE
  /\ server' = IF server = "none" THEN "none" ELSE "stale"
  /\ taken' = FALSE
  /\ Disturbs /\ UNCHANGED <<rules, lpc, shown>>

(* A socket bound to the address of before may or may not hear from the new. *)
BridgeComes ==
  /\ ~bridge /\ bridge' = TRUE
  /\ server' \in IF server = "stale" THEN {"stale", "bound"} ELSE {server}
  /\ UNCHANGED <<taken, rules, lpc, shown, disturbances>>

PortTaken ==
  /\ bridge /\ ~taken /\ server = "none" /\ taken' = TRUE
  /\ Disturbs /\ UNCHANGED <<bridge, server, rules, lpc, shown>>

PortFreed ==
  /\ taken /\ taken' = FALSE
  /\ UNCHANGED <<bridge, server, rules, lpc, shown, disturbances>>

FirewallReloads ==
  /\ rules # {} /\ rules' = {}
  /\ Disturbs /\ UNCHANGED <<bridge, taken, server, lpc, shown>>

-----------------------------------------------------------------------------
(* The loop.                                                                 *)

(* make_server; an error is shown at the end of the pass.                    *)
Binds ==
  /\ lpc = "bind"
  /\ server' = IF server = "none" /\ bridge /\ ~taken THEN "bound" ELSE server
  /\ lpc' = "probe"
  /\ UNCHANGED <<bridge, taken, rules, shown, disturbances>>

(* Mutation: the socket is trusted once it is bound                          *)
TrustsSocket ==
  /\ lpc = "probe"
  /\ lpc' = IF server = "none" THEN "report" ELSE "PREROUTING"
  /\ UNCHANGED <<bridge, taken, server, rules, shown, disturbances>>

(* listener_alive: a server nobody can connect to is dropped, for a new one  *)
(* in the next pass.                                                         *)
Probes ==
  /\ lpc = "probe"
  /\ CASE server = "none" -> lpc' = "report" /\ UNCHANGED server
       [] server = "bound" -> lpc' = "PREROUTING" /\ UNCHANGED server
       [] server = "stale" -> lpc' = "bind" /\ server' = "none"
  /\ UNCHANGED <<bridge, taken, rules, shown, disturbances>>

(* ensure_redirect: each rule is looked for and, if it is missing, inserted. *)
Redirects(rule) ==
  /\ lpc = rule /\ rules' = rules \cup {rule}
  /\ lpc' = IF rule = "PREROUTING" THEN "OUTPUT" ELSE "report redirect"
  /\ UNCHANGED <<bridge, taken, server, shown, disturbances>>

RedirectFails(rule) ==
  /\ lpc = rule /\ rule \notin rules
  /\ lpc' = "report" /\ Disturbs
  /\ UNCHANGED <<bridge, taken, server, rules, shown>>

(* Thirty seconds later, or ten, the next pass.                              *)
Reports ==
  /\ lpc \in {"report", "report redirect"} /\ lpc' = "bind"
  /\ shown' = [listening |-> server # "none", redirect |-> lpc = "report redirect"]
  /\ UNCHANGED <<bridge, taken, server, rules, disturbances>>

-----------------------------------------------------------------------------
LisNext ==
  \/ BridgeGoes \/ BridgeComes \/ PortTaken \/ PortFreed \/ FirewallReloads
  \/ Binds \/ Probes \/ Reports
  \/ \E rule \in RULES : Redirects(rule) \/ RedirectFails(rule)

ListenerWorks == Binds \/ Probes \/ Reports \/ \E rule \in RULES : Redirects(rule)

LisFairness == WF_lisVars(ListenerWorks)

LisSpec == LisInit /\ [][LisNext]_lisVars /\ LisFairness

-----------------------------------------------------------------------------
LisTypeOK ==
  /\ bridge \in BOOLEAN /\ taken \in BOOLEAN
  /\ server \in {"none", "bound", "stale"} /\ rules \subseteq RULES
  /\ lpc \in {"bind", "probe", "report", "report redirect"} \cup RULES
  /\ shown \in [listening : BOOLEAN, redirect : BOOLEAN]
  /\ disturbances \in 0..MaxDisturbances

Reachable == server = "bound" /\ rules = RULES

(* Whatever happened to the bridge, the port and the firewall before: once   *)
(* the bridge stays, the API is reachable in the end and stays so, and the   *)
(* panel shows it.                                                           *)
ListenerServes ==
  <>[](bridge /\ ~taken) => <>[](Reachable /\ shown.listening /\ shown.redirect)
=============================================================================
