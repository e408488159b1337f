--------------------------- MODULE MCConnections ----------------------------
(* The connections of apps and add-ons, for TLC: the ways into an app's page *)
(* and out to Home Assistant, which share no state, one after the other in    *)
(* one instance.  The fairness of each is its own module's.                  *)
EXTENDS Ingress, Relays, Listener

CONSTANT Parts  \* the components this instance explores

VARIABLE part

vars == <<part, ingVars, relVars, lisVars>>

MCInit ==
  /\ part \in Parts
  /\ IngInit /\ RelInit /\ LisInit
  /\ part # "listener" => ~bridge

(* A step of one component; the others and their number stay as they are.   *)
IngressStep(A) == part = "ingress" /\ A /\ UNCHANGED <<part, relVars, lisVars>>
RelaysStep(A) == part = "relays" /\ A /\ UNCHANGED <<part, ingVars, lisVars>>
ListenerStep(A) == part = "listener" /\ A /\ UNCHANGED <<part, ingVars, relVars>>

-----------------------------------------------------------------------------
IngressMoves ==
  \/ \E l \in Logins :
       \/ IngressStep(LoginChanges(l))
  \/ \E k \in Keys :
       \/ IngressStep(Expires(k))
  \/ \E p \in Posts, l \in Logins :
       \/ IngressStep(PostAsks(p, l))
  \/ \E p \in Posts :
       \/ IngressStep(PostFails(p))
       \/ IngressStep(PostRenews(p))
       \/ IngressStep(PostMakes(p))
  \/ \E r \in Requests, k \in Keys :
       \/ IngressStep(RequestEnters(r, k))
  \/ \E r \in Requests :
       \/ IngressStep(RequestForwards(r))
       \/ IngressStep(RequestEnds(r))
  \/ \E w \in Sockets, k \in Keys :
       \/ IngressStep(SocketEnters(w, k))
  \/ \E w \in Sockets :
       \/ IngressStep(SocketConnects(w))
       \/ IngressStep(SocketPeerCloses(w))
       \/ IngressStep(SocketWatch(w))
       \/ IngressStep(SocketLeaves(w))
       \/ IngressStep(CoreCloses(w))
       \/ IngressStep(SocketLosesApp(w))
  \/ IngressStep(CoreStops)
  \/ IngressStep(CoreForgets)

RelaysMoves ==
  \/ \E r \in Relays, e \in Ends :
       \/ RelaysStep(RelayStalls(r, e))
       \/ RelaysStep(RelayResumes(r, e))
       \/ RelaysStep(RelayGoesAway(r, e))
       \/ RelaysStep(RelayReads(r, e))
       \/ RelaysStep(RelayWrites(r, e))
       \/ RelaysStep(RelayPumpEnds(r, e))
  \/ \E r \in Relays :
       \/ RelaysStep(RelayEnters(r))
       \/ RelaysStep(RelayAcquires(r))
       \/ RelaysStep(RelayGreeted(r))
       \/ RelaysStep(RelayTrusted(r))
       \/ RelaysStep(RelayPumps(r))
       \/ RelaysStep(RelayRejects(r))
       \/ RelaysStep(RelayJoins(r))
       \/ RelaysStep(RelayCloses(r))
       \/ RelaysStep(RelayFinally(r))

ListenerMoves ==
  \/ ListenerStep(BridgeGoes)
  \/ ListenerStep(BridgeComes)
  \/ ListenerStep(PortTaken)
  \/ ListenerStep(PortFreed)
  \/ ListenerStep(FirewallReloads)
  \/ ListenerStep(Binds)
  \/ ListenerStep(Probes)
  \/ ListenerStep(Reports)
  \/ \E rule \in RULES :
       \/ ListenerStep(Redirects(rule))
       \/ ListenerStep(RedirectFails(rule))

MCNext ==
  \/ IngressMoves
  \/ RelaysMoves
  \/ ListenerMoves

ConnectionsFairness ==
  /\ \A w \in Sockets :
       /\ WF_vars(IngressStep(SocketWatch(w) \/ SocketLosesApp(w)))
       /\ WF_vars(IngressStep(CoreCloses(w)))
       /\ WF_vars(IngressStep(socket[w].pc \in {"connects", "closes"} /\ SocketLeaves(w)))
  /\ WF_vars(IngressStep(CoreForgets))
  /\ \A r \in Relays :
       /\ WF_vars(RelaysStep(RelayWorks(r)))
       /\ \A e \in Ends :
            /\ SF_vars(RelaysStep(RelayWrites(r, e) \/ RelayPumpEnds(r, e)))
            /\ WF_vars(RelaysStep(RelayResumes(r, e)))
  /\ WF_vars(ListenerStep(ListenerWorks))

MCSpec == MCInit /\ [][MCNext]_vars /\ ConnectionsFairness

(* Every component's values are those it is written for, and what counts     *)
(* sockets and slots counts them: each handler and each relay gives back     *)
(* what it took on every way out (ingress.py active_websockets,              *)
(* supervisor_ws.py _active).                                                *)
ConnectionsTypeOK == IngTypeOK /\ RelTypeOK /\ LisTypeOK
=============================================================================
