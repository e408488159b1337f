------------------------------- MODULE Ingress -------------------------------
(* The way from the panel to an app's own web page: the Home Assistant       *)
(* integration's ingress (custom_components/opiha_apps/ingress.py), for one  *)
(* app.  A session belongs to one login (a refresh token of an active        *)
(* administrator), expires unless the panel renews it, and authorises        *)
(* requests and WebSockets.                                                  *)
(*                                                                           *)
(* Everything runs in one event loop: a step is what happens between two     *)
(* awaits.  Handlers hold the session they looked up across their awaits,    *)
(* while logins are revoked and given back and sessions expire.              *)
EXTENDS Integers, FiniteSets

CONSTANTS Logins,        \* refresh tokens
          Keys,          \* session tokens (bound: sessions ever made)
          Posts,         \* handlers of SessionView.post
          Requests,      \* handlers of proxied requests
          Sockets,       \* handlers of proxied WebSockets
          SessionLimit,  \* 128 in the code
          SocketLimit,   \* 8 in the code
          NoKey

ASSUME IngressAssumption ==
  /\ SessionLimit \in Nat /\ SocketLimit \in Nat
  /\ NoKey \notin Keys \cup Logins /\ IsFiniteSet(Sockets)

VARIABLES
  login,     \* whether each refresh token is one of an active administrator
  session,   \* the session objects: their login, and whether they expired
  sessions,  \* Ingress.sessions: the keys a request can look up
  post,      \* what each handler awaits and for whom
  request,   \*   "
  socket,    \*   "
  active,    \* Ingress.active_websockets
  sockets,   \* Ingress.sockets: the WebSockets close() knows of
  core,      \* Home Assistant: up, stopping (close() runs), stopped
  toClose    \* the WebSockets close() has still to go through

ingVars == <<login, session, sessions, post, request, socket, active, sockets, core, toClose>>

NoSession == [login |-> NoKey, expired |-> TRUE]
AtRest == [pc |-> "idle", key |-> NoKey]
Waiting == [pc |-> "idle", login |-> NoKey]

(* valid: not expired, and the login it was made for still counts.           *)
Valid(k) == ~session[k].expired /\ login[session[k].login]

IngInit ==
  /\ login = [l \in Logins |-> TRUE]
  /\ session = [k \in Keys |-> NoSession]
  /\ sessions = {}
  /\ post = [p \in Posts |-> Waiting]
  /\ request = [r \in Requests |-> AtRest]
  /\ socket = [w \in Sockets |-> AtRest]
  /\ active = 0 /\ sockets = {} /\ core = "up" /\ toClose = {}

-----------------------------------------------------------------------------
(* Time and Home Assistant's users.                                          *)

LoginChanges(l) ==
  /\ login' = [login EXCEPT ![l] = ~@]
  /\ UNCHANGED <<session, sessions, post, request, socket, active, sockets, core, toClose>>

Expires(k) ==
  /\ ~session[k].expired
  /\ session' = [session EXCEPT ![k].expired = TRUE]
  /\ UNCHANGED <<login, sessions, post, request, socket, active, sockets, core, toClose>>

-----------------------------------------------------------------------------
(* SessionView.post: checks the login, awaits the route from the manager,    *)
(* then drops expired sessions and renews or makes one.                      *)

PostAsks(p, l) ==
  /\ post[p].pc = "idle" /\ login[l]
  /\ post' = [post EXCEPT ![p] = [pc |-> "asks", login |-> l]]
  /\ UNCHANGED <<login, session, sessions, request, socket, active, sockets, core, toClose>>

PostFails(p) ==
  /\ post[p].pc = "asks"
  /\ post' = [post EXCEPT ![p] = Waiting]
  /\ UNCHANGED <<login, session, sessions, request, socket, active, sockets, core, toClose>>

Unexpired == {k \in sessions : ~session[k].expired}
Of(l) == {k \in Unexpired : session[k].login = l}

PostRenews(p) ==
  /\ post[p].pc = "asks" /\ core # "stopped" /\ Of(post[p].login) # {}
  /\ sessions' = Unexpired
  /\ post' = [post EXCEPT ![p] = Waiting]
  /\ UNCHANGED <<login, session, request, socket, active, sockets, core, toClose>>

(* Mutation: a session is made as if nothing happened since the post asked    *)
MakesAnyway(p) ==
  /\ post[p].pc = "asks" /\ core # "stopped" /\ Cardinality(Unexpired) < SessionLimit
  /\ \E k \in Keys :
       /\ session[k].login = NoKey
       /\ session' = [session EXCEPT ![k] = [login |-> post[p].login, expired |-> FALSE]]
       /\ sessions' = Unexpired \cup {k}
  /\ post' = [post EXCEPT ![p] = Waiting]
  /\ UNCHANGED <<login, request, socket, active, sockets, core, toClose>>

PostMakes(p) ==
  /\ post[p].pc = "asks" /\ core # "stopped" /\ Of(post[p].login) = {}
  /\ IF Cardinality(Unexpired) < SessionLimit
       THEN \E k \in Keys :
              /\ session[k].login = NoKey
              /\ session' = [session EXCEPT ![k] = [login |-> post[p].login, expired |-> FALSE]]
              /\ sessions' = Unexpired \cup {k}
       ELSE sessions' = Unexpired /\ UNCHANGED session
  /\ post' = [post EXCEPT ![p] = Waiting]
  /\ UNCHANGED <<login, request, socket, active, sockets, core, toClose>>

-----------------------------------------------------------------------------
(* proxy: authorised, then the body is read, then it is forwarded and the    *)
(* answer copied, each chunk only while the session is valid.                *)

MayEnter(k) == k \in sessions /\ Valid(k)

RequestGoes(r, pc) == request' = [request EXCEPT ![r].pc = pc]

RequestEnters(r, k) ==
  /\ request[r].pc = "idle" /\ MayEnter(k)
  /\ request' = [request EXCEPT ![r] = [pc |-> "body", key |-> k]]
  /\ UNCHANGED <<login, session, sessions, post, socket, active, sockets, core, toClose>>

RequestForwards(r) ==
  /\ request[r].pc = "body" /\ core # "stopped"
  /\ RequestGoes(r, "answer")
  /\ UNCHANGED <<login, session, sessions, post, socket, active, sockets, core, toClose>>

(* The next chunk: copied, or the session is no longer valid, or it was the  *)
(* last or too much, or the app or the browser gave up.                      *)
RequestEnds(r) ==
  /\ request[r].pc \in {"body", "answer"}
  /\ request' = [request EXCEPT ![r] = AtRest]
  /\ UNCHANGED <<login, session, sessions, post, socket, active, sockets, core, toClose>>

-----------------------------------------------------------------------------
(* websocket: counted from here to its finally clause.                       *)

SocketGoes(w, pc) == socket' = [socket EXCEPT ![w].pc = pc]

SocketEnters(w, k) ==
  /\ socket[w].pc = "idle" /\ MayEnter(k) /\ active < SocketLimit
  /\ active' = active + 1
  /\ socket' = [socket EXCEPT ![w] = [pc |-> "connects", key |-> k]]
  /\ UNCHANGED <<login, session, sessions, post, request, sockets, core, toClose>>

SocketConnects(w) ==
  /\ socket[w].pc = "connects" /\ core # "stopped"
  /\ SocketGoes(w, "relays")
  /\ sockets' = sockets \cup {w}
  /\ UNCHANGED <<login, session, sessions, post, request, active, core, toClose>>

(* A side closes, or a message arrives while the session is not valid.       *)
SocketPeerCloses(w) ==
  /\ socket[w].pc = "relays"
  /\ SocketGoes(w, "closes")
  /\ UNCHANGED <<login, session, sessions, post, request, active, sockets, core, toClose>>

(* Mutation: the watch looks at the clock, not at the login                  *)
WatchesClock(w) ==
  /\ socket[w].pc = "relays" /\ session[socket[w].key].expired
  /\ SocketGoes(w, "closes")
  /\ UNCHANGED <<login, session, sessions, post, request, active, sockets, core, toClose>>

(* authorization_watch wakes up and finds the session not valid.             *)
SocketWatch(w) ==
  /\ socket[w].pc = "relays" /\ ~Valid(socket[w].key)
  /\ SocketGoes(w, "closes")
  /\ UNCHANGED <<login, session, sessions, post, request, active, sockets, core, toClose>>

(* Mutation: a handler that leaves is not counted down                       *)
LeavesCount(w) ==
  /\ socket[w].pc # "idle"
  /\ sockets' = sockets \ {w}
  /\ socket' = [socket EXCEPT ![w] = AtRest]
  /\ UNCHANGED <<login, session, sessions, post, request, active, core, toClose>>

(* finally: the front end is closed, or connecting failed, or the browser    *)
(* went away and the handler was cancelled wherever it was.                  *)
SocketLeaves(w) ==
  /\ socket[w].pc # "idle"
  /\ sockets' = sockets \ {w}
  /\ active' = active - 1
  /\ socket' = [socket EXCEPT ![w] = AtRest]
  /\ UNCHANGED <<login, session, sessions, post, request, core, toClose>>

-----------------------------------------------------------------------------
(* Ingress.close when Home Assistant stops: the known WebSockets are closed  *)
(* one after the other; then the sessions and the client session go.         *)

CoreStops ==
  /\ core = "up"
  /\ core' = "stopping" /\ toClose' = sockets
  /\ UNCHANGED <<login, session, sessions, post, request, socket, active, sockets>>

CoreCloses(w) ==
  /\ w \in toClose
  /\ toClose' = toClose \ {w}
  /\ IF socket[w].pc = "relays" /\ w \in sockets
       THEN SocketGoes(w, "closes") ELSE UNCHANGED socket
  /\ UNCHANGED <<login, session, sessions, post, request, active, sockets, core>>

CoreForgets ==
  /\ core = "stopping" /\ toClose = {}
  /\ sessions' = {} /\ core' = "stopped"
  /\ UNCHANGED <<login, session, post, request, socket, active, sockets, toClose>>

(* Without the client session every connection to an app is at its end.      *)
SocketLosesApp(w) ==
  /\ core = "stopped" /\ socket[w].pc = "relays"
  /\ SocketGoes(w, "closes")
  /\ UNCHANGED <<login, session, sessions, post, request, active, sockets, core, toClose>>

-----------------------------------------------------------------------------
IngNext ==
  \/ \E l \in Logins : LoginChanges(l)
  \/ \E k \in Keys : Expires(k)
  \/ \E p \in Posts : \/ \E l \in Logins : PostAsks(p, l)
                      \/ PostFails(p) \/ PostRenews(p) \/ PostMakes(p)
  \/ \E r \in Requests : \/ \E k \in Keys : RequestEnters(r, k)
                         \/ RequestForwards(r) \/ RequestEnds(r)
  \/ \E w \in Sockets : \/ \E k \in Keys : SocketEnters(w, k)
                        \/ SocketConnects(w) \/ SocketPeerCloses(w) \/ SocketWatch(w)
                        \/ SocketLeaves(w) \/ CoreCloses(w) \/ SocketLosesApp(w)
  \/ CoreStops \/ CoreForgets

(* The watch wakes every five seconds, a connection that cannot be made times*)
(* out, closing has a time limit and chunks or their time limit come; nobody *)
(* has to log in, post, connect or stop Home Assistant.                      *)
IngFairness ==
  /\ \A w \in Sockets :
       /\ WF_ingVars(SocketWatch(w) \/ SocketLosesApp(w)) /\ WF_ingVars(CoreCloses(w))
       /\ WF_ingVars(socket[w].pc \in {"connects", "closes"} /\ SocketLeaves(w))
  /\ \A r \in Requests :
       WF_ingVars(request[r].pc = "answer" /\ ~Valid(request[r].key) /\ RequestEnds(r))
  /\ WF_ingVars(CoreForgets)

IngSpec == IngInit /\ [][IngNext]_ingVars /\ IngFairness

-----------------------------------------------------------------------------
(* The count of WebSockets comes back on every way out of the handler: it is *)
(* the number of handlers there are, never above the limit, and the set that *)
(* close() works through names no handler that has gone.                     *)
IngTypeOK ==
  /\ login \in [Logins -> BOOLEAN]
  /\ session \in [Keys -> [login : Logins \cup {NoKey}, expired : BOOLEAN]]
  /\ sessions \subseteq Keys
  /\ post \in [Posts -> [pc : {"idle", "asks"}, login : Logins \cup {NoKey}]]
  /\ request \in [Requests -> [pc : {"idle", "body", "answer"}, key : Keys \cup {NoKey}]]
  /\ socket \in [Sockets -> [pc : {"idle", "connects", "relays", "closes"},
                             key : Keys \cup {NoKey}]]
  /\ core \in {"up", "stopping", "stopped"} /\ toClose \subseteq Sockets
  /\ active = Cardinality({w \in Sockets : socket[w].pc # "idle"})
  /\ active <= SocketLimit
  /\ sockets \subseteq {w \in Sockets : socket[w].pc \in {"relays", "closes"}}

(* However posts overlap while they wait for the manager, a login has one    *)
(* session that counts, so that renewing renews what its connections hold:   *)
(* until it expires, a session in use is one the next post finds.            *)
UsedIsRenewed ==
  /\ \A j, k \in sessions :
       session[j].login = session[k].login /\ ~session[j].expired /\ ~session[k].expired => j = k
  /\ core # "stopped" =>
       \A w \in Sockets : socket[w].pc # "idle" =>
         session[socket[w].key].expired \/ socket[w].key \in Of(session[socket[w].key].login)

(* A WebSocket does not outlive its authorisation; and once Home Assistant   *)
(* stops, every WebSocket ends, those that were still connecting while       *)
(* close() worked through the others included.                               *)
SocketsEnd ==
  /\ \A w \in Sockets :
       (socket[w].pc = "relays" /\ ~Valid(socket[w].key))
         ~> (socket[w].pc # "relays" \/ Valid(socket[w].key))
  /\ (core = "stopping") ~> (\A w \in Sockets : socket[w].pc = "idle")
=============================================================================
