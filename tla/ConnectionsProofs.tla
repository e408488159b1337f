-------------------------- MODULE ConnectionsProofs --------------------------
(* Proofs about the connections of apps and add-ons: the sessions and        *)
(* WebSockets of ingress, the relays and the listener, for any number of     *)
(* logins, handlers, sockets, relays and disturbances.                       *)
EXTENDS MCConnections, FiniteSetTheorems, TLAPS

-----------------------------------------------------------------------------
Session == [login : Logins \cup {NoKey}, expired : BOOLEAN]
SocketPcs == {"idle", "connects", "relays", "closes"}
Socket == [pc : SocketPcs, key : Keys \cup {NoKey}]
Busy == {w \in Sockets : socket[w].pc # "idle"}

(* A session that was never made is expired and belongs to nobody; what is   *)
(* looked up, or held by a WebSocket, was made.                              *)
Made ==
  /\ \A k \in Keys : session[k].login = NoKey => session[k].expired
  /\ \A k \in sessions : session[k].login # NoKey
  /\ \A w \in Busy : socket[w].key \in Keys /\ session[socket[w].key].login # NoKey
  /\ \A p \in Posts : post[p].pc = "asks" => post[p].login \in Logins

(* UsedIsRenewed, its second half without the detour over the login.         *)
Alone ==
  \A j, k \in sessions :
    session[j].login = session[k].login /\ ~session[j].expired /\ ~session[k].expired => j = k

Found ==
  core # "stopped" =>
    \A w \in Busy : session[socket[w].key].expired \/ socket[w].key \in sessions

IngInv == IngTypeOK /\ Made /\ Alone /\ Found

-----------------------------------------------------------------------------
(* What one assignment does to the sessions and to the WebSockets.           *)
LEMMA SessionExpires ==
  \A r \in Session, b \in BOOLEAN : /\ [r EXCEPT !.expired = b] \in Session
                                    /\ [r EXCEPT !.expired = b].login = r.login
                                    /\ [r EXCEPT !.expired = b].expired = b
  BY SMT DEF Session

LEMMA SocketMoves ==
  \A r \in Socket, p \in SocketPcs : /\ [r EXCEPT !.pc = p] \in Socket
                                     /\ [r EXCEPT !.pc = p].pc = p
                                     /\ [r EXCEPT !.pc = p].key = r.key
  BY SMT DEF Socket, SocketPcs

(* Only w changes, and it holds on to its key.                               *)
Moves(w, p) ==
  /\ socket' \in [Sockets -> Socket]
  /\ socket'[w].pc = p /\ socket'[w].key = socket[w].key
  /\ \A v \in Sockets \ {w} : socket'[v] = socket[v]

LEMMA SocketGoesOn ==
  ASSUME socket \in [Sockets -> Socket], NEW w \in Sockets, NEW p \in SocketPcs, SocketGoes(w, p)
  PROVE  Moves(w, p)
<1> DEFINE r == [socket[w] EXCEPT !.pc = p]
<1>1. socket[w] \in Socket
  BY SMT
<1>2. socket' = [socket EXCEPT ![w] = r]
  BY Zenon DEF SocketGoes
<1>3. r \in Socket /\ r.pc = p /\ r.key = socket[w].key
  BY <1>1, SocketMoves, Zenon
<1> HIDE DEF r
<1>4. socket' \in [Sockets -> Socket] /\ socket'[w] = r
      /\ \A v \in Sockets \ {w} : socket'[v] = socket[v]
  BY <1>2, <1>3, SMT
<1> QED BY <1>3, <1>4, Zenon DEF Moves

(* A busy WebSocket that moves on and stays busy leaves the count alone.     *)
Shown == {v \in Sockets : socket[v].pc \in {"relays", "closes"}}

Counted ==
  /\ active = Cardinality(Busy) /\ active <= SocketLimit
  /\ sockets \subseteq Shown

LEMMA BusyFinite == IsFiniteSet(Busy) /\ Cardinality(Busy) \in Nat
<1>1. Busy \subseteq Sockets
  BY Zenon DEF Busy
<1> QED BY <1>1, IngressAssumption, FS_Subset, FS_CardinalityType

LEMMA StaysBusy ==
  ASSUME socket \in [Sockets -> Socket], NEW w \in Busy, NEW p \in {"relays", "closes"}, Moves(w, p)
  PROVE  /\ Busy' = Busy
         /\ \A v \in Busy : socket'[v].key = socket[v].key
         /\ Shown \subseteq Shown' /\ w \in Shown'
<1>1. w \in Sockets /\ socket[w].pc # "idle" /\ socket'[w].pc = p /\ p # "idle"
  BY Zenon DEF Busy, Moves
<1>2. \A v \in Sockets : socket'[v].pc # "idle" <=> socket[v].pc # "idle"
  BY <1>1, Zenon DEF Moves
<1>3. \A v \in Busy : socket'[v].key = socket[v].key
  BY Zenon DEF Moves, Busy
<1>4. \A v \in Sockets : socket[v].pc \in {"relays", "closes"} => socket'[v].pc \in {"relays", "closes"}
  BY <1>1, Zenon DEF Moves
<1> QED BY <1>1, <1>2, <1>3, <1>4, SMT DEF Busy, Shown

-----------------------------------------------------------------------------
LEMMA IngInitially == IngInit => IngInv
<1> SUFFICES ASSUME IngInit PROVE IngInv
  OBVIOUS
<1>1. Busy = {} /\ {w \in Sockets : socket[w].pc # "idle"} = {}
  BY SMT DEF IngInit, Busy, AtRest
<1>2. Cardinality({}) = 0 /\ 0 <= SocketLimit
  BY FS_EmptySet, IngressAssumption, SMT
<1>3. NoSession \in [login : Logins \cup {NoKey}, expired : BOOLEAN]
      /\ NoSession.login = NoKey /\ NoSession.expired
  BY SMT DEF NoSession
<1>4. /\ AtRest \in [pc : {"idle", "body", "answer"}, key : Keys \cup {NoKey}]
      /\ AtRest \in [pc : SocketPcs, key : Keys \cup {NoKey}]
      /\ Waiting \in [pc : {"idle", "asks"}, login : Logins \cup {NoKey}] /\ Waiting.pc # "asks"
  BY SMT DEF AtRest, Waiting, SocketPcs
<1>5. IngTypeOK
  <2>1. TRUE \in BOOLEAN
    OBVIOUS
  <2>2. login \in [Logins -> BOOLEAN]
    BY <2>1, Zenon DEF IngInit
  <2>3. active = Cardinality({w \in Sockets : socket[w].pc # "idle"}) /\ active <= SocketLimit
    BY <1>1, <1>2, Zenon DEF IngInit
  <2>4. session \in [Keys -> [login : Logins \cup {NoKey}, expired : BOOLEAN]]
    BY <1>3, Zenon DEF IngInit
  <2> QED BY <1>3, <1>4, <2>2, <2>3, <2>4, Zenon DEF IngInit, IngTypeOK, SocketPcs
<1>6. Made
  BY <1>1, <1>3, <1>4, Zenon DEF IngInit, Made
<1>7. Alone /\ Found
  BY <1>1, Zenon DEF IngInit, Alone, Found
<1> QED BY <1>5, <1>6, <1>7 DEF IngInv

(* The invariant as the steps use it.                                        *)
LEMMA IngFacts ==
  ASSUME IngInv
  PROVE  /\ login \in [Logins -> BOOLEAN] /\ session \in [Keys -> Session]
         /\ sessions \subseteq Keys
         /\ post \in [Posts -> [pc : {"idle", "asks"}, login : Logins \cup {NoKey}]]
         /\ request \in [Requests -> [pc : {"idle", "body", "answer"}, key : Keys \cup {NoKey}]]
         /\ socket \in [Sockets -> Socket]
         /\ core \in {"up", "stopping", "stopped"} /\ toClose \subseteq Sockets
         /\ Counted /\ Made /\ Alone /\ Found
  BY Zenon DEF IngInv, IngTypeOK, Session, Socket, SocketPcs, Counted, Busy, Shown

LEMMA IngRebuilt ==
  ASSUME login' \in [Logins -> BOOLEAN], session' \in [Keys -> Session],
         sessions' \subseteq Keys,
         post' \in [Posts -> [pc : {"idle", "asks"}, login : Logins \cup {NoKey}]],
         request' \in [Requests -> [pc : {"idle", "body", "answer"}, key : Keys \cup {NoKey}]],
         socket' \in [Sockets -> Socket],
         core' \in {"up", "stopping", "stopped"}, toClose' \subseteq Sockets,
         Counted', Made', Alone', Found'
  PROVE  IngInv'
  BY Zenon DEF IngInv, IngTypeOK, Session, Socket, SocketPcs, Counted, Busy, Shown

(* A step of a WebSocket that stays between entering and leaving.            *)
LEMMA SocketStep ==
  ASSUME IngInv, NEW w \in Busy, NEW p \in {"relays", "closes"}, SocketGoes(w, p),
         UNCHANGED <<login, session, sessions, post, request, active, core>>,
         sockets' \subseteq sockets \cup {w}, toClose' \subseteq Sockets
  PROVE  IngInv'
<1>0. /\ login \in [Logins -> BOOLEAN] /\ session \in [Keys -> Session]
      /\ sessions \subseteq Keys
      /\ post \in [Posts -> [pc : {"idle", "asks"}, login : Logins \cup {NoKey}]]
      /\ request \in [Requests -> [pc : {"idle", "body", "answer"}, key : Keys \cup {NoKey}]]
      /\ socket \in [Sockets -> Socket]
      /\ core \in {"up", "stopping", "stopped"} /\ toClose \subseteq Sockets
      /\ Counted /\ Made /\ Alone /\ Found
  BY IngFacts
<1>1. Moves(w, p)
  BY <1>0, SocketGoesOn, Zenon DEF Busy, SocketPcs
<1>2. /\ Busy' = Busy
      /\ \A v \in Busy : socket'[v].key = socket[v].key
      /\ Shown \subseteq Shown' /\ w \in Shown'
  BY <1>0, <1>1, StaysBusy, Zenon
<1>3. Counted'
  BY <1>0, <1>2, SMT DEF Counted
<1>4. Made' /\ Alone' /\ Found'
  BY <1>0, <1>2, Zenon DEF Made, Alone, Found
<1> QED BY <1>0, <1>1, <1>3, <1>4, IngRebuilt, Zenon DEF Moves

LEMMA IngStep == IngInv /\ [IngNext]_ingVars => IngInv'
<1> SUFFICES ASSUME IngInv, [IngNext]_ingVars PROVE IngInv'
  OBVIOUS
<1>0. /\ login \in [Logins -> BOOLEAN] /\ session \in [Keys -> Session]
      /\ sessions \subseteq Keys
      /\ post \in [Posts -> [pc : {"idle", "asks"}, login : Logins \cup {NoKey}]]
      /\ request \in [Requests -> [pc : {"idle", "body", "answer"}, key : Keys \cup {NoKey}]]
      /\ socket \in [Sockets -> Socket]
      /\ core \in {"up", "stopping", "stopped"} /\ toClose \subseteq Sockets
      /\ Counted /\ Made /\ Alone /\ Found
  BY IngFacts
<1>1. CASE /\ UNCHANGED <<session, sessions, socket, active, sockets>>
           /\ login' \in [Logins -> BOOLEAN]
           /\ request' \in [Requests -> [pc : {"idle", "body", "answer"}, key : Keys \cup {NoKey}]]
           /\ post' \in [Posts -> [pc : {"idle", "asks"}, login : Logins \cup {NoKey}]]
           /\ \A p \in Posts : post'[p].pc = "asks" => post'[p].login \in Logins
           /\ core' \in {"up", "stopping", "stopped"} /\ (core = "stopped" => core' = "stopped")
           /\ toClose' \subseteq Sockets
  <2>1. Counted' /\ Made' /\ Alone' /\ Found'
    BY <1>0, <1>1, Zenon DEF Counted, Made, Alone, Found, Busy, Shown
  <2> QED BY <1>0, <1>1, <2>1, IngRebuilt, Zenon
<1>2. ASSUME NEW l \in Logins, LoginChanges(l) PROVE IngInv'
  <2>1. login' \in [Logins -> BOOLEAN]
    <3>1. PICK b \in BOOLEAN : login' = [login EXCEPT ![l] = b]
      BY <1>2, Zenon DEF LoginChanges
    <3> QED BY <1>0, <3>1, SMT
  <2>2. UNCHANGED <<session, sessions, post, request, socket, active, sockets, core, toClose>>
    BY <1>2, Zenon DEF LoginChanges
  <2> QED BY <1>0, <1>1, <2>1, <2>2, Zenon DEF Made
<1>3. ASSUME NEW k \in Keys, Expires(k) PROVE IngInv'
  <2> DEFINE r == [session[k] EXCEPT !.expired = TRUE]
  <2>1. session[k] \in Session /\ TRUE \in BOOLEAN
    BY <1>0, SMT
  <2>2. r \in Session /\ r.login = session[k].login /\ r.expired
    BY <2>1, SessionExpires, Zenon
  <2>3. /\ session' = [session EXCEPT ![k] = r]
        /\ UNCHANGED <<login, sessions, post, request, socket, active, sockets, core, toClose>>
    BY <1>3, Zenon DEF Expires
  <2> HIDE DEF r
  <2>4. session' \in [Keys -> Session] /\ session'[k] = r
        /\ \A j \in Keys \ {k} : session'[j] = session[j]
    BY <1>0, <2>2, <2>3, SMT
  <2>5. \A j \in Keys : /\ session'[j].login = session[j].login
                        /\ session[j].expired => session'[j].expired
    BY <2>2, <2>4, Zenon
  <2>6. Made'
    <3>1. Busy' = Busy
      BY <2>3, Zenon DEF Busy
    <3>2. \A j \in Keys : session'[j].login = NoKey => session'[j].expired
      BY <1>0, <2>5, Zenon DEF Made
    <3>3. \A j \in sessions' : session'[j].login # NoKey
      BY <1>0, <2>3, <2>5, ZenonT(60) DEF Made
    <3>4. \A w \in Busy' : socket'[w].key \in Keys /\ session'[socket'[w].key].login # NoKey
      <4> SUFFICES ASSUME NEW w \in Busy
                   PROVE  socket[w].key \in Keys /\ session'[socket[w].key].login # NoKey
        BY <2>3, <3>1, Zenon
      <4>1. socket[w].key \in Keys /\ session[socket[w].key].login # NoKey
        BY <1>0, Zenon DEF Made
      <4> QED BY <2>5, <4>1, Zenon
    <3>5. \A p \in Posts : post'[p].pc = "asks" => post'[p].login \in Logins
      BY <1>0, <2>3, Zenon DEF Made
    <3> QED BY <3>2, <3>3, <3>4, <3>5, Zenon DEF Made
  <2>7. Alone'
    <3> SUFFICES ASSUME NEW i \in sessions, NEW j \in sessions,
                        session'[i].login = session'[j].login,
                        ~session'[i].expired, ~session'[j].expired
                 PROVE  i = j
      BY <2>3, Zenon DEF Alone
    <3>1. i \in Keys /\ j \in Keys
      BY <1>0, Zenon
    <3>2. /\ session[i].login = session[j].login
          /\ ~session[i].expired /\ ~session[j].expired
      BY <2>5, <3>1, Zenon
    <3> QED BY <1>0, <3>2, Zenon DEF Alone
  <2>8. Found'
    BY <1>0, <2>3, <2>5, Zenon DEF Found, Made, Busy
  <2>9. Counted'
    BY <1>0, <2>3, Zenon DEF Counted, Busy, Shown
  <2> QED BY <1>0, <2>3, <2>4, <2>6, <2>7, <2>8, <2>9, IngRebuilt, Zenon
<1>4. ASSUME NEW p \in Posts, NEW l \in Logins, PostAsks(p, l) PROVE IngInv'
  <2>1. /\ post' = [post EXCEPT ![p] = [pc |-> "asks", login |-> l]]
        /\ UNCHANGED <<login, session, sessions, request, socket, active, sockets, core, toClose>>
    BY <1>4, Zenon DEF PostAsks
  <2>2. /\ post' \in [Posts -> [pc : {"idle", "asks"}, login : Logins \cup {NoKey}]]
        /\ \A q \in Posts : post'[q].pc = "asks" => post'[q].login \in Logins
    BY <1>0, <2>1, SMT DEF Made
  <2> QED BY <1>0, <1>1, <2>1, <2>2, Zenon
<1>5. ASSUME NEW p \in Posts, post' = [post EXCEPT ![p] = Waiting]
      PROVE  /\ post' \in [Posts -> [pc : {"idle", "asks"}, login : Logins \cup {NoKey}]]
             /\ \A q \in Posts : post'[q].pc = "asks" => post'[q].login \in Logins
  BY <1>0, <1>5, SMT DEF Made, Waiting
<1>6. ASSUME NEW p \in Posts, PostFails(p) PROVE IngInv'
  <2>1. /\ post' = [post EXCEPT ![p] = Waiting]
        /\ UNCHANGED <<login, session, sessions, request, socket, active, sockets, core, toClose>>
    BY <1>6, Zenon DEF PostFails
  <2> QED BY <1>0, <1>1, <1>5, <2>1, Zenon
<1>7. ASSUME NEW p \in Posts, post' = [post EXCEPT ![p] = Waiting],
             sessions' = Unexpired, session' = session,
             UNCHANGED <<login, request, socket, active, sockets, core, toClose>>
      PROVE  IngInv'
  <2>1. sessions' \subseteq sessions
    BY <1>7, Zenon DEF Unexpired
  <2>2. Busy' = Busy
    BY <1>7, Zenon DEF Busy
  <2>3. Made'
    BY <1>0, <1>5, <1>7, <2>1, <2>2, Zenon DEF Made
  <2>4. Alone'
    BY <1>0, <1>7, <2>1, Zenon DEF Alone
  <2>5. Found'
    BY <1>0, <1>7, <2>2, Zenon DEF Found, Unexpired
  <2>6. Counted'
    BY <1>0, <1>7, Zenon DEF Counted, Busy, Shown
  <2> QED BY <1>0, <1>5, <1>7, <2>1, <2>3, <2>4, <2>5, <2>6, IngRebuilt, Zenon
<1>8. ASSUME NEW p \in Posts, PostRenews(p) PROVE IngInv'
  BY <1>7, <1>8, Zenon DEF PostRenews
<1>9. ASSUME NEW p \in Posts, PostMakes(p) PROVE IngInv'
  <2>0. /\ post[p].pc = "asks" /\ core # "stopped" /\ Of(post[p].login) = {}
        /\ post' = [post EXCEPT ![p] = Waiting]
        /\ UNCHANGED <<login, request, socket, active, sockets, core, toClose>>
    BY <1>9, Zenon DEF PostMakes
  <2>1. CASE sessions' = Unexpired /\ session' = session
    BY <1>7, <2>0, <2>1, Zenon
  <2>2. ASSUME NEW k \in Keys, session[k].login = NoKey,
               session' = [session EXCEPT ![k] = [login |-> post[p].login, expired |-> FALSE]],
               sessions' = Unexpired \cup {k}
        PROVE  IngInv'
    <3> DEFINE l == post[p].login
               r == [login |-> l, expired |-> FALSE]
    <3>1. l \in Logins /\ l # NoKey
      BY <1>0, <2>0, IngressAssumption, Zenon DEF Made
    <3>2. r \in Session /\ r.login = l /\ ~r.expired
      BY <3>1, SMT DEF Session
    <3>3. session' = [session EXCEPT ![k] = r]
      BY <2>2
    <3> HIDE DEF r
    <3>4. session' \in [Keys -> Session] /\ session'[k] = r
          /\ \A j \in Keys \ {k} : session'[j] = session[j]
      BY <1>0, <3>2, <3>3, SMT
    <3>5. Busy' = Busy /\ \A w \in Busy : socket'[w].key = socket[w].key
      BY <2>0, Zenon DEF Busy
    <3>6. \A w \in Busy : socket[w].key \in Keys \ {k}
      BY <1>0, <2>2, Zenon DEF Made
    <3>7. \A j \in sessions : j \in Keys \ {k}
      BY <1>0, <2>2, Zenon DEF Made
    <3>8. Unexpired \subseteq sessions
      BY Zenon DEF Unexpired
    <3>9. Made'
      <4>1. \A j \in Keys : session'[j].login = NoKey => session'[j].expired
        BY <1>0, <3>1, <3>2, <3>4, Zenon DEF Made
      <4>2. \A j \in sessions' : session'[j].login # NoKey
        BY <1>0, <2>2, <3>1, <3>2, <3>4, <3>7, <3>8, Zenon DEF Made
      <4>3. \A w \in Busy' : socket'[w].key \in Keys /\ session'[socket'[w].key].login # NoKey
        BY <1>0, <3>4, <3>5, <3>6, ZenonT(60) DEF Made
      <4> QED BY <1>5, <2>0, <4>1, <4>2, <4>3, Zenon DEF Made
    <3>10. Alone'
      <4>1. \A j \in Unexpired : session'[j].login # l
        BY <2>0, <3>4, <3>7, <3>8, Zenon DEF Of
      <4>2. \A j \in Unexpired : session'[j] = session[j] /\ j \in sessions
        BY <3>4, <3>7, <3>8, Zenon
      <4> SUFFICES ASSUME NEW i \in Unexpired \cup {k}, NEW j \in Unexpired \cup {k},
                          session'[i].login = session'[j].login,
                          ~session'[i].expired, ~session'[j].expired
                   PROVE  i = j
        BY <2>2, Zenon DEF Alone
      <4>3. CASE i \in Unexpired /\ j \in Unexpired
        <5>1. session[i].login = session[j].login /\ ~session[i].expired /\ ~session[j].expired
          BY <4>2, <4>3, SMT
        <5> QED BY <1>0, <4>2, <4>3, <5>1, Zenon DEF Alone
      <4>4. CASE i = k \/ j = k
        BY <3>2, <3>4, <4>1, <4>4, SMT
      <4> QED BY <4>3, <4>4
    <3>11. Found'
      BY <1>0, <2>0, <2>2, <3>4, <3>5, <3>6, Zenon DEF Found, Unexpired
    <3>12. Counted'
      BY <1>0, <2>0, Zenon DEF Counted, Busy, Shown
    <3>13. sessions' \subseteq Keys
      BY <1>0, <2>2, <3>8, Zenon
    <3> QED BY <1>0, <1>5, <2>0, <3>4, <3>9, <3>10, <3>11, <3>12, <3>13, IngRebuilt, Zenon
  <2> QED BY <1>9, <2>1, <2>2, Zenon DEF PostMakes
<1>10. ASSUME NEW r \in Requests,
              \/ \E k \in Keys : RequestEnters(r, k)
              \/ RequestForwards(r) \/ RequestEnds(r)
       PROVE  IngInv'
  <2>1. UNCHANGED <<login, session, sessions, post, socket, active, sockets, core, toClose>>
    BY <1>10, Zenon DEF RequestEnters, RequestForwards, RequestEnds
  <2>2. request' \in [Requests -> [pc : {"idle", "body", "answer"}, key : Keys \cup {NoKey}]]
    BY <1>0, <1>10, SMT DEF RequestEnters, RequestForwards, RequestEnds, RequestGoes, AtRest
  <2> QED BY <1>0, <1>1, <2>1, <2>2, Zenon DEF Made
<1>11. ASSUME NEW w \in Sockets, NEW k \in Keys, SocketEnters(w, k) PROVE IngInv'
  <2>0. /\ socket[w].pc = "idle" /\ k \in sessions /\ active < SocketLimit
        /\ active' = active + 1
        /\ socket' = [socket EXCEPT ![w] = [pc |-> "connects", key |-> k]]
        /\ UNCHANGED <<login, session, sessions, post, request, sockets, core, toClose>>
    BY <1>11, Zenon DEF SocketEnters, MayEnter
  <2>1. /\ socket' \in [Sockets -> Socket] /\ socket'[w] = [pc |-> "connects", key |-> k]
        /\ \A v \in Sockets \ {w} : socket'[v] = socket[v]
    BY <1>0, <2>0, SMT DEF Socket, SocketPcs
  <2>2. socket'[w].pc = "connects" /\ socket'[w].key = k
    BY <2>1, SMT
  <2>3. Busy' = Busy \cup {w} /\ w \notin Busy
    BY <2>0, <2>1, <2>2, SMT DEF Busy
  <2>4. \A v \in Busy : socket'[v].key = socket[v].key
    BY <2>0, <2>1, Zenon DEF Busy
  <2>5. Shown' = Shown
    BY <2>0, <2>1, <2>2, SMT DEF Shown
  <2>6. Counted'
    <3>1. Cardinality(Busy \cup {w}) = Cardinality(Busy) + 1
      BY <2>3, BusyFinite, FS_AddElement
    <3> QED BY <1>0, <2>0, <2>3, <2>5, <3>1, BusyFinite, IngressAssumption, SMT DEF Counted
  <2>7. Made'
    BY <1>0, <2>0, <2>2, <2>3, <2>4, ZenonT(60) DEF Made
  <2>8. Alone' /\ Found'
    <3>1. Alone'
      BY <1>0, <2>0 DEF Alone
    <3>2. ASSUME core # "stopped", NEW v \in Busy'
          PROVE  session[socket'[v].key].expired \/ socket'[v].key \in sessions
      <4>1. CASE v = w
        BY <2>0, <2>2, <4>1, Zenon
      <4>2. CASE v \in Busy
        <5>1. socket'[v].key = socket[v].key
          BY <2>4, <4>2, Zenon
        <5>2. session[socket[v].key].expired \/ socket[v].key \in sessions
          BY <1>0, <3>2, <4>2, Zenon DEF Found
        <5> QED BY <5>1, <5>2, Zenon
      <4> QED BY <2>3, <4>1, <4>2, Zenon
    <3> QED BY <2>0, <3>1, <3>2, Zenon DEF Found
  <2> QED BY <1>0, <2>0, <2>1, <2>6, <2>7, <2>8, IngRebuilt, Zenon
<1>12. ASSUME NEW w \in Sockets, SocketConnects(w) PROVE IngInv'
  <2>1. /\ w \in Busy /\ SocketGoes(w, "relays") /\ sockets' = sockets \cup {w}
        /\ UNCHANGED <<login, session, sessions, post, request, active, core, toClose>>
    BY <1>12, SMT DEF SocketConnects, Busy
  <2> QED BY <1>0, <2>1, SocketStep, Zenon
<1>13. ASSUME NEW w \in Sockets, SocketPeerCloses(w) \/ SocketWatch(w) \/ SocketLosesApp(w)
       PROVE  IngInv'
  <2>1. /\ w \in Busy /\ SocketGoes(w, "closes")
        /\ UNCHANGED <<login, session, sessions, post, request, active, sockets, core, toClose>>
    BY <1>13, SMT DEF SocketPeerCloses, SocketWatch, SocketLosesApp, Busy
  <2> QED BY <1>0, <2>1, SocketStep, Zenon
<1>14. ASSUME NEW w \in Sockets, SocketLeaves(w) PROVE IngInv'
  <2>0. /\ socket[w].pc # "idle" /\ sockets' = sockets \ {w} /\ active' = active - 1
        /\ socket' = [socket EXCEPT ![w] = AtRest]
        /\ UNCHANGED <<login, session, sessions, post, request, core, toClose>>
    BY <1>14, Zenon DEF SocketLeaves
  <2>1. /\ socket' \in [Sockets -> Socket] /\ socket'[w] = AtRest
        /\ \A v \in Sockets \ {w} : socket'[v] = socket[v]
    BY <1>0, <2>0, SMT DEF Socket, SocketPcs, AtRest
  <2>2. socket'[w].pc = "idle"
    BY <2>1, SMT DEF AtRest
  <2>3. Busy' = Busy \ {w} /\ w \in Busy
    BY <2>0, <2>1, <2>2, SMT DEF Busy
  <2>4. \A v \in Busy' : v \in Busy /\ socket'[v].key = socket[v].key
    BY <2>1, <2>3, Zenon DEF Busy
  <2>5. Shown \ {w} \subseteq Shown'
    BY <2>0, <2>1, <2>2, SMT DEF Shown
  <2>6. Counted'
    <3>1. Cardinality(Busy \ {w}) = Cardinality(Busy) - 1
      BY <2>3, BusyFinite, FS_RemoveElement
    <3> QED BY <1>0, <2>0, <2>3, <2>5, <3>1, BusyFinite, IngressAssumption, SMT DEF Counted
  <2>7. Made'
    BY <1>0, <2>0, <2>4, Zenon DEF Made
  <2>8. Alone' /\ Found'
    <3>1. Alone'
      BY <1>0, <2>0 DEF Alone
    <3>2. ASSUME core # "stopped", NEW v \in Busy'
          PROVE  session[socket'[v].key].expired \/ socket'[v].key \in sessions
      <4>1. v \in Busy /\ socket'[v].key = socket[v].key
        BY <2>4, Zenon
      <4>2. session[socket[v].key].expired \/ socket[v].key \in sessions
        BY <1>0, <3>2, <4>1, Zenon DEF Found
      <4> QED BY <4>1, <4>2, Zenon
    <3> QED BY <2>0, <3>1, <3>2, Zenon DEF Found
  <2> QED BY <1>0, <2>0, <2>1, <2>6, <2>7, <2>8, IngRebuilt, Zenon
<1>15. CASE CoreStops
  <2>1. /\ core = "up" /\ core' = "stopping" /\ toClose' = sockets
        /\ UNCHANGED <<login, session, sessions, post, request, socket, active, sockets>>
    BY <1>15, Zenon DEF CoreStops
  <2>2. sockets \subseteq Sockets
    BY <1>0, SMT DEF Counted, Shown
  <2>3. core # "stopped" /\ core' \in {"up", "stopping", "stopped"}
    BY <2>1, SMT
  <2> QED BY <1>0, <1>1, <2>1, <2>2, <2>3, Zenon DEF Made
<1>16. ASSUME NEW w \in Sockets, CoreCloses(w) PROVE IngInv'
  <2>0. /\ toClose' \subseteq Sockets
        /\ UNCHANGED <<login, session, sessions, post, request, active, sockets, core>>
    BY <1>0, <1>16, SMT DEF CoreCloses
  <2>1. CASE socket' = socket
    BY <1>0, <1>1, <2>0, <2>1, Zenon DEF Made
  <2>2. CASE socket[w].pc = "relays" /\ SocketGoes(w, "closes")
    <3>1. w \in Busy
      BY <2>2, SMT DEF Busy
    <3> QED BY <2>0, <2>2, <3>1, SocketStep, Zenon
  <2> QED BY <1>16, <2>1, <2>2, Zenon DEF CoreCloses
<1>17. CASE CoreForgets
  <2>1. /\ sessions' = {} /\ core' = "stopped"
        /\ UNCHANGED <<login, session, post, request, socket, active, sockets, toClose>>
    BY <1>17, Zenon DEF CoreForgets
  <2>2. Counted' /\ Made'
    BY <1>0, <2>1, Zenon DEF Counted, Made, Busy, Shown
  <2>3. Alone' /\ Found'
    BY <2>1, SMT DEF Alone, Found
  <2> QED BY <1>0, <2>1, <2>2, <2>3, IngRebuilt, Zenon
<1>18. CASE UNCHANGED ingVars
  BY <1>0, <1>1, <1>18, Zenon DEF ingVars, Made
<1> QED
  BY <1>2, <1>3, <1>4, <1>6, <1>8, <1>9, <1>10, <1>11, <1>12, <1>13, <1>14, <1>15, <1>16, <1>17,
     <1>18, Zenon DEF IngNext

LEMMA IngAlways == IngSpec => []IngInv
  BY IngInitially, IngStep, PTL DEF IngSpec

-----------------------------------------------------------------------------
(* For any number of handlers: the count of WebSockets is the number of      *)
(* handlers there are and never above the limit, whatever way each of them   *)
(* ends (ingress.py websocket).                                              *)
THEOREM SocketsAreCounted == IngSpec => []IngTypeOK
<1>1. IngInv => IngTypeOK
  BY DEF IngInv
<1> QED BY <1>1, IngAlways, PTL

LEMMA IngRenews == IngInv => UsedIsRenewed
<1> SUFFICES ASSUME IngInv PROVE UsedIsRenewed
  OBVIOUS
<1>1. Alone /\ Found
  BY DEF IngInv
<1>2. ASSUME core # "stopped", NEW w \in Sockets, socket[w].pc # "idle"
      PROVE  session[socket[w].key].expired \/ socket[w].key \in Of(session[socket[w].key].login)
  <2>1. session[socket[w].key].expired \/ socket[w].key \in sessions
    BY <1>1, <1>2, Zenon DEF Found, Busy
  <2> QED BY <2>1, Zenon DEF Of, Unexpired
<1> QED BY <1>1, <1>2, Zenon DEF UsedIsRenewed, Alone

(* However many posts and logins overlap, what a connection holds is what    *)
(* the next post of its login renews (ingress.py SessionView.post).          *)
THEOREM SessionsAreRenewed == IngSpec => []UsedIsRenewed
  BY IngRenews, IngAlways, PTL

-----------------------------------------------------------------------------
(* Relays: a thread's fields, and the threads that have a slot.              *)
RelayPcs == {"idle", "acquire", "hello", "auth", "reply", "pump", "closing", "finally"}

RelayStates ==
  [pc : RelayPcs, slot : BOOLEAN, end : [Ends -> {"takes", "stalls", "gone"}],
   pump : [Ends -> {"reads", "writes", "ended"}], shut : BOOLEAN]

Holders == {r \in Relays : relay[r].slot}

(* A thread that has not acquired a slot has none.                           *)
Earns(x) == x.pc \in {"idle", "acquire"} => ~x.slot

(* The slots that are missing are those of the threads that have one.        *)
RelInv ==
  /\ relay \in [Relays -> RelayStates] /\ slots \in 0..MaxRelays
  /\ slots = MaxRelays - Cardinality(Holders)
  /\ \A r \in Relays : Earns(relay[r])

LEMMA SetRelayPc ==
  ASSUME NEW x \in RelayStates, NEW p \in RelayPcs
  PROVE  LET y == [x EXCEPT !.pc = p] IN y \in RelayStates /\ y.pc = p /\ y.slot = x.slot
<1> DEFINE E == [Ends -> {"takes", "stalls", "gone"}]
           P == [Ends -> {"reads", "writes", "ended"}]
<1>1. RelayStates = [pc : RelayPcs, slot : BOOLEAN, end : E, pump : P, shut : BOOLEAN]
  BY DEF RelayStates
<1> HIDE DEF E, P
<1> QED BY <1>1, SMT

LEMMA SetRelaySlot ==
  ASSUME NEW x \in RelayStates, NEW b \in BOOLEAN
  PROVE  LET y == [x EXCEPT !.slot = b] IN y \in RelayStates /\ y.pc = x.pc /\ y.slot = b
<1> DEFINE E == [Ends -> {"takes", "stalls", "gone"}]
           P == [Ends -> {"reads", "writes", "ended"}]
<1>1. RelayStates = [pc : RelayPcs, slot : BOOLEAN, end : E, pump : P, shut : BOOLEAN]
  BY DEF RelayStates
<1> HIDE DEF E, P
<1> QED BY <1>1, SMT

LEMMA SetRelayShut ==
  ASSUME NEW x \in RelayStates, NEW b \in BOOLEAN
  PROVE  LET y == [x EXCEPT !.shut = b] IN y \in RelayStates /\ y.pc = x.pc /\ y.slot = x.slot
<1> DEFINE E == [Ends -> {"takes", "stalls", "gone"}]
           P == [Ends -> {"reads", "writes", "ended"}]
<1>1. RelayStates = [pc : RelayPcs, slot : BOOLEAN, end : E, pump : P, shut : BOOLEAN]
  BY DEF RelayStates
<1> HIDE DEF E, P
<1> QED BY <1>1, SMT

LEMMA SetRelayEnd ==
  ASSUME NEW x \in RelayStates, NEW e \in Ends, NEW s \in {"takes", "stalls", "gone"}
  PROVE  LET y == [x EXCEPT !.end[e] = s] IN y \in RelayStates /\ y.pc = x.pc /\ y.slot = x.slot
<1> DEFINE E == [Ends -> {"takes", "stalls", "gone"}]
           P == [Ends -> {"reads", "writes", "ended"}]
           f == [x.end EXCEPT ![e] = s]
<1>1. RelayStates = [pc : RelayPcs, slot : BOOLEAN, end : E, pump : P, shut : BOOLEAN]
  BY DEF RelayStates
<1>2. x.end \in E
  BY <1>1, SMT
<1>3. f \in E
  BY <1>2, Zenon
<1>4. [x EXCEPT !.end[e] = s] = [x EXCEPT !.end = f]
  OBVIOUS
<1> HIDE DEF E, P, f
<1>5. LET y == [x EXCEPT !.end = f] IN y \in RelayStates /\ y.pc = x.pc /\ y.slot = x.slot
  BY <1>1, <1>3, SMT
<1> QED BY <1>4, <1>5, Zenon

LEMMA SetRelayPump ==
  ASSUME NEW x \in RelayStates, NEW f \in [Ends -> {"reads", "writes", "ended"}]
  PROVE  LET y == [x EXCEPT !.pump = f] IN y \in RelayStates /\ y.pc = x.pc /\ y.slot = x.slot
<1> DEFINE E == [Ends -> {"takes", "stalls", "gone"}]
           P == [Ends -> {"reads", "writes", "ended"}]
<1>1. RelayStates = [pc : RelayPcs, slot : BOOLEAN, end : E, pump : P, shut : BOOLEAN]
  BY DEF RelayStates
<1> HIDE DEF E, P
<1>2. f \in P
  BY DEF P
<1> QED BY <1>1, <1>2, SMT

LEMMA PumpSet ==
  ASSUME NEW x \in RelayStates, NEW e \in Ends, NEW s \in {"reads", "writes", "ended"}
  PROVE  LET y == [x EXCEPT !.pump[e] = s] IN y \in RelayStates /\ y.pc = x.pc /\ y.slot = x.slot
<1> DEFINE P == [Ends -> {"reads", "writes", "ended"}]
           f == [x.pump EXCEPT ![e] = s]
<1>1. x.pump \in P
  BY SMT DEF RelayStates
<1>2. f \in P
  BY <1>1, Zenon
<1>3. [x EXCEPT !.pump[e] = s] = [x EXCEPT !.pump = f]
  OBVIOUS
<1> HIDE DEF f
<1>4. LET y == [x EXCEPT !.pump = f] IN y \in RelayStates /\ y.pc = x.pc /\ y.slot = x.slot
  BY <1>2, SetRelayPump, Zenon
<1> QED BY <1>3, <1>4, Zenon

LEMMA NoRelayType == NoRelay \in RelayStates /\ NoRelay.pc = "idle" /\ NoRelay.slot = FALSE
<1> DEFINE E == [Ends -> {"takes", "stalls", "gone"}]
           P == [Ends -> {"reads", "writes", "ended"}]
           f == [e \in Ends |-> "takes"]
           g == [e \in Ends |-> "ended"]
<1>1. RelayStates = [pc : RelayPcs, slot : BOOLEAN, end : E, pump : P, shut : BOOLEAN]
  BY DEF RelayStates
<1>2. f \in E /\ g \in P
  BY Zenon
<1>3. NoRelay = [pc |-> "idle", slot |-> FALSE, end |-> f, pump |-> g, shut |-> FALSE]
  BY Zenon DEF NoRelay
<1> HIDE DEF E, P, f, g
<1> QED BY <1>1, <1>2, <1>3, SMT DEF RelayPcs

LEMMA RelInitially == RelInit => RelInv
<1> SUFFICES ASSUME RelInit PROVE RelInv
  OBVIOUS
<1>1. relay = [r \in Relays |-> NoRelay] /\ slots = MaxRelays
  BY DEF RelInit
<1>2. relay \in [Relays -> RelayStates] /\ \A r \in Relays : relay[r].pc = "idle" /\ ~relay[r].slot
  BY <1>1, NoRelayType, Zenon
<1>3. Holders = {}
  BY <1>2, Zenon DEF Holders
<1>4. Cardinality(Holders) = 0
  BY <1>3, FS_EmptySet, Zenon
<1>5. slots \in 0..MaxRelays /\ slots = MaxRelays - Cardinality(Holders)
  BY <1>1, <1>4, RelaysAssumption, SMT
<1> QED BY <1>2, <1>5, Zenon DEF RelInv, Earns

(* One thread goes on; the others stay as they are.                          *)
LEMMA RelaySet ==
  ASSUME RelInv, NEW r \in Relays, NEW x \in RelayStates, relay' = [relay EXCEPT ![r] = x]
  PROVE  /\ relay' \in [Relays -> RelayStates]
         /\ \A q \in Relays : relay'[q] = IF q = r THEN x ELSE relay[q]
         /\ Earns(x) => \A q \in Relays : Earns(relay'[q])
<1>1. relay \in [Relays -> RelayStates] /\ \A q \in Relays : Earns(relay[q])
  BY Zenon DEF RelInv
<1>2. \A q \in Relays : relay'[q] = IF q = r THEN x ELSE relay[q]
  BY <1>1, Zenon
<1>3. relay' \in [Relays -> RelayStates]
  BY <1>1, SMT
<1> QED BY <1>1, <1>2, <1>3, Zenon

LEMMA RelayKeepsSlot ==
  ASSUME RelInv, NEW r \in Relays, NEW x \in RelayStates, relay' = [relay EXCEPT ![r] = x],
         x.slot = relay[r].slot, Earns(x), slots' = slots
  PROVE  RelInv'
<1>1. /\ relay' \in [Relays -> RelayStates] /\ \A q \in Relays : Earns(relay'[q])
      /\ \A q \in Relays : relay'[q].slot = relay[q].slot
  BY RelaySet, Zenon
<1>2. Holders' = Holders
  BY <1>1, Zenon DEF Holders
<1> QED BY <1>1, <1>2, Zenon DEF RelInv, Earns

LEMMA HoldersFinite ==
  /\ IsFiniteSet(Holders) /\ Cardinality(Holders) \in Nat
<1>1. IsFiniteSet(Relays)
  BY RelaysAssumption
<1>2. Holders \subseteq Relays
  BY DEF Holders
<1>3. IsFiniteSet(Holders)
  BY <1>1, <1>2, FS_Subset, Zenon
<1> QED BY <1>3, FS_CardinalityType, Zenon

LEMMA RelayGoes ==
  ASSUME RelInv, NEW r \in Relays, NEW from \in RelayPcs, NEW to \in RelayPcs, Goes(r, from, to),
         to \in {"idle", "acquire"} => from \in {"idle", "acquire"}, slots' = slots
  PROVE  RelInv'
<1> DEFINE x == [relay[r] EXCEPT !.pc = to]
<1>1. relay[r] \in RelayStates /\ Earns(relay[r]) /\ relay[r].pc = from
  BY Zenon DEF RelInv, Goes
<1>2. relay' = [relay EXCEPT ![r] = x]
  BY Zenon DEF Goes
<1>3. x \in RelayStates /\ x.pc = to /\ x.slot = relay[r].slot
  BY <1>1, SetRelayPc, Zenon
<1> HIDE DEF x
<1>4. Earns(x)
  BY <1>1, <1>3, Zenon DEF Earns
<1> QED BY <1>2, <1>3, <1>4, RelayKeepsSlot, Zenon

LEMMA RelayActs ==
  ASSUME RelInv, NEW r \in Relays, slots' = slots, NEW x, relay' = [relay EXCEPT ![r] = x],
         x \in RelayStates, x.pc = relay[r].pc, x.slot = relay[r].slot
  PROVE  RelInv'
<1>1. Earns(relay[r])
  BY Zenon DEF RelInv
<1>2. Earns(x)
  BY <1>1, Zenon DEF Earns
<1> QED BY <1>2, RelayKeepsSlot, Zenon

LEMMA EndsStep ==
  ASSUME RelInv, NEW r \in Relays, NEW e \in Ends,
         \/ RelayStalls(r, e) \/ RelayResumes(r, e) \/ RelayGoesAway(r, e)
         \/ RelayReads(r, e) \/ RelayWrites(r, e) \/ RelayPumpEnds(r, e)
  PROVE  RelInv'
<1> DEFINE yes == TRUE
<1>1. relay[r] \in RelayStates /\ yes \in BOOLEAN
  BY Zenon DEF RelInv
<1> HIDE DEF yes
<1>2. CASE RelayStalls(r, e) \/ RelayResumes(r, e) \/ RelayGoesAway(r, e)
  <2>1. PICK s \in {"takes", "stalls", "gone"} : relay' = [relay EXCEPT ![r].end[e] = s]
    BY <1>2, Zenon DEF RelayStalls, RelayResumes, RelayGoesAway
  <2>2. slots' = slots
    BY <1>2, Zenon DEF RelayStalls, RelayResumes, RelayGoesAway
  <2> DEFINE x == [relay[r] EXCEPT !.end[e] = s]
  <2>3. relay' = [relay EXCEPT ![r] = x]
    BY <2>1, Zenon
  <2>4. x \in RelayStates /\ x.pc = relay[r].pc /\ x.slot = relay[r].slot
    BY <1>1, SetRelayEnd, Zenon
  <2> HIDE DEF x
  <2> QED BY <2>2, <2>3, <2>4, RelayActs, Zenon
<1>3. CASE RelayReads(r, e) \/ RelayWrites(r, e)
  <2>1. PICK s \in {"reads", "writes", "ended"} : relay' = [relay EXCEPT ![r].pump[e] = s]
    BY <1>3, Zenon DEF RelayReads, RelayWrites
  <2>2. slots' = slots
    BY <1>3, Zenon DEF RelayReads, RelayWrites
  <2> DEFINE x == [relay[r] EXCEPT !.pump[e] = s]
  <2>3. relay' = [relay EXCEPT ![r] = x]
    BY <2>1, Zenon
  <2>4. x \in RelayStates /\ x.pc = relay[r].pc /\ x.slot = relay[r].slot
    BY <1>1, PumpSet, Zenon
  <2> HIDE DEF x
  <2> QED BY <2>2, <2>3, <2>4, RelayActs, Zenon
<1>4. CASE RelayPumpEnds(r, e)
  <2> DEFINE x == [relay[r] EXCEPT !.pump[e] = "ended"]
             y == [x EXCEPT !.shut = yes]
  <2>1. slots' = slots /\ relay' = [relay EXCEPT ![r] = y]
    BY <1>4, Zenon DEF RelayPumpEnds, yes
  <2>2. x \in RelayStates /\ x.pc = relay[r].pc /\ x.slot = relay[r].slot
    BY <1>1, PumpSet, Zenon
  <2> HIDE DEF x
  <2>3. y \in RelayStates /\ y.pc = relay[r].pc /\ y.slot = relay[r].slot
    BY <1>1, <2>2, SetRelayShut, Zenon
  <2> HIDE DEF y
  <2> QED BY <2>1, <2>3, RelayActs, Zenon
<1> QED BY <1>2, <1>3, <1>4

LEMMA RelayPumpsStep ==
  ASSUME RelInv, NEW r \in Relays, RelayPumps(r)
  PROVE  RelInv'
<1> DEFINE f == [e \in Ends |-> "reads"]
           x == [relay[r] EXCEPT !.pc = "pump"]
           y == [x EXCEPT !.pump = f]
<1>1. relay[r] \in RelayStates
  BY Zenon DEF RelInv
<1>2. slots' = slots /\ relay' = [relay EXCEPT ![r] = y]
  BY Zenon DEF RelayPumps
<1>3. f \in [Ends -> {"reads", "writes", "ended"}] /\ "pump" \in RelayPcs
  BY Zenon DEF RelayPcs
<1>4. x \in RelayStates /\ x.pc = "pump" /\ x.slot = relay[r].slot
  BY <1>1, <1>3, SetRelayPc, Zenon
<1> HIDE DEF x, f
<1>5. y \in RelayStates /\ y.pc = "pump" /\ y.slot = relay[r].slot
  BY <1>3, <1>4, SetRelayPump, Zenon
<1> HIDE DEF y
<1>6. Earns(y)
  BY <1>5, SMT DEF Earns
<1> QED BY <1>2, <1>5, <1>6, RelayKeepsSlot, Zenon

(* A slot is counted out when it is acquired and back in at the end.         *)
LEMMA RelayAcquiresStep ==
  ASSUME RelInv, NEW r \in Relays, RelayAcquires(r)
  PROVE  RelInv'
<1> DEFINE yes == TRUE
           x == [relay[r] EXCEPT !.pc = "hello"]
           y == [x EXCEPT !.slot = yes]
<1>1. relay[r] \in RelayStates /\ Earns(relay[r])
  BY Zenon DEF RelInv
<1>2. CASE slots = 0 /\ Goes(r, "acquire", "closing") /\ UNCHANGED slots
  BY <1>2, RelayGoes, Zenon DEF RelayPcs
<1>3. CASE /\ slots > 0 /\ slots' = slots - 1 /\ relay[r].pc = "acquire"
           /\ relay' = [relay EXCEPT ![r].pc = "hello", ![r].slot = TRUE]
  <2>1. relay' = [relay EXCEPT ![r] = y] /\ yes \in BOOLEAN /\ yes = TRUE /\ "hello" \in RelayPcs
    BY <1>3, Zenon DEF RelayPcs
  <2> HIDE DEF yes
  <2>2. x \in RelayStates /\ x.pc = "hello"
    BY <1>1, <2>1, SetRelayPc, Zenon
  <2> HIDE DEF x
  <2>3. y \in RelayStates /\ y.pc = "hello" /\ y.slot = yes
    BY <2>1, <2>2, SetRelaySlot, Zenon
  <2> HIDE DEF y
  <2>4. Earns(y)
    BY <2>3, SMT DEF Earns
  <2>5. /\ relay' \in [Relays -> RelayStates]
        /\ \A q \in Relays : relay'[q] = IF q = r THEN y ELSE relay[q]
        /\ \A q \in Relays : Earns(relay'[q])
    BY <2>1, <2>3, <2>4, RelaySet, Zenon
  <2>6. ~relay[r].slot
    BY <1>1, <1>3, Zenon DEF Earns
  <2>7. r \notin Holders /\ Holders' = Holders \cup {r}
    BY <2>1, <2>3, <2>5, <2>6, Zenon DEF Holders
  <2>8. Cardinality(Holders') = Cardinality(Holders) + 1
    BY <2>7, HoldersFinite, FS_AddElement, Zenon
  <2>9. slots' \in 0..MaxRelays /\ slots' = MaxRelays - Cardinality(Holders')
    BY <1>3, <2>8, HoldersFinite, RelaysAssumption, SMT DEF RelInv
  <2> QED BY <2>5, <2>9, Zenon DEF RelInv, Earns
<1> QED BY <1>2, <1>3, Zenon DEF RelayAcquires

LEMMA RelayFinallyStep ==
  ASSUME RelInv, NEW r \in Relays, RelayFinally(r)
  PROVE  RelInv'
<1>1. NoRelay \in RelayStates /\ Earns(NoRelay) /\ ~NoRelay.slot
  BY NoRelayType, Zenon DEF Earns
<1>2. /\ relay' \in [Relays -> RelayStates]
      /\ \A q \in Relays : relay'[q] = IF q = r THEN NoRelay ELSE relay[q]
      /\ \A q \in Relays : Earns(relay'[q])
  BY <1>1, RelaySet, Zenon DEF RelayFinally
<1>3. CASE relay[r].slot
  <2>1. r \in Holders /\ Holders' = Holders \ {r} /\ slots' = slots + 1
    BY <1>1, <1>2, <1>3, Zenon DEF Holders, RelayFinally
  <2>2. Cardinality(Holders') = Cardinality(Holders) - 1 /\ Cardinality(Holders') \in Nat
    <3>1. IsFiniteSet(Holders')
      BY <2>1, HoldersFinite, FS_Subset, Zenon
    <3> QED BY <2>1, <3>1, HoldersFinite, FS_RemoveElement, FS_CardinalityType, Zenon
  <2>3. slots' \in 0..MaxRelays /\ slots' = MaxRelays - Cardinality(Holders')
    BY <2>1, <2>2, HoldersFinite, RelaysAssumption, SMT DEF RelInv
  <2> QED BY <1>2, <2>3, Zenon DEF RelInv, Earns
<1>4. CASE ~relay[r].slot
  <2>1. Holders' = Holders /\ slots' = slots
    BY <1>1, <1>2, <1>4, Zenon DEF Holders, RelayFinally
  <2> QED BY <1>2, <2>1, Zenon DEF RelInv, Earns
<1> QED BY <1>3, <1>4

(* Each step of a relay, and of the two ends it joins, preserves it.         *)
LEMMA RelStep == RelInv /\ [RelNext]_relVars => RelInv'
<1> SUFFICES ASSUME RelInv, [RelNext]_relVars PROVE RelInv'
  OBVIOUS
<1>1. CASE UNCHANGED relVars
  BY <1>1, Zenon DEF relVars, RelInv, Earns, Holders
<1>2. ASSUME NEW r \in Relays, NEW e \in Ends,
             \/ RelayStalls(r, e) \/ RelayResumes(r, e) \/ RelayGoesAway(r, e)
             \/ RelayReads(r, e) \/ RelayWrites(r, e) \/ RelayPumpEnds(r, e)
      PROVE  RelInv'
  BY <1>2, EndsStep, Zenon
<1>3. ASSUME NEW r \in Relays,
             RelayEnters(r) \/ RelayGreeted(r) \/ RelayTrusted(r) \/ RelayRejects(r) \/ RelayCloses(r)
      PROVE  RelInv'
  <2>1. PICK from \in RelayPcs, to \in RelayPcs :
          /\ Goes(r, from, to)
          /\ to \in {"idle", "acquire"} => from \in {"idle", "acquire"}
    <3>1. \/ Goes(r, "idle", "acquire") \/ Goes(r, "idle", "closing")
          \/ Goes(r, "hello", "auth") \/ Goes(r, "auth", "reply")
          \/ Goes(r, "hello", "closing") \/ Goes(r, "auth", "closing") \/ Goes(r, "reply", "closing")
          \/ Goes(r, "closing", "finally")
      BY <1>3, Zenon DEF RelayEnters, RelayGreeted, RelayTrusted, RelayRejects, RelayCloses
    <3> QED BY <3>1, SMT DEF RelayPcs
  <2>2. slots' = slots
    BY <1>3, Zenon DEF RelayEnters, RelayGreeted, RelayTrusted, RelayRejects, RelayCloses
  <2> QED BY <2>1, <2>2, RelayGoes, Zenon
<1>4. ASSUME NEW r \in Relays, RelayJoins(r) PROVE RelInv'
  <2>1. Goes(r, "pump", "finally") /\ slots' = slots
    BY <1>4, Zenon DEF RelayJoins, Goes, PumpIs, Ends
  <2> QED BY <2>1, RelayGoes, Zenon DEF RelayPcs
<1>5. ASSUME NEW r \in Relays, RelayAcquires(r) \/ RelayPumps(r) \/ RelayFinally(r) PROVE RelInv'
  BY <1>5, RelayAcquiresStep, RelayPumpsStep, RelayFinallyStep, Zenon
<1> QED BY <1>1, <1>2, <1>3, <1>4, <1>5, Zenon DEF RelNext

LEMMA RelInvTypes == RelInv => RelTypeOK
BY Zenon DEF RelInv, RelTypeOK, RelayStates, RelayPcs, Holders

(* Every relay gives back the slot it took, on every way out of it, and no   *)
(* more than it took (supervisor_ws.py relay, _active).                      *)
THEOREM SlotsAreCounted == RelSpec => []RelTypeOK
<1>1. RelInit => RelInv
  BY RelInitially
<1>2. RelInv /\ [RelNext]_relVars => RelInv'
  BY RelStep
<1>3. RelInv => RelTypeOK
  BY RelInvTypes
<1> QED BY <1>1, <1>2, <1>3, PTL DEF RelSpec

-----------------------------------------------------------------------------
(* The listener keeps its types.                                             *)
LEMMA LisInitially == LisInit => LisTypeOK
<1> SUFFICES ASSUME LisInit PROVE LisTypeOK
  OBVIOUS
<1>1. disturbances \in 0..MaxDisturbances
  BY ListenerAssumption, SMT DEF LisInit
<1>2. shown \in [listening : BOOLEAN, redirect : BOOLEAN]
  BY Zenon DEF LisInit
<1> QED BY <1>1, <1>2, Zenon DEF LisInit, LisTypeOK

(* Each step of the listener keeps them.                                     *)
LEMMA LisStep == LisTypeOK /\ [LisNext]_lisVars => LisTypeOK'
<1> SUFFICES ASSUME LisTypeOK, [LisNext]_lisVars PROVE LisTypeOK'
  OBVIOUS
<1>1. \A n \in 0..MaxDisturbances : n < MaxDisturbances => n + 1 \in 0..MaxDisturbances
  BY ListenerAssumption, SMT
<1>2. Disturbs => disturbances' \in 0..MaxDisturbances
  BY <1>1, Zenon DEF Disturbs, LisTypeOK
<1>3. CASE UNCHANGED lisVars
  BY <1>3, Zenon DEF lisVars, LisTypeOK
<1>4. CASE BridgeGoes
  BY <1>2, <1>4, Zenon DEF BridgeGoes, LisTypeOK
<1>5. CASE BridgeComes
  BY <1>5, Zenon DEF BridgeComes, LisTypeOK
<1>6. CASE PortTaken
  BY <1>2, <1>6, Zenon DEF PortTaken, LisTypeOK
<1>7. CASE PortFreed
  BY <1>7, Zenon DEF PortFreed, LisTypeOK
<1>8. CASE FirewallReloads
  BY <1>2, <1>8, Zenon DEF FirewallReloads, LisTypeOK
<1>9. CASE Binds
  BY <1>9, Zenon DEF Binds, LisTypeOK
<1>10. CASE Probes
  BY <1>10, Zenon DEF Probes, LisTypeOK, RULES
<1>11. CASE Reports
  <2>1. shown' \in [listening : BOOLEAN, redirect : BOOLEAN]
    BY <1>11, Zenon DEF Reports
  <2> QED BY <1>11, <2>1, Zenon DEF Reports, LisTypeOK
<1>12. ASSUME NEW rule \in RULES, Redirects(rule) PROVE LisTypeOK'
  <2>1. lpc' \in {"OUTPUT", "report redirect"} /\ rules' \subseteq RULES
    BY <1>12, Zenon DEF Redirects, LisTypeOK
  <2> QED BY <1>12, <2>1, Zenon DEF Redirects, LisTypeOK, RULES
<1>13. ASSUME NEW rule \in RULES, RedirectFails(rule) PROVE LisTypeOK'
  BY <1>2, <1>13, Zenon DEF RedirectFails, LisTypeOK
<1> QED BY <1>3, <1>4, <1>5, <1>6, <1>7, <1>8, <1>9, <1>10, <1>11, <1>12, <1>13, Zenon DEF LisNext

-----------------------------------------------------------------------------
(* The three parts together, which share no state.  A step of the instance   *)
(* is a step of one part and leaves the others as they are.                  *)
LEMMA OnePartMoves ==
  ASSUME MCNext
  PROVE  [IngNext]_ingVars /\ [RelNext]_relVars /\ [LisNext]_lisVars
<1>1. CASE IngressMoves
  <2>1. IngNext
    BY <1>1, Zenon DEF IngressMoves, IngressStep, IngNext
  <2>2. UNCHANGED relVars /\ UNCHANGED lisVars
    BY <1>1, Zenon DEF IngressMoves, IngressStep
  <2> QED BY <2>1, <2>2, Zenon
<1>2. CASE RelaysMoves
  <2>1. RelNext
    BY <1>2, Zenon DEF RelaysMoves, RelaysStep, RelNext
  <2>2. UNCHANGED ingVars /\ UNCHANGED lisVars
    BY <1>2, Zenon DEF RelaysMoves, RelaysStep
  <2> QED BY <2>1, <2>2, Zenon
<1>3. CASE ListenerMoves
  <2>1. LisNext
    BY <1>3, Zenon DEF ListenerMoves, ListenerStep, LisNext
  <2>2. UNCHANGED ingVars /\ UNCHANGED relVars
    BY <1>3, Zenon DEF ListenerMoves, ListenerStep
  <2> QED BY <2>1, <2>2, Zenon
<1> QED BY <1>1, <1>2, <1>3, Zenon DEF MCNext

(* So a behaviour of the instance is one of every part.                      *)
LEMMA EachPart ==
  MCSpec => /\ IngInit /\ [][IngNext]_ingVars
            /\ RelInit /\ [][RelNext]_relVars
            /\ LisInit /\ [][LisNext]_lisVars
<1>1. MCInit => IngInit /\ RelInit /\ LisInit
  BY Zenon DEF MCInit
<1>2. [MCNext]_vars => [IngNext]_ingVars /\ [RelNext]_relVars /\ [LisNext]_lisVars
  BY OnePartMoves, Zenon DEF vars
<1> QED BY <1>1, <1>2, PTL DEF MCSpec

(* The counts of WebSockets and of slots agree with what is connected        *)
(* whatever the handlers, the relays and the host do: each handler and each  *)
(* relay gives back what it took on every way out; and what a connection     *)
(* holds is what its login renews.                                           *)
THEOREM ConnectionsAreSafe == MCSpec => [](ConnectionsTypeOK /\ UsedIsRenewed)
<1>1. IngInv => IngTypeOK
  BY DEF IngInv
<1>2. RelInv => RelTypeOK
  BY RelInvTypes
<1>3. IngInit /\ [][IngNext]_ingVars => [](IngTypeOK /\ UsedIsRenewed)
  BY <1>1, IngRenews, IngInitially, IngStep, PTL
<1>4. RelInit /\ [][RelNext]_relVars => []RelTypeOK
  BY <1>2, RelInitially, RelStep, PTL
<1>5. LisInit /\ [][LisNext]_lisVars => []LisTypeOK
  BY LisInitially, LisStep, PTL
<1>6. IngTypeOK /\ RelTypeOK /\ LisTypeOK => ConnectionsTypeOK
  BY DEF ConnectionsTypeOK
<1> QED BY EachPart, <1>3, <1>4, <1>5, <1>6, PTL
==============================================================================
