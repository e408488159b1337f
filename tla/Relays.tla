------------------------------- MODULE Relays -------------------------------
(* WebSocket relays between add-ons and Home Assistant (relay of             *)
(* opiha_apps/supervisor_ws.py, called by Shim.websocket).  A relay has one  *)
(* of a few slots for as long as it works: it connects, lets the add-on and  *)
(* then itself be authenticated, and moves frames with one thread for each   *)
(* direction until both have ended.                                          *)
EXTENDS Integers, FiniteSets

CONSTANTS Relays,    \* threads of the shim that serve an upgrade
          MaxRelays  \* MAX_RELAYS

ASSUME RelaysAssumption == MaxRelays \in Nat /\ IsFiniteSet(Relays)

VARIABLES
  relay,  \* each thread: its next step, whether it has a slot, its two ends
          \* and the two pumps
  slots   \* _active

relVars == <<relay, slots>>

Ends == {"client", "ha"}
Other(e) == IF e = "client" THEN "ha" ELSE "client"

(* An end takes what it is sent, leaves it in the socket, or has gone.       *)
(* pump[e] moves what e sends to the other end.                              *)
NoRelay == [pc |-> "idle", slot |-> FALSE, end |-> [e \in Ends |-> "takes"],
            pump |-> [e \in Ends |-> "ended"], shut |-> FALSE]

RelInit == relay = [r \in Relays |-> NoRelay] /\ slots = MaxRelays

Goes(r, from, to) == relay[r].pc = from /\ relay' = [relay EXCEPT ![r].pc = to]

-----------------------------------------------------------------------------
(* The ends.                                                                 *)

RelayStalls(r, e) ==
  /\ relay[r].pc # "idle" /\ relay[r].end[e] = "takes"
  /\ relay' = [relay EXCEPT ![r].end[e] = "stalls"]
  /\ UNCHANGED slots

RelayResumes(r, e) ==
  /\ relay[r].end[e] = "stalls"
  /\ relay' = [relay EXCEPT ![r].end[e] = "takes"]
  /\ UNCHANGED slots

RelayGoesAway(r, e) ==
  /\ relay[r].pc # "idle" /\ relay[r].end[e] # "gone"
  /\ relay' = [relay EXCEPT ![r].end[e] = "gone"]
  /\ UNCHANGED slots

-----------------------------------------------------------------------------
(* An upgrade; without a Home Assistant token it is answered without a slot. *)
RelayEnters(r) ==
  /\ \/ Goes(r, "idle", "acquire")
     \/ Goes(r, "idle", "closing")
  /\ UNCHANGED slots

RelayAcquires(r) ==
  \/ /\ slots > 0 /\ slots' = slots - 1 /\ relay[r].pc = "acquire"
     /\ relay' = [relay EXCEPT ![r].pc = "hello", ![r].slot = TRUE]
  \/ slots = 0 /\ Goes(r, "acquire", "closing") /\ UNCHANGED slots

(* Connected (within ten seconds) and greeted by Home Assistant; the add-on  *)
(* is asked for its token.                                                   *)
RelayGreeted(r) == Goes(r, "hello", "auth") /\ UNCHANGED slots

(* The token of an add-on that may use the API; then ours for Home Assistant *)
RelayTrusted(r) == Goes(r, "auth", "reply") /\ UNCHANGED slots

RelayPumps(r) ==
  /\ relay[r].pc = "reply"
  /\ relay' = [relay EXCEPT ![r].pc = "pump", ![r].pump = [e \in Ends |-> "reads"]]
  /\ UNCHANGED slots

(* Refused, too late, an end that has gone, a frame out of place: whatever   *)
(* it is, the add-on is told and given a moment.                             *)
RelayRejects(r) ==
  /\ \/ Goes(r, "hello", "closing") \/ Goes(r, "auth", "closing") \/ Goes(r, "reply", "closing")
  /\ UNCHANGED slots

-----------------------------------------------------------------------------
(* The pumps.                                                                *)

PumpIs(r, e, state) == relay[r].pc = "pump" /\ relay[r].pump[e] = state

RelayReads(r, e) ==
  /\ PumpIs(r, e, "reads") /\ ~relay[r].shut /\ relay[r].end[e] # "gone"
  /\ relay' = [relay EXCEPT ![r].pump[e] = "writes"]
  /\ UNCHANGED slots

RelayWrites(r, e) ==
  /\ PumpIs(r, e, "writes") /\ ~relay[r].shut /\ relay[r].end[Other(e)] = "takes"
  /\ relay' = [relay EXCEPT ![r].pump[e] = "reads"]
  /\ UNCHANGED slots

(* Mutation: a pump that ends leaves the sockets as they are                 *)
EndsQuietly(r, e) ==
  /\ \/ PumpIs(r, e, "reads") /\ (relay[r].shut \/ relay[r].end[e] = "gone")
     \/ PumpIs(r, e, "writes") /\ (relay[r].shut \/ relay[r].end[Other(e)] # "stalls")
  /\ relay' = [relay EXCEPT ![r].pump[e] = "ended"]
  /\ UNCHANGED slots

(* A close frame was moved, or an end has gone: both sockets are shut, which *)
(* wakes the other pump in whatever call it is.                              *)
RelayPumpEnds(r, e) ==
  /\ \/ PumpIs(r, e, "reads") /\ (relay[r].shut \/ relay[r].end[e] = "gone")
     \/ PumpIs(r, e, "writes") /\ (relay[r].shut \/ relay[r].end[Other(e)] # "stalls")
  /\ relay' = [relay EXCEPT ![r].pump[e] = "ended", ![r].shut = TRUE]
  /\ UNCHANGED slots

RelayJoins(r) ==
  /\ \A e \in Ends : PumpIs(r, e, "ended")
  /\ relay' = [relay EXCEPT ![r].pc = "finally"]
  /\ UNCHANGED slots

-----------------------------------------------------------------------------
(* close_politely: until the add-on closes or is silent for two seconds.     *)
RelayCloses(r) == Goes(r, "closing", "finally") /\ UNCHANGED slots

RelayFinally(r) ==
  /\ relay[r].pc = "finally"
  /\ slots' = IF relay[r].slot THEN slots + 1 ELSE slots
  /\ relay' = [relay EXCEPT ![r] = NoRelay]

-----------------------------------------------------------------------------
RelNext ==
  \E r \in Relays :
    \/ \E e \in Ends : \/ RelayStalls(r, e) \/ RelayResumes(r, e) \/ RelayGoesAway(r, e)
                       \/ RelayReads(r, e) \/ RelayWrites(r, e) \/ RelayPumpEnds(r, e)
    \/ RelayEnters(r) \/ RelayAcquires(r) \/ RelayGreeted(r) \/ RelayTrusted(r)
    \/ RelayPumps(r) \/ RelayRejects(r) \/ RelayJoins(r) \/ RelayCloses(r) \/ RelayFinally(r)

RelayWorks(r) ==
  \/ RelayAcquires(r) \/ RelayGreeted(r) \/ RelayTrusted(r) \/ RelayPumps(r)
  \/ RelayRejects(r) \/ RelayJoins(r) \/ RelayCloses(r) \/ RelayFinally(r)

(* Threads run; Home Assistant answers or goes; an add-on that was told to   *)
(* go stops sending.  An end that takes nothing takes something again or     *)
(* goes, and what waits for it to be sent is sent: the relay sets no limit.   *)
RelFairness ==
  \A r \in Relays :
    /\ WF_relVars(RelayWorks(r))
    /\ \A e \in Ends :
         /\ SF_relVars(RelayWrites(r, e) \/ RelayPumpEnds(r, e))
         /\ WF_relVars(RelayResumes(r, e))

RelSpec == RelInit /\ [][RelNext]_relVars /\ RelFairness

-----------------------------------------------------------------------------
RelTypeOK ==
  /\ relay \in [Relays ->
       [pc : {"idle", "acquire", "hello", "auth", "reply", "pump", "closing", "finally"},
        slot : BOOLEAN, end : [Ends -> {"takes", "stalls", "gone"}],
        pump : [Ends -> {"reads", "writes", "ended"}], shut : BOOLEAN]]
  /\ slots \in 0..MaxRelays
  /\ slots = MaxRelays - Cardinality({r \in Relays : relay[r].slot})

(* When an end goes, in any state of the two pumps, or authentication does   *)
(* not come about, the slot comes back.                                      *)
RelayFrees ==
  \A r \in Relays :
    (\/ relay[r].pc = "closing"
     \/ relay[r].pc = "pump" /\ \E e \in Ends : relay[r].end[e] = "gone") ~> ~relay[r].slot
=============================================================================
