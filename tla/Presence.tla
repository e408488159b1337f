------------------------------ MODULE Presence ------------------------------
(* Who is in front of the camera: the debouncing of opiha/vision.py          *)
(* (Presence, run_vision) and what opiha/status.py makes of the file it      *)
(* writes.  A tick is the time between two frames that are looked at;        *)
(* between two ticks the service may die, and the stream may end.            *)
EXTENDS Integers, FiniteSets

CONSTANTS Hold,      \* hold_seconds, in ticks
          Hits,      \* hit_count
          MaxAge,    \* 15 seconds, in ticks
          MaxTime    \* bound: ticks

ASSUME PresenceAssumption ==
  Hold \in Nat /\ Hits \in Nat \ {0} /\ MaxAge \in Nat /\ MaxTime \in Nat

VARIABLES
  now,     \* ticks
  vpc,     \* the service: down, without a stream, or with one
  streak, lastSeen,  \* Presence; lastSeen is Never without one
  file,    \* vision.json
  seen     \* history: the ticks of this stream's frames that showed a person
           \* and were looked at, and the ticks of all frames that were

preVars == <<now, vpc, streak, lastSeen, file, seen>>

Never == -1
NoFrames == [hits |-> {}, all |-> {}]
Unavailable(t) == [timestamp |-> t, available |-> FALSE, person |-> FALSE]

PreInit ==
  /\ now = 0 /\ vpc = "down" /\ streak = 0 /\ lastSeen = Never
  /\ file = [timestamp |-> Never, available |-> FALSE, person |-> FALSE] /\ seen = NoFrames

Ticks ==
  /\ now < MaxTime /\ now' = now + 1
  /\ UNCHANGED <<vpc, streak, lastSeen, file, seen>>

(* run_vision starts, or starts again after a crash, with a new Presence.    *)
VisionStarts ==
  /\ vpc = "down" /\ vpc' = "opening"
  /\ streak' = 0 /\ lastSeen' = Never /\ seen' = NoFrames
  /\ file' = Unavailable(now) /\ UNCHANGED now

VisionOpens ==
  /\ vpc = "opening" /\ vpc' = "streams"
  /\ UNCHANGED <<now, streak, lastSeen, file, seen>>

(* Mutation: a frame without a person leaves the streak as it is             *)
CountsAll(detected) ==
  LET newStreak == IF detected THEN streak + 1 ELSE streak
      newSeen == IF newStreak >= Hits THEN now ELSE lastSeen
  IN /\ vpc = "streams" /\ now \notin seen.all
     /\ streak' = newStreak /\ lastSeen' = newSeen
     /\ file' = [timestamp |-> now, available |-> TRUE,
                 person |-> newSeen # Never /\ now - newSeen <= Hold]
     /\ seen' = [hits |-> IF detected THEN seen.hits \cup {now} ELSE seen.hits,
                 all |-> seen.all \cup {now}]
     /\ UNCHANGED <<now, vpc>>

Looks(detected) ==
  LET newStreak == IF detected THEN streak + 1 ELSE 0
      newSeen == IF newStreak >= Hits THEN now ELSE lastSeen
  IN /\ vpc = "streams" /\ now \notin seen.all
     /\ streak' = newStreak /\ lastSeen' = newSeen
     /\ file' = [timestamp |-> now, available |-> TRUE,
                 person |-> newSeen # Never /\ now - newSeen <= Hold]
     /\ seen' = [hits |-> IF detected THEN seen.hits \cup {now} ELSE seen.hits,
                 all |-> seen.all \cup {now}]
     /\ UNCHANGED <<now, vpc>>

(* The finally clause: the stream cannot be opened or ends.                  *)
StreamEnds ==
  /\ vpc \in {"opening", "streams"} /\ vpc' = "opening"
  /\ streak' = 0 /\ lastSeen' = Never /\ seen' = NoFrames
  /\ file' = Unavailable(now) /\ UNCHANGED now

(* The service is killed; the file stays.                                    *)
VisionDies ==
  /\ vpc # "down" /\ vpc' = "down"
  /\ UNCHANGED <<now, streak, lastSeen, file, seen>>

PreNext ==
  \/ Ticks \/ VisionStarts \/ VisionOpens \/ StreamEnds \/ VisionDies
  \/ \E detected \in BOOLEAN : Looks(detected)

PreSpec == PreInit /\ [][PreNext]_preVars

(* vision_status: what the appliance reports.                                *)
Status ==
  LET age == now - file.timestamp
      available == file.available /\ 0 <= age /\ age < MaxAge
  IN [available |-> available, person |-> available /\ file.person]

-----------------------------------------------------------------------------
PreTypeOK ==
  /\ now \in 0..MaxTime /\ vpc \in {"down", "opening", "streams"}
  /\ streak \in Nat /\ lastSeen \in Never..MaxTime
  /\ file \in [timestamp : Never..MaxTime, available : BOOLEAN, person : BOOLEAN]

(* The frames at hand before a tick, newest first, that all show a person.   *)
InARow(t) ==
  \E n \in 0..t : LET row == {u \in seen.all : n <= u /\ u <= t} IN
    Cardinality(row) = Hits /\ row \subseteq seen.hits /\ t \in row

(* A person is reported only while a stream of now has shown one in as many  *)
(* frames running as are asked for, not longer ago than a person is held and *)
(* an old report counts: not from a stream that ended, not from before a     *)
(* crash for longer than that, not from two frames with an empty one between.*)
PresenceMeansSeen ==
  Status.person => \E t \in seen.hits : InARow(t) /\ now - t < Hold + MaxAge
=============================================================================
