------------------------------- MODULE Strip --------------------------------
(* The touch strip of the kiosk (scripts/kiosk-controls.py with              *)
(* opiha/kiosk_controls.py): a tap on its handle opens and closes it, a drag *)
(* moves it, and a timer closes it.  Only the horizontal axis is modelled;   *)
(* the place of the window is a function of the state, as place() is called  *)
(* after every change of it.                                                 *)
EXTENDS Integers

CONSTANTS Screens,    \* widths of a screen
          Collapsed,  \* width of the closed strip
          Width,      \* width of the open strip
          MaxSaved    \* bound: positions in the file

ASSUME StripAssumption ==
  /\ Screens \subseteq Nat /\ Collapsed \in Nat \ {0} /\ Width \in Nat
  /\ \A s \in Screens : Collapsed <= s
  /\ Collapsed < Width /\ MaxSaved \in Nat

VARIABLES
  screen,   \* the screen's width
  open,     \* the buttons are shown
  drag,     \* the touch on the handle
  pos,      \* self.pos: where the handle belongs
  timer,    \* self.timer is that of a live timer
  orphans   \* live timers that self.timer no longer tells

strVars == <<screen, open, drag, pos, timer, orphans>>

Smaller(a, b) == IF a < b THEN a ELSE b
Larger(a, b) == IF a > b THEN a ELSE b
Clamp(x, w) == Larger(0, Smaller(x, Larger(0, screen - w)))

(* A position that was saved, perhaps on another screen, or the centre.      *)
StrInit ==
  /\ screen \in Screens
  /\ open = FALSE /\ drag = "none"
  /\ pos \in (-1..MaxSaved) \cup {(screen - Collapsed) \div 2}
  /\ timer = FALSE /\ orphans = 0

-----------------------------------------------------------------------------
(* GLib.timeout_add_seconds, source_remove if there is one.                  *)
AddTimer == timer' = TRUE /\ orphans' = IF timer THEN orphans + 1 ELSE orphans
RemoveTimer == timer' = FALSE /\ UNCHANGED orphans

(* A second press, of another finger, starts the drag anew.                  *)
StripPressed ==
  /\ drag' = "still"
  /\ UNCHANGED <<screen, open, pos, timer, orphans>>

(* Mutation: the timer goes on while the strip is dragged                    *)
MovesUnderTimer ==
  /\ drag # "none" /\ drag' = "moved"
  /\ \E x \in -1..MaxSaved : pos' = Clamp(x, Collapsed)
  /\ UNCHANGED <<screen, open, timer, orphans>>

StripMoved ==
  /\ drag # "none" /\ drag' = "moved"
  /\ \E x \in -1..MaxSaved : pos' = Clamp(x, Collapsed)
  /\ IF drag = "still" THEN RemoveTimer ELSE UNCHANGED <<timer, orphans>>
  /\ UNCHANGED <<screen, open>>

(* After a drag the position is saved and an open strip gets a new timer; a  *)
(* tap closes or opens it.                                                   *)
StripDropped ==
  /\ drag = "moved" /\ drag' = "none"
  /\ IF open THEN AddTimer ELSE UNCHANGED <<timer, orphans>>
  /\ UNCHANGED <<screen, open, pos>>

StripTapped ==
  /\ drag = "still" /\ drag' = "none"
  /\ open' = ~open /\ timer' = ~open /\ UNCHANGED orphans
  /\ UNCHANGED <<screen, pos>>

(* A button: the strip closes; its timer stays.                              *)
StripAction ==
  /\ open /\ open' = FALSE
  /\ UNCHANGED <<screen, drag, pos, timer, orphans>>

(* auto_collapse; of a timer that self.timer does not tell there is none.    *)
TimerFires ==
  /\ timer /\ timer' = FALSE /\ open' = FALSE
  /\ UNCHANGED <<screen, drag, pos, orphans>>

-----------------------------------------------------------------------------
(* Where the window is: it grows away from the nearer edge, or to the other  *)
(* side if that alone has room, and is then kept on the screen.              *)
LeftEdge == pos
RightEdge == pos + Collapsed - Width

(* Mutation: it grows towards the nearer edge                                *)
TowardsEdge == 2 * pos + Collapsed <= screen

GrowsLeft ==
  IF 2 * pos + Collapsed > screen
    THEN ~(RightEdge < 0 /\ LeftEdge + Width <= screen)
    ELSE LeftEdge + Width > screen /\ RightEdge >= 0

Window == IF ~open THEN Clamp(pos, Collapsed)
          ELSE Clamp(IF GrowsLeft THEN RightEdge ELSE LeftEdge, Width)

Handle == IF open /\ GrowsLeft THEN Window + Width - Collapsed ELSE Window

-----------------------------------------------------------------------------
StrNext ==
  \/ StripPressed \/ StripMoved \/ StripDropped \/ StripTapped
  \/ StripAction \/ TimerFires

StrSpec == StrInit /\ [][StrNext]_strVars

-----------------------------------------------------------------------------
StrTypeOK ==
  /\ screen \in Screens /\ open \in BOOLEAN /\ drag \in {"none", "still", "moved"}
  /\ pos \in Int /\ timer \in BOOLEAN /\ orphans \in Nat

(* An open strip that is not touched has a timer that will close it, and     *)
(* there is never a second one that could close it under the next finger.    *)
OneTimer == orphans = 0 /\ (open /\ drag = "none" => timer)

(* "Keep the handle under the finger": wherever the strip was dragged, it    *)
(* opens without the handle leaving its place if it has room on any side,    *)
(* and never beyond the screen if it fits there at all.                      *)
HandleStays ==
  /\ (pos >= 0 /\ pos + Width <= screen) \/ (RightEdge >= 0 /\ pos + Collapsed <= screen)
       => Handle = pos
  /\ open /\ Width <= screen => Window >= 0 /\ Window + Width <= screen
=============================================================================
