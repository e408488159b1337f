----------------------------- MODULE Terminals -----------------------------
(* The host terminals of the Orange Pi panel (opiha_apps/hostctl.py:         *)
(* Terminal, term_open, term_io, term_close, reap) and one browser tab that  *)
(* polls them (custom_components/opiha_apps/terminal.js).                    *)
(*                                                                           *)
(* A terminal is a process on a pty, a pump thread that moves what it prints *)
(* into a bounded ring, and an entry of the host's table.  The tab keeps one *)
(* read of its session in flight beside its writes; every answer carries     *)
(* output, and answers overtake each other.  Each request has a thread of    *)
(* its own in the server.  Output is known by its position in the ring.      *)
(*                                                                           *)
(* The terminal of the tab's session is modelled in full.  Others (of other  *)
(* tabs, and sessions this tab has lost sight of) count towards the limit of *)
(* three and are reaped, so that opening one may be refused or not.          *)
EXTENDS Integers, Sequences

CONSTANTS Threads,     \* requests of the tab that may be under way at once
          MaxOut,      \* bound: positions in a ring
          Buffer,      \* Terminal.BUFFER
          MaxFailures  \* reads in a row that may fail (5 in the code)

ASSUME TerminalsAssumption ==
  /\ MaxOut \in Nat /\ MaxFailures \in Nat
  /\ Buffer \in Nat \ {0}

VARIABLES
  mine,      \* the terminal of the tab's session
  thr,       \* the request each thread works on
  tab        \* the browser tab

termVars == <<mine, thr, tab>>

(* listed: in the table; life: the process runs, is gone, or the pump has    *)
(* noticed (self.exited); start and end: the positions self.data holds.      *)
Terminal == [listed : BOOLEAN, life : {"runs", "gone", "ended"},
             start : 0..MaxOut, end : 0..MaxOut]

NoTerminal == [listed |-> FALSE, life |-> "ended", start |-> 0, end |-> 0]

(* mine of a request: it is about the session the tab has now.               *)
Asleep == [pc |-> "idle", op |-> "none", mine |-> FALSE, cursor |-> 0,
         from |-> 0, end |-> 0, exited |-> FALSE, error |-> FALSE]

TermInit ==
  /\ mine = NoTerminal
  /\ thr = [h \in Threads |-> Asleep]
  /\ tab = [sid |-> FALSE, cursor |-> 0, running |-> FALSE, here |-> TRUE,
            failures |-> 0, screen |-> <<>>, ended |-> FALSE]

-----------------------------------------------------------------------------
(* The process and its pump.                                                 *)

(* A chunk comes through the pty; the ring drops what is beyond Buffer.      *)
PumpReads ==
  /\ mine.life # "ended" /\ mine.end < MaxOut
  /\ mine' = [mine EXCEPT !.end = @ + 1,
                !.start = IF mine.end + 1 - @ > Buffer THEN @ + 1 ELSE @]
  /\ UNCHANGED <<thr, tab>>

ShellExits ==
  /\ mine.life = "runs"
  /\ mine' = [mine EXCEPT !.life = "gone"]
  /\ UNCHANGED <<thr, tab>>

(* read fails, or nothing is ready and the process has ended: self.exited.   *)
PumpEnds ==
  /\ mine.life = "gone"
  /\ mine' = [mine EXCEPT !.life = "ended"]
  /\ UNCHANGED <<thr, tab>>

-----------------------------------------------------------------------------
(* Requests, each in a thread of the server.                                 *)

(* Terminal.close; the pump and requests that looked it up before go on.     *)
MineCloses == [mine EXCEPT !.listed = FALSE,
                           !.life = IF @ = "runs" THEN "gone" ELSE @]

(* reap, first thing in term_open and term_io and nowhere else: entries not  *)
(* read for a minute leave the table and are closed.  Any entry may be that  *)
(* old, the tab's own included: nothing makes a browser poll in time.        *)
Reap(mineStale) ==
  /\ mineStale => mine.listed
  /\ mine' = IF mineStale THEN MineCloses ELSE mine

Refuses(h) == thr' = [thr EXCEPT ![h].pc = "answered", ![h].cursor = 0, ![h].error = TRUE]

TermCloses(h) ==
  /\ thr[h].pc = "arrived" /\ thr[h].op = "close"
  /\ mine' = IF thr[h].mine THEN MineCloses ELSE mine
  /\ thr' = [thr EXCEPT ![h].pc = "answered", ![h].mine = FALSE]
  /\ UNCHANGED tab

(* term_open: refused when three are open or the terminal cannot be made.    *)
TermOpens(h) ==
  /\ thr[h].pc = "arrived" /\ thr[h].op = "open"
  /\ \E mineStale \in BOOLEAN : Reap(mineStale)
  /\ \/ thr' = [thr EXCEPT ![h].pc = "answered"]
     \/ Refuses(h)
  /\ UNCHANGED tab

(* Mutation: a session that is not in the table has nothing new              *)
Forgives(h) ==
  /\ thr[h].pc = "arrived" /\ thr[h].op \in {"read", "write"}
  /\ \E mineStale \in BOOLEAN : Reap(mineStale)
  /\ thr' = IF thr[h].mine /\ mine'.listed THEN [thr EXCEPT ![h].pc = "io"]
            ELSE [thr EXCEPT ![h].pc = "answered", ![h].cursor = 0]
  /\ UNCHANGED tab

(* _terminal: the entry, or "That terminal session has ended".  The answer   *)
(* for a session the tab no longer has matters only if it is that error.     *)
LooksUp(h) ==
  /\ thr[h].pc = "arrived" /\ thr[h].op \in {"read", "write"}
  /\ \E mineStale \in BOOLEAN : Reap(mineStale)
  /\ CASE thr[h].mine /\ mine'.listed -> thr' = [thr EXCEPT ![h].pc = "io"]
       [] thr[h].mine /\ ~mine'.listed -> Refuses(h)
       [] ~thr[h].mine -> \/ Refuses(h)
                          \/ thr' = [thr EXCEPT ![h].pc = "answered"]
  /\ UNCHANGED tab

(* term.write may fail once the process is gone or the terminal was closed.  *)
WriteFails(h) ==
  /\ thr[h].pc = "io" /\ thr[h].op = "write" /\ mine.life = "gone"
  /\ Refuses(h)
  /\ UNCHANGED <<mine, tab>>

(* term.read: at once when there is something new, else when the pump says   *)
(* so or the wait is over; either way what the ring has now from the cursor. *)
Reads(h) ==
  LET from == IF thr[h].cursor > mine.start THEN thr[h].cursor ELSE mine.start IN
  /\ thr[h].pc = "io"
  /\ thr' = [thr EXCEPT ![h].pc = "answered", ![h].cursor = 0,
                        ![h].from = from, ![h].end = mine.end,
                        ![h].exited = mine.life = "ended" /\ from >= mine.end]
  /\ UNCHANGED <<mine, tab>>

-----------------------------------------------------------------------------
(* The tab.                                                                  *)

Polling == tab.here /\ tab.running /\ tab.sid

Request(op) == [Asleep EXCEPT !.pc = "arrived", !.op = op, !.mine = op # "open",
                            !.cursor = IF op \in {"read", "write"} THEN tab.cursor ELSE 0]

(* The tab loses sight of its session: requests under way are about another. *)
Disowned(h) ==
  IF thr[h].mine
    THEN [Asleep EXCEPT !.op = thr[h].op, !.error = thr[h].error,
                      !.pc = IF thr[h].pc = "io" THEN "answered" ELSE thr[h].pc]
    ELSE thr[h]

(* start: polling stops and the old session is closed, ...  Nothing keeps    *)
(* out a second click while the first still waits for its answers.           *)
NewSession(h) ==
  /\ tab.here /\ tab.sid /\ thr[h].pc = "idle"
  /\ tab' = [tab EXCEPT !.running = FALSE]
  /\ thr' = [thr EXCEPT ![h] = Request("close")]
  /\ UNCHANGED mine

(* ... then (or if there is none, or closing failed) a new one is asked for. *)
AsksForSession(h) ==
  /\ tab.here
  /\ \/ ~tab.sid /\ thr[h].pc = "idle"
     \/ thr[h].pc = "answered" /\ thr[h].op = "close"
  /\ tab' = [tab EXCEPT !.sid = FALSE, !.running = FALSE, !.cursor = 0,
                        !.screen = <<>>, !.ended = FALSE]
  /\ mine' = NoTerminal
  /\ thr' = [g \in Threads |-> IF g = h THEN Request("open") ELSE Disowned(g)]

(* The new session, which may have printed, ended or been reaped since.      *)
SessionOpened(h) ==
  /\ thr[h].pc = "answered" /\ thr[h].op = "open" /\ ~thr[h].error
  /\ tab' = [tab EXCEPT !.sid = TRUE, !.running = TRUE, !.failures = 0, !.ended = FALSE]
  /\ mine' \in {t \in Terminal : /\ t.start = (IF t.end > Buffer THEN t.end - Buffer ELSE 0)
                                 /\ t.life = "runs" => t.listed}
  /\ thr' = [g \in Threads |-> IF g = h THEN Asleep ELSE Disowned(g)]

SessionRefused(h) ==
  /\ thr[h].pc = "answered" /\ thr[h].op = "open" /\ thr[h].error
  /\ thr' = [thr EXCEPT ![h] = Asleep]
  /\ UNCHANGED <<mine, tab>>

NoneUnderWay(op) == \A g \in Threads : ~(thr[g].mine /\ thr[g].op = op)

(* poll: one read at a time.  send: a chain of writes beside it.             *)
Polls(h) ==
  /\ Polling /\ thr[h].pc = "idle" /\ NoneUnderWay("read")
  /\ thr' = [thr EXCEPT ![h] = Request("read")]
  /\ UNCHANGED <<mine, tab>>

Types(h) ==
  /\ tab.here /\ tab.sid /\ thr[h].pc = "idle" /\ NoneUnderWay("write")
  /\ thr' = [thr EXCEPT ![h] = Request("write")]
  /\ UNCHANGED <<mine, tab>>

(* Mutation: an answer is shown from where it starts                         *)
AppliesAll(r) ==
  [tab EXCEPT !.screen = @ \o [k \in 1..(r.end - r.from) |-> r.from + k - 1],
              !.cursor = IF r.end > @ THEN r.end ELSE @,
              !.running = @ /\ ~r.exited, !.ended = @ \/ (r.exited /\ tab.running)]

(* apply: what is new in an answer of this session goes to the screen.       *)
Applied(r) ==
  LET from == IF tab.cursor > r.from THEN tab.cursor ELSE r.from
      news == IF r.end > from THEN [k \in 1..(r.end - from) |-> from + k - 1] ELSE <<>>
      ends == r.exited /\ tab.running
  IN [tab EXCEPT !.screen = @ \o news,
                 !.cursor = IF r.end > @ THEN r.end ELSE @,
                 !.running = @ /\ ~ends,
                 !.ended = @ \/ ends,
                 !.failures = IF r.op = "read" THEN 0 ELSE @]

IsIo(h) == thr[h].pc = "answered" /\ thr[h].op \in {"read", "write"}

IoAnswered(h) ==
  /\ IsIo(h) /\ ~thr[h].error
  /\ tab' = IF thr[h].mine THEN Applied(thr[h]) ELSE tab
  /\ thr' = [thr EXCEPT ![h] = Asleep]
  /\ UNCHANGED mine

(* A failed write is ignored.  "That terminal session has ended" in answer   *)
(* to a read stops the tab, whichever session it polls by now.               *)
IoRefused(h) ==
  /\ IsIo(h) /\ thr[h].error
  /\ tab' = IF thr[h].op = "read" THEN [tab EXCEPT !.running = FALSE] ELSE tab
  /\ thr' = [thr EXCEPT ![h] = Asleep]
  /\ UNCHANGED mine

(* The answer to a read is lost: try again, but not for ever.                *)
ReadLost(h) ==
  /\ IsIo(h) /\ thr[h].op = "read" /\ thr[h].mine
  /\ tab' = IF tab.failures < MaxFailures THEN [tab EXCEPT !.failures = @ + 1]
            ELSE [tab EXCEPT !.running = FALSE]
  /\ thr' = [thr EXCEPT ![h] = Asleep]
  /\ UNCHANGED mine

(* stop: the tab is taken off the page and closes its session; no answer     *)
(* reaches a screen any more.                                                *)
Leaves(h) ==
  /\ tab.here /\ thr[h].pc = "idle"
  /\ tab' = [tab EXCEPT !.here = FALSE, !.running = FALSE, !.sid = FALSE,
                        !.cursor = 0, !.failures = 0, !.screen = <<>>, !.ended = FALSE]
  /\ mine' = NoTerminal
  /\ thr' = [g \in Threads |-> IF g = h /\ tab.sid THEN [Request("close") EXCEPT !.mine = FALSE]
                               ELSE Disowned(g)]

GoneClosed(h) ==
  /\ thr[h].pc = "answered" /\ thr[h].op = "close" /\ ~tab.here
  /\ thr' = [thr EXCEPT ![h] = Asleep]
  /\ UNCHANGED <<mine, tab>>

-----------------------------------------------------------------------------
ServerSteps(h) ==
  \/ TermCloses(h) \/ TermOpens(h) \/ LooksUp(h)
  \/ WriteFails(h) \/ Reads(h)

AnswerSteps(h) ==
  \/ thr[h].op = "close" /\ AsksForSession(h)
  \/ SessionOpened(h) \/ SessionRefused(h) \/ IoAnswered(h) \/ IoRefused(h)
  \/ GoneClosed(h)

TermNext ==
  \/ PumpReads \/ ShellExits \/ PumpEnds
  \/ \E h \in Threads :
       \/ TermCloses(h) \/ TermOpens(h) \/ LooksUp(h)
       \/ WriteFails(h) \/ Reads(h)
       \/ NewSession(h) \/ AsksForSession(h) \/ SessionOpened(h) \/ SessionRefused(h)
       \/ Polls(h) \/ Types(h) \/ IoAnswered(h) \/ IoRefused(h) \/ ReadLost(h)
       \/ Leaves(h) \/ GoneClosed(h)

(* Threads run, the pump runs and the tab's loop goes on; nobody has to type,*)
(* leave or ask for a new session, and nothing has to be lost or to print.   *)
TermFairness ==
  /\ WF_termVars(PumpEnds)
  /\ \A h \in Threads : WF_termVars(ServerSteps(h) \/ AnswerSteps(h))
  /\ WF_termVars(\E h \in Threads : Polls(h))

TermSpec == TermInit /\ [][TermNext]_termVars /\ TermFairness

-----------------------------------------------------------------------------
TermTypeOK ==
  /\ mine \in Terminal
  /\ thr \in [Threads ->
       [pc : {"idle", "arrived", "io", "answered"},
        op : {"none", "open", "read", "write", "close"}, mine : BOOLEAN,
        cursor : Nat, from : Nat, end : Nat, exited : BOOLEAN, error : BOOLEAN]]
  /\ tab \in [sid : BOOLEAN, cursor : Nat, running : BOOLEAN, here : BOOLEAN,
              failures : 0..MaxFailures, screen : Seq(Nat), ended : BOOLEAN]

(* However the answers to the poll and to the writes overtake each other, no *)
(* byte reaches the screen twice or behind a later one, and "session ended"  *)
(* appears only when the tab is past everything the ring holds: an exit that *)
(* overtakes output in another answer does not cut it off.                   *)
ShownInOrder ==
  /\ \A j, k \in 1..Len(tab.screen) : j < k => tab.screen[j] < tab.screen[k]
  /\ tab.ended => tab.cursor >= mine.end

(* A tab that polls a terminal whose process is gone gets to know, unless it *)
(* has a new session by then: it does not poll for ever.                     *)
EndIsSeen == (Polling /\ mine.life # "runs") ~> (~Polling \/ mine.life = "runs")
=============================================================================
