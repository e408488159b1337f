---------------------------- MODULE PanelProofs -----------------------------
(* Proofs about what stands before a person: the terminals of the panel, the *)
(* kiosk's strip and the presence the camera reports, for any number of      *)
(* requests, any ring, screen, hold time and age.                            *)
EXTENDS Terminals, Strip, Presence, FiniteSetTheorems, SequenceTheorems, TLAPS

-----------------------------------------------------------------------------
(* Terminals: the requests of the tab and the tab itself, by their fields.   *)
TermRequests ==
  [pc : {"idle", "arrived", "io", "answered"},
   op : {"none", "open", "read", "write", "close"}, mine : BOOLEAN,
   cursor : Nat, from : Nat, end : Nat, exited : BOOLEAN, error : BOOLEAN]

Tabs == [sid : BOOLEAN, cursor : Nat, running : BOOLEAN, here : BOOLEAN,
         failures : 0..MaxFailures, screen : Seq(Nat), ended : BOOLEAN]

(* One field of a request or of the tab after another.                       *)
LEMMA RequestPc ==
  ASSUME NEW r \in TermRequests, NEW x \in {"idle", "arrived", "io", "answered"}
  PROVE  /\ [r EXCEPT !.pc = x] \in TermRequests /\ [r EXCEPT !.pc = x].mine = r.mine
         /\ [r EXCEPT !.pc = x].exited = r.exited /\ [r EXCEPT !.pc = x].end = r.end
  BY SMTT(60) DEF TermRequests

LEMMA RequestOp ==
  ASSUME NEW r \in TermRequests, NEW x \in {"none", "open", "read", "write", "close"}
  PROVE  /\ [r EXCEPT !.op = x] \in TermRequests /\ [r EXCEPT !.op = x].mine = r.mine
         /\ [r EXCEPT !.op = x].exited = r.exited /\ [r EXCEPT !.op = x].end = r.end
  BY SMTT(60) DEF TermRequests

LEMMA RequestMine ==
  ASSUME NEW r \in TermRequests, NEW x \in BOOLEAN
  PROVE  /\ [r EXCEPT !.mine = x] \in TermRequests /\ [r EXCEPT !.mine = x].mine = x
         /\ [r EXCEPT !.mine = x].exited = r.exited /\ [r EXCEPT !.mine = x].end = r.end
  BY SMTT(60) DEF TermRequests

LEMMA RequestCursor ==
  ASSUME NEW r \in TermRequests, NEW x \in Nat
  PROVE  /\ [r EXCEPT !.cursor = x] \in TermRequests /\ [r EXCEPT !.cursor = x].mine = r.mine
         /\ [r EXCEPT !.cursor = x].exited = r.exited /\ [r EXCEPT !.cursor = x].end = r.end
  BY SMTT(60) DEF TermRequests

LEMMA RequestFrom ==
  ASSUME NEW r \in TermRequests, NEW x \in Nat
  PROVE  /\ [r EXCEPT !.from = x] \in TermRequests /\ [r EXCEPT !.from = x].mine = r.mine
         /\ [r EXCEPT !.from = x].exited = r.exited /\ [r EXCEPT !.from = x].end = r.end
  BY SMTT(60) DEF TermRequests

LEMMA RequestEnd ==
  ASSUME NEW r \in TermRequests, NEW x \in Nat
  PROVE  /\ [r EXCEPT !.end = x] \in TermRequests /\ [r EXCEPT !.end = x].mine = r.mine
         /\ [r EXCEPT !.end = x].exited = r.exited /\ [r EXCEPT !.end = x].end = x
  BY SMTT(60) DEF TermRequests

LEMMA RequestExited ==
  ASSUME NEW r \in TermRequests, NEW x \in BOOLEAN
  PROVE  /\ [r EXCEPT !.exited = x] \in TermRequests /\ [r EXCEPT !.exited = x].mine = r.mine
         /\ [r EXCEPT !.exited = x].exited = x /\ [r EXCEPT !.exited = x].end = r.end
  BY SMTT(60) DEF TermRequests

LEMMA RequestError ==
  ASSUME NEW r \in TermRequests, NEW x \in BOOLEAN
  PROVE  /\ [r EXCEPT !.error = x] \in TermRequests /\ [r EXCEPT !.error = x].mine = r.mine
         /\ [r EXCEPT !.error = x].exited = r.exited /\ [r EXCEPT !.error = x].end = r.end
  BY SMTT(60) DEF TermRequests

LEMMA TabSid ==
  ASSUME NEW t \in Tabs, NEW x \in BOOLEAN
  PROVE  /\ [t EXCEPT !.sid = x] \in Tabs /\ [t EXCEPT !.sid = x].cursor = t.cursor
         /\ [t EXCEPT !.sid = x].screen = t.screen /\ [t EXCEPT !.sid = x].ended = t.ended
  BY SMTT(60) DEF Tabs

LEMMA TabCursor ==
  ASSUME NEW t \in Tabs, NEW x \in Nat
  PROVE  /\ [t EXCEPT !.cursor = x] \in Tabs /\ [t EXCEPT !.cursor = x].cursor = x
         /\ [t EXCEPT !.cursor = x].screen = t.screen /\ [t EXCEPT !.cursor = x].ended = t.ended
  BY SMTT(60) DEF Tabs

LEMMA TabRunning ==
  ASSUME NEW t \in Tabs, NEW x \in BOOLEAN
  PROVE  /\ [t EXCEPT !.running = x] \in Tabs /\ [t EXCEPT !.running = x].cursor = t.cursor
         /\ [t EXCEPT !.running = x].screen = t.screen /\ [t EXCEPT !.running = x].ended = t.ended
  BY SMTT(60) DEF Tabs

LEMMA TabHere ==
  ASSUME NEW t \in Tabs, NEW x \in BOOLEAN
  PROVE  /\ [t EXCEPT !.here = x] \in Tabs /\ [t EXCEPT !.here = x].cursor = t.cursor
         /\ [t EXCEPT !.here = x].screen = t.screen /\ [t EXCEPT !.here = x].ended = t.ended
  BY SMTT(60) DEF Tabs

LEMMA TabFailures ==
  ASSUME NEW t \in Tabs, NEW x \in 0..MaxFailures
  PROVE  /\ [t EXCEPT !.failures = x] \in Tabs /\ [t EXCEPT !.failures = x].cursor = t.cursor
         /\ [t EXCEPT !.failures = x].screen = t.screen /\ [t EXCEPT !.failures = x].ended = t.ended
  BY SMTT(60) DEF Tabs

LEMMA TabScreen ==
  ASSUME NEW t \in Tabs, NEW x \in Seq(Nat)
  PROVE  /\ [t EXCEPT !.screen = x] \in Tabs /\ [t EXCEPT !.screen = x].cursor = t.cursor
         /\ [t EXCEPT !.screen = x].screen = x /\ [t EXCEPT !.screen = x].ended = t.ended
  BY SMTT(60) DEF Tabs

LEMMA TabEnded ==
  ASSUME NEW t \in Tabs, NEW x \in BOOLEAN
  PROVE  /\ [t EXCEPT !.ended = x] \in Tabs /\ [t EXCEPT !.ended = x].cursor = t.cursor
         /\ [t EXCEPT !.ended = x].screen = t.screen /\ [t EXCEPT !.ended = x].ended = x
  BY SMTT(60) DEF Tabs

(* A request that is answered, refused, goes on to the terminal or is about  *)
(* no session any more says no more of an end than it did.                   *)
SaysNoMore(s, r) == s \in TermRequests /\ (s.mine /\ s.exited => r.mine /\ r.exited /\ s.end = r.end)

LEMMA GoesOn ==
  ASSUME NEW r \in TermRequests
  PROVE  /\ SaysNoMore([r EXCEPT !.pc = "answered"], r)
         /\ SaysNoMore([r EXCEPT !.pc = "io"], r)
         /\ SaysNoMore([r EXCEPT !.pc = "answered", !.mine = FALSE], r)
         /\ SaysNoMore([r EXCEPT !.pc = "answered", !.cursor = 0, !.error = TRUE], r)
<1> DEFINE no == FALSE
           yes == TRUE
           r1 == [r EXCEPT !.pc = "answered"]
           r2 == [r EXCEPT !.pc = "io"]
           r3 == [r1 EXCEPT !.mine = no]
           r4 == [r1 EXCEPT !.cursor = 0]
           r5 == [r4 EXCEPT !.error = yes]
<1>1. no \in BOOLEAN /\ yes \in BOOLEAN /\ ~no
  OBVIOUS
<1> HIDE DEF no, yes
<1>2. /\ r1 \in TermRequests /\ r1.mine = r.mine /\ r1.exited = r.exited /\ r1.end = r.end
      /\ r2 \in TermRequests /\ r2.mine = r.mine /\ r2.exited = r.exited /\ r2.end = r.end
  BY RequestPc, Zenon
<1> HIDE DEF r1, r2
<1>3. r3 \in TermRequests /\ ~r3.mine
  BY <1>1, <1>2, RequestMine, Zenon
<1>4. r4 \in TermRequests /\ r4.mine = r.mine /\ r4.exited = r.exited /\ r4.end = r.end
  <2>1. 0 \in Nat
    OBVIOUS
  <2> QED BY <1>2, <2>1, RequestCursor, Zenon
<1> HIDE DEF r3, r4
<1>5. r5 \in TermRequests /\ r5.mine = r.mine /\ r5.exited = r.exited /\ r5.end = r.end
  BY <1>1, <1>4, RequestError, Zenon
<1> HIDE DEF r5
<1>6. SaysNoMore(r1, r) /\ SaysNoMore(r2, r) /\ SaysNoMore(r3, r) /\ SaysNoMore(r5, r)
  BY <1>2, <1>3, <1>5, Zenon DEF SaysNoMore
<1> QED BY <1>6, Zenon DEF r1, r2, r3, r4, r5, no, yes

LEMMA ThreadSet ==
  ASSUME thr \in [Threads -> TermRequests], NEW h \in Threads, NEW r \in TermRequests
  PROVE  /\ [thr EXCEPT ![h] = r] \in [Threads -> TermRequests]
         /\ \A g \in Threads : [thr EXCEPT ![h] = r][g] = IF g = h THEN r ELSE thr[g]
  BY SMT

LEMMA NewRequest ==
  ASSUME tab \in Tabs, NEW op \in {"open", "read", "write", "close"}
  PROVE  /\ Request(op) \in TermRequests /\ ~Request(op).exited
         /\ [Request(op) EXCEPT !.mine = FALSE] \in TermRequests
         /\ ~[Request(op) EXCEPT !.mine = FALSE].exited
<1> DEFINE no == FALSE
           m == op # "open"
           c == IF op \in {"read", "write"} THEN tab.cursor ELSE 0
           r1 == [Asleep EXCEPT !.pc = "arrived"]
           r2 == [r1 EXCEPT !.op = op]
           r3 == [r2 EXCEPT !.mine = m]
           r4 == [r3 EXCEPT !.cursor = c]
           r5 == [r4 EXCEPT !.mine = no]
<1>1. Asleep \in TermRequests /\ Asleep.exited = no
  BY SMT DEF Asleep, TermRequests
<1>2. no \in BOOLEAN /\ ~no /\ m \in BOOLEAN /\ "arrived" \in {"idle", "arrived", "io", "answered"}
      /\ op \in {"none", "open", "read", "write", "close"}
  OBVIOUS
<1>3. c \in Nat
  BY SMT DEF Tabs
<1>4. Request(op) = r4
  BY Zenon DEF Request
<1> HIDE DEF no, m, c
<1>5. r1 \in TermRequests /\ r1.exited = no
  BY <1>1, <1>2, RequestPc, Zenon
<1> HIDE DEF r1
<1>6. r2 \in TermRequests /\ r2.exited = no
  BY <1>2, <1>5, RequestOp, Zenon
<1> HIDE DEF r2
<1>7. r3 \in TermRequests /\ r3.exited = no
  BY <1>2, <1>6, RequestMine, Zenon
<1> HIDE DEF r3
<1>8. r4 \in TermRequests /\ r4.exited = no
  BY <1>3, <1>7, RequestCursor, Zenon
<1> HIDE DEF r4
<1>9. r5 \in TermRequests /\ r5.exited = no
  BY <1>2, <1>8, RequestMine, Zenon
<1> QED BY <1>2, <1>4, <1>8, <1>9, Zenon DEF r5, no

LEMMA DisownedIsAnothers ==
  ASSUME thr \in [Threads -> TermRequests], NEW h \in Threads
  PROVE  Disowned(h) \in TermRequests /\ ~Disowned(h).mine
<1>1. thr[h] \in TermRequests
  OBVIOUS
<1>2. CASE ~thr[h].mine
  BY <1>1, <1>2, Zenon DEF Disowned
<1>3. CASE thr[h].mine
  <2> DEFINE no == FALSE
             o == thr[h].op
             e == thr[h].error
             p == IF thr[h].pc = "io" THEN "answered" ELSE thr[h].pc
             r1 == [Asleep EXCEPT !.op = o]
             r2 == [r1 EXCEPT !.error = e]
             r3 == [r2 EXCEPT !.pc = p]
  <2>1. Asleep \in TermRequests /\ Asleep.mine = no
    BY SMT DEF Asleep, TermRequests
  <2>2. /\ o \in {"none", "open", "read", "write", "close"} /\ e \in BOOLEAN
        /\ p \in {"idle", "arrived", "io", "answered"}
    BY <1>1, SMT DEF TermRequests
  <2>3. Disowned(h) = r3 /\ ~no
    BY <1>3, Zenon DEF Disowned
  <2> HIDE DEF no, o, e, p
  <2>4. r1 \in TermRequests /\ r1.mine = no
    BY <2>1, <2>2, RequestOp, Zenon
  <2> HIDE DEF r1
  <2>5. r2 \in TermRequests /\ r2.mine = no
    BY <2>2, <2>4, RequestError, Zenon
  <2> HIDE DEF r2
  <2>6. r3 \in TermRequests /\ r3.mine = no
    BY <2>2, <2>5, RequestPc, Zenon
  <2> QED BY <2>3, <2>6, Zenon
<1> QED BY <1>2, <1>3

(* The screen is in order and behind the cursor.                             *)
OnScreen(t) ==
  /\ \A j, k \in 1..Len(t.screen) : j < k => t.screen[j] < t.screen[k]
  /\ \A j \in 1..Len(t.screen) : t.screen[j] < t.cursor

(* An answer that tells the end was read from a terminal that had ended, up  *)
(* to the last position there will ever be.                                  *)
TellsTheEnd(r, t) == r.mine /\ r.exited => t.life = "ended" /\ r.end = t.end

(* What reaches the tab is in order and behind its cursor, and the end is    *)
(* told only when everything has been shown or is in the answer.             *)
TermInv ==
  /\ mine \in Terminal /\ thr \in [Threads -> TermRequests] /\ tab \in Tabs
  /\ OnScreen(tab)
  /\ tab.ended => mine.life = "ended" /\ tab.cursor >= mine.end
  /\ \A h \in Threads : TellsTheEnd(thr[h], mine)

LEMMA TermInitially == TermInit => TermInv
<1> SUFFICES ASSUME TermInit PROVE TermInv
  OBVIOUS
<1>1. NoTerminal \in Terminal
  BY TerminalsAssumption, SMT DEF NoTerminal, Terminal
<1>2. Asleep \in TermRequests /\ ~Asleep.mine
  BY SMT DEF Asleep, TermRequests
<1>3. tab \in Tabs
  BY TerminalsAssumption, SMT DEF TermInit, Tabs
<1>4. Len(tab.screen) = 0 /\ ~tab.ended
  BY SMT DEF TermInit
<1>5. OnScreen(tab)
  BY <1>4, SMT DEF OnScreen
<1>6. thr \in [Threads -> TermRequests] /\ \A h \in Threads : ~thr[h].mine
  BY <1>2, Zenon DEF TermInit
<1>7. mine \in Terminal
  BY <1>1, Zenon DEF TermInit
<1> QED BY <1>3, <1>4, <1>5, <1>6, <1>7, Zenon DEF TermInv, TellsTheEnd

(* What an ended terminal has stays as it is.                                *)
Keeps(t) == t \in Terminal /\ (mine.life = "ended" => t.life = "ended" /\ t.end = mine.end)

LEMMA TerminalKeeps ==
  ASSUME mine \in Terminal
  PROVE  /\ Keeps(mine) /\ Keeps(MineCloses) /\ Keeps([mine EXCEPT !.life = "ended"])
         /\ mine.life = "runs" => Keeps([mine EXCEPT !.life = "gone"])
<1> DEFINE T == 0..MaxOut
<1>1. Terminal = [listed : BOOLEAN, life : {"runs", "gone", "ended"}, start : T, end : T]
  BY DEF Terminal
<1> HIDE DEF T
<1>2. Keeps(mine)
  BY DEF Keeps
<1>3. Keeps([mine EXCEPT !.life = "ended"])
  BY <1>1, SMT DEF Keeps
<1>4. mine.life = "runs" => Keeps([mine EXCEPT !.life = "gone"])
  BY <1>1, SMT DEF Keeps
<1>5. Keeps(MineCloses)
  <2> DEFINE no == FALSE
             t == [mine EXCEPT !.listed = no]
             l == IF t.life = "runs" THEN "gone" ELSE t.life
             u == [t EXCEPT !.life = l]
  <2>1. no \in BOOLEAN /\ MineCloses = u
    BY SMT DEF MineCloses
  <2> HIDE DEF no
  <2>2. t \in Terminal /\ t.life = mine.life /\ t.end = mine.end
    BY <1>1, <2>1, SMT
  <2> HIDE DEF t
  <2>3. l \in {"runs", "gone", "ended"} /\ (t.life = "ended" => l = "ended")
    BY <1>1, <2>2, SMT
  <2> HIDE DEF l
  <2>4. u \in Terminal /\ u.life = l /\ u.end = t.end
    BY <1>1, <2>2, <2>3, SMT
  <2> QED BY <2>1, <2>2, <2>3, <2>4, Zenon DEF Keeps
<1> QED BY <1>2, <1>3, <1>4, <1>5

LEMMA ServerStep ==
  ASSUME TermInv, Keeps(mine'), tab' = tab, NEW h \in Threads, NEW r \in TermRequests,
         TellsTheEnd(r, mine'), thr' = [thr EXCEPT ![h] = r]
  PROVE  TermInv'
<1>1. /\ thr' \in [Threads -> TermRequests]
      /\ \A g \in Threads : thr'[g] = IF g = h THEN r ELSE thr[g]
  BY ThreadSet, Zenon DEF TermInv
<1>2. \A g \in Threads : TellsTheEnd(thr'[g], mine')
  BY <1>1, Zenon DEF TermInv, TellsTheEnd, Keeps
<1>3. tab'.ended => mine'.life = "ended" /\ tab'.cursor >= mine'.end
  BY Zenon DEF TermInv, Keeps
<1>4. OnScreen(tab')
  BY Zenon DEF TermInv
<1> QED BY <1>1, <1>2, <1>3, <1>4, Zenon DEF TermInv, Keeps, OnScreen

LEMMA PumpStep ==
  ASSUME TermInv, Keeps(mine'), tab' = tab, thr' = thr
  PROVE  TermInv'
<1>1. \A g \in Threads : TellsTheEnd(thr'[g], mine')
  BY Zenon DEF TermInv, TellsTheEnd, Keeps
<1>2. tab'.ended => mine'.life = "ended" /\ tab'.cursor >= mine'.end
  BY Zenon DEF TermInv, Keeps
<1>3. OnScreen(tab')
  BY Zenon DEF TermInv
<1> QED BY <1>1, <1>2, <1>3, Zenon DEF TermInv, Keeps, OnScreen

LEMMA PumpReadsKeeps ==
  ASSUME mine \in Terminal, PumpReads
  PROVE  Keeps(mine')
<1> DEFINE T == 0..MaxOut
           e == mine.end + 1
           t == [mine EXCEPT !.end = e]
           s == IF mine.end + 1 - t.start > Buffer THEN t.start + 1 ELSE t.start
           u == [t EXCEPT !.start = s]
<1>1. Terminal = [listed : BOOLEAN, life : {"runs", "gone", "ended"}, start : T, end : T]
  BY DEF Terminal
<1>2. mine.life # "ended" /\ mine.end < MaxOut /\ mine' = u
  BY Zenon DEF PumpReads
<1>3. mine.end \in 0..MaxOut /\ mine.start \in 0..MaxOut
  BY <1>1, SMT
<1>4. e \in T
  BY <1>2, <1>3, TerminalsAssumption, SMT
<1> HIDE DEF e, T
<1>5. t \in Terminal /\ t.start = mine.start
  BY <1>1, <1>4, SMT
<1> HIDE DEF t
<1>6. s \in T
  BY <1>2, <1>3, <1>5, TerminalsAssumption, SMT DEF T
<1> HIDE DEF s
<1>7. u \in Terminal
  BY <1>1, <1>5, <1>6, SMT
<1> QED BY <1>2, <1>7, Zenon DEF Keeps

(* What the server does keeps it.                                            *)
LEMMA PumpSteps ==
  ASSUME TermInv, PumpReads \/ ShellExits \/ PumpEnds
  PROVE  TermInv'
<1>1. mine \in Terminal
  BY Zenon DEF TermInv
<1>2. CASE PumpReads
  BY <1>1, <1>2, PumpReadsKeeps, PumpStep, Zenon DEF PumpReads
<1>3. CASE ShellExits
  BY <1>1, <1>3, TerminalKeeps, PumpStep, Zenon DEF ShellExits
<1>4. CASE PumpEnds
  BY <1>1, <1>4, TerminalKeeps, PumpStep, Zenon DEF PumpEnds
<1> QED BY <1>2, <1>3, <1>4

LEMMA SaysNoMoreThan ==
  ASSUME NEW r, NEW s, NEW t, NEW u, SaysNoMore(s, r), TellsTheEnd(r, t),
         t.life = "ended" => u.life = "ended" /\ u.end = t.end
  PROVE  s \in TermRequests /\ TellsTheEnd(s, u)
BY Zenon DEF SaysNoMore, TellsTheEnd

LEMMA Answering ==
  ASSUME TermInv, NEW h \in Threads, Keeps(mine'), tab' = tab,
         \/ thr' = [thr EXCEPT ![h].pc = "answered"]
         \/ thr' = [thr EXCEPT ![h].pc = "io"]
         \/ thr' = [thr EXCEPT ![h].pc = "answered", ![h].mine = FALSE]
         \/ Refuses(h)
  PROVE  TermInv'
<1> DEFINE r == thr[h]
<1>1. r \in TermRequests /\ TellsTheEnd(r, mine)
      /\ (mine.life = "ended" => mine'.life = "ended" /\ mine'.end = mine.end)
  BY Zenon DEF TermInv, Keeps
<1>2. PICK s : SaysNoMore(s, r) /\ thr' = [thr EXCEPT ![h] = s]
  <2>1. CASE thr' = [thr EXCEPT ![h].pc = "answered"]
    BY <1>1, <2>1, GoesOn, Zenon
  <2>2. CASE thr' = [thr EXCEPT ![h].pc = "io"]
    BY <1>1, <2>2, GoesOn, Zenon
  <2>3. CASE thr' = [thr EXCEPT ![h].pc = "answered", ![h].mine = FALSE]
    BY <1>1, <2>3, GoesOn, Zenon
  <2>4. CASE Refuses(h)
    <3>1. thr' = [thr EXCEPT ![h] = [thr[h] EXCEPT !.pc = "answered", !.cursor = 0, !.error = TRUE]]
      BY <2>4, Zenon DEF Refuses
    <3> QED BY <1>1, <3>1, GoesOn, Zenon
  <2> QED BY <2>1, <2>2, <2>3, <2>4
<1>3. s \in TermRequests /\ TellsTheEnd(s, mine')
  BY <1>1, <1>2, SaysNoMoreThan, Zenon
<1> QED BY <1>2, <1>3, ServerStep, Zenon

LEMMA ReapKeeps ==
  ASSUME TermInv, \E mineStale \in BOOLEAN : Reap(mineStale)
  PROVE  Keeps(mine')
<1>1. mine \in Terminal
  BY Zenon DEF TermInv
<1> QED BY <1>1, TerminalKeeps, Zenon DEF Reap

LEMMA ReadsStep ==
  ASSUME TermInv, NEW h \in Threads, Reads(h)
  PROVE  TermInv'
<1> DEFINE r == thr[h]
           from == IF thr[h].cursor > mine.start THEN thr[h].cursor ELSE mine.start
           x == (mine.life = "ended" /\ from >= mine.end)
           e == mine.end
           r1 == [r EXCEPT !.pc = "answered"]
           r2 == [r1 EXCEPT !.cursor = 0]
           r3 == [r2 EXCEPT !.from = from]
           r4 == [r3 EXCEPT !.end = e]
           r5 == [r4 EXCEPT !.exited = x]
<1>1. r \in TermRequests /\ mine \in Terminal
  BY Zenon DEF TermInv
<1>2. from \in Nat /\ e \in Nat
  BY <1>1, SMT DEF TermRequests, Terminal
<1>3. x \in BOOLEAN /\ (x => mine.life = "ended")
  OBVIOUS
<1>4. thr' = [thr EXCEPT ![h] = r5] /\ mine' = mine /\ tab' = tab
  BY Zenon DEF Reads
<1>5. 0 \in Nat /\ "answered" \in {"idle", "arrived", "io", "answered"}
  OBVIOUS
<1> HIDE DEF from, e, x, r
<1>6. r1 \in TermRequests
  BY <1>1, <1>5, RequestPc, Zenon
<1> HIDE DEF r1
<1>7. r2 \in TermRequests
  BY <1>5, <1>6, RequestCursor, Zenon
<1> HIDE DEF r2
<1>8. r3 \in TermRequests
  BY <1>2, <1>7, RequestFrom, Zenon
<1> HIDE DEF r3
<1>9. r4 \in TermRequests /\ r4.end = e
  BY <1>2, <1>8, RequestEnd, Zenon
<1> HIDE DEF r4
<1>10. r5 \in TermRequests /\ r5.exited = x /\ r5.end = e
  BY <1>3, <1>9, RequestExited, Zenon
<1> HIDE DEF r5
<1>11. TellsTheEnd(r5, mine')
  BY <1>3, <1>4, <1>10, Zenon DEF TellsTheEnd, e
<1>12. Keeps(mine')
  BY <1>1, <1>4, Zenon DEF Keeps
<1> QED BY <1>4, <1>10, <1>11, <1>12, ServerStep, Zenon

LEMMA ServersSteps ==
  ASSUME TermInv, NEW h \in Threads,
         TermCloses(h) \/ TermOpens(h) \/ LooksUp(h) \/ WriteFails(h) \/ Reads(h)
  PROVE  TermInv'
<1>1. mine \in Terminal
  BY Zenon DEF TermInv
<1>2. CASE TermCloses(h)
  <2>1. Keeps(mine')
    BY <1>1, <1>2, TerminalKeeps, Zenon DEF TermCloses
  <2>2. thr' = [thr EXCEPT ![h].pc = "answered", ![h].mine = FALSE] /\ tab' = tab
    BY <1>2, Zenon DEF TermCloses
  <2> QED BY <2>1, <2>2, Answering, Zenon
<1>3. CASE TermOpens(h)
  <2>1. Keeps(mine')
    BY <1>3, ReapKeeps, Zenon DEF TermOpens
  <2>2. (thr' = [thr EXCEPT ![h].pc = "answered"] \/ Refuses(h)) /\ tab' = tab
    BY <1>3, Zenon DEF TermOpens
  <2> QED BY <2>1, <2>2, Answering, Zenon
<1>4. CASE LooksUp(h)
  <2>1. Keeps(mine')
    BY <1>4, ReapKeeps, Zenon DEF LooksUp
  <2>2. \/ thr' = [thr EXCEPT ![h].pc = "answered"]
        \/ thr' = [thr EXCEPT ![h].pc = "io"]
        \/ Refuses(h)
    BY <1>4, Zenon DEF LooksUp
  <2>3. tab' = tab
    BY <1>4, Zenon DEF LooksUp
  <2> QED BY <2>1, <2>2, <2>3, Answering, Zenon
<1>5. CASE WriteFails(h)
  <2>1. Keeps(mine') /\ Refuses(h) /\ tab' = tab
    BY <1>1, <1>5, TerminalKeeps, Zenon DEF WriteFails
  <2> QED BY <2>1, Answering, Zenon
<1>6. CASE Reads(h)
  BY <1>6, ReadsStep
<1> QED BY <1>2, <1>3, <1>4, <1>5, <1>6

(* What is new in an answer goes behind what is on the screen.               *)
LEMMA Shown ==
  ASSUME NEW s \in Seq(Nat), NEW c \in Nat, NEW from \in Nat, NEW e \in Nat, e > from, c <= from,
         \A j, k \in 1..Len(s) : j < k => s[j] < s[k],
         \A j \in 1..Len(s) : s[j] < c
  PROVE  LET t == s \o [k \in 1..(e - from) |-> from + k - 1] IN
         /\ t \in Seq(Nat)
         /\ \A j, k \in 1..Len(t) : j < k => t[j] < t[k]
         /\ \A j \in 1..Len(t) : t[j] < e
<1> DEFINE n == e - from
           u == [k \in 1..n |-> from + k - 1]
           t == s \o u
<1>1. n \in Nat \ {0} /\ e = from + n
  BY SMT
<1>2. \A k \in 1..n : u[k] = from + k - 1 /\ u[k] \in Nat
  BY <1>1, SMT
<1>3. u \in Seq(Nat) /\ Len(u) = n
  <2>1. u \in [1..n -> Nat]
    BY <1>2, SMT
  <2> QED BY <1>1, <2>1, SMT
<1> HIDE DEF n, u
<1>4. t \in Seq(Nat) /\ Len(t) = Len(s) + n
  BY <1>3, ConcatProperties, Zenon
<1>5. \A j \in 1..Len(t) : t[j] = IF j <= Len(s) THEN s[j] ELSE u[j - Len(s)]
  BY <1>3, <1>4, ConcatProperties, Zenon
<1> HIDE DEF t
<1>6. Len(s) \in Nat /\ \A j \in 1..Len(s) : s[j] \in Nat
  BY SMT
<1>7. \A j \in 1..Len(t) : /\ j <= Len(s) => t[j] = s[j] /\ t[j] < c
                           /\ j > Len(s) => t[j] = from + (j - Len(s)) - 1
  <2> SUFFICES ASSUME NEW j \in 1..Len(t)
               PROVE  /\ j <= Len(s) => t[j] = s[j] /\ t[j] < c
                      /\ j > Len(s) => t[j] = from + (j - Len(s)) - 1
    BY Zenon
  <2>1. CASE j <= Len(s)
    <3>1. j \in 1..Len(s)
      BY <1>4, <1>6, <2>1, SMT
    <3> QED BY <1>5, <1>6, <2>1, <3>1, SMT
  <2>2. CASE ~(j <= Len(s))
    <3>1. j - Len(s) \in 1..n
      BY <1>1, <1>4, <1>6, <2>2, SMT
    <3> QED BY <1>2, <1>5, <2>2, <3>1, SMT
  <2> QED BY <2>1, <2>2
<1>8. ASSUME NEW j \in 1..Len(t), NEW k \in 1..Len(t), j < k PROVE t[j] < t[k]
  <2>1. CASE k <= Len(s)
    <3>1. j \in 1..Len(s) /\ k \in 1..Len(s) /\ t[j] = s[j] /\ t[k] = s[k]
      BY <1>4, <1>6, <1>7, <1>8, <2>1, SMT
    <3> QED BY <1>8, <3>1, Zenon
  <2>2. CASE k > Len(s) /\ j <= Len(s)
    <3>1. t[j] < c /\ t[j] = s[j] /\ t[k] = from + (k - Len(s)) - 1 /\ j \in 1..Len(s)
      BY <1>4, <1>6, <1>7, <2>2, SMT
    <3> QED BY <1>4, <1>6, <2>2, <3>1, SMT
  <2>3. CASE k > Len(s) /\ j > Len(s)
    BY <1>4, <1>6, <1>7, <1>8, <2>3, SMT
  <2> QED BY <1>4, <1>6, <2>1, <2>2, <2>3, SMT
<1>9. ASSUME NEW j \in 1..Len(t) PROVE t[j] < e
  <2>1. CASE j <= Len(s)
    <3>1. t[j] < c /\ t[j] = s[j] /\ j \in 1..Len(s)
      BY <1>4, <1>6, <1>7, <2>1, SMT
    <3> QED BY <1>6, <3>1, SMT
  <2>2. CASE j > Len(s)
    BY <1>1, <1>4, <1>6, <1>7, <2>2, SMT
  <2> QED BY <1>4, <1>6, <2>1, <2>2, SMT
<1> QED BY <1>4, <1>8, <1>9 DEF t, u, n

LEMMA AppliedTab ==
  ASSUME tab \in Tabs, OnScreen(tab), NEW r \in TermRequests
  PROVE  /\ Applied(r) \in Tabs /\ OnScreen(Applied(r))
         /\ Applied(r).cursor >= tab.cursor /\ Applied(r).cursor >= r.end
         /\ Applied(r).ended = (tab.ended \/ (r.exited /\ tab.running))
<1> DEFINE from == IF tab.cursor > r.from THEN tab.cursor ELSE r.from
           news == IF r.end > from THEN [k \in 1..(r.end - from) |-> from + k - 1] ELSE <<>>
           ends == (r.exited /\ tab.running)
           s == tab.screen \o news
           c == IF r.end > tab.cursor THEN r.end ELSE tab.cursor
           u == (tab.running /\ ~ends)
           e == (tab.ended \/ ends)
           f == IF r.op = "read" THEN 0 ELSE tab.failures
           t1 == [tab EXCEPT !.screen = s]
           t2 == [t1 EXCEPT !.cursor = c]
           t3 == [t2 EXCEPT !.running = u]
           t4 == [t3 EXCEPT !.ended = e]
           t5 == [t4 EXCEPT !.failures = f]
<1>1. /\ tab.screen \in Seq(Nat) /\ tab.cursor \in Nat /\ tab.running \in BOOLEAN
      /\ tab.ended \in BOOLEAN /\ tab.failures \in 0..MaxFailures
  BY SMTT(60) DEF Tabs
<1>2. r.from \in Nat /\ r.end \in Nat /\ r.exited \in BOOLEAN
  BY SMTT(60) DEF TermRequests
<1>3. from \in Nat /\ c \in Nat /\ c >= tab.cursor /\ c >= r.end /\ from >= tab.cursor
  BY <1>1, <1>2, SMT
<1>4. u \in BOOLEAN /\ e \in BOOLEAN /\ e = (tab.ended \/ (r.exited /\ tab.running))
  BY <1>1, <1>2, Zenon
<1>5. f \in 0..MaxFailures
  BY <1>1, TerminalsAssumption, SMT
<1>6. /\ s \in Seq(Nat)
      /\ \A j, k \in 1..Len(s) : j < k => s[j] < s[k]
      /\ \A j \in 1..Len(s) : s[j] < c
  <2>1. /\ \A j, k \in 1..Len(tab.screen) : j < k => tab.screen[j] < tab.screen[k]
        /\ \A j \in 1..Len(tab.screen) : tab.screen[j] < tab.cursor
    BY Zenon DEF OnScreen
  <2>2. CASE r.end > from
    <3>1. news = [k \in 1..(r.end - from) |-> from + k - 1] /\ c = r.end
      BY <1>1, <1>2, <2>2, SMT
    <3>2. tab.cursor <= from
      BY <1>1, <1>3, SMT
    <3> HIDE DEF from, news, c
    <3>3. LET t == tab.screen \o [k \in 1..(r.end - from) |-> from + k - 1] IN
         /\ t \in Seq(Nat)
         /\ \A j, k \in 1..Len(t) : j < k => t[j] < t[k]
         /\ \A j \in 1..Len(t) : t[j] < r.end
      BY <1>1, <1>2, <1>3, <2>1, <2>2, <3>2, Shown
    <3> QED BY <3>1, <3>3, Zenon
  <2>3. CASE ~(r.end > from)
    <3>1. s = tab.screen
      BY <1>1, <2>3, ConcatEmptySeq, Zenon
    <3> HIDE DEF s, c
    <3>2. ASSUME NEW j \in 1..Len(s) PROVE s[j] < c
      <4>1. s[j] \in Nat
        BY <1>1, <3>1, SMT
      <4> QED BY <1>1, <1>3, <2>1, <3>1, <4>1, SMT
    <3> QED BY <1>1, <2>1, <3>1, <3>2, Zenon
  <2> QED BY <2>2, <2>3, Zenon
<1>7. Applied(r) = t5
  BY Zenon DEF Applied
<1> HIDE DEF from, news, s, c, u, e, f
<1>8. t1 \in Tabs /\ t1.screen = s
  BY <1>6, TabScreen, Zenon
<1> HIDE DEF t1
<1>9. t2 \in Tabs /\ t2.screen = s /\ t2.cursor = c
  BY <1>3, <1>8, TabCursor, Zenon
<1> HIDE DEF t2
<1>10. t3 \in Tabs /\ t3.screen = s /\ t3.cursor = c
  BY <1>4, <1>9, TabRunning, Zenon
<1> HIDE DEF t3
<1>11. t4 \in Tabs /\ t4.screen = s /\ t4.cursor = c /\ t4.ended = e
  BY <1>4, <1>10, TabEnded, Zenon
<1> HIDE DEF t4
<1>12. t5 \in Tabs /\ t5.screen = s /\ t5.cursor = c /\ t5.ended = e
  BY <1>5, <1>11, TabFailures, Zenon
<1> HIDE DEF t5
<1>13. OnScreen(t5)
  BY <1>6, <1>12, Zenon DEF OnScreen
<1> QED BY <1>3, <1>4, <1>7, <1>12, <1>13, Zenon

(* What the tab does to a request of its own leaves the screen in order.     *)
LEMMA TabStep ==
  ASSUME TermInv, mine' = mine, NEW h \in Threads, NEW r \in TermRequests, ~r.exited,
         thr' = [thr EXCEPT ![h] = r], tab' \in Tabs, OnScreen(tab'),
         tab'.ended => mine.life = "ended" /\ tab'.cursor >= mine.end
  PROVE  TermInv'
<1>1. /\ thr' \in [Threads -> TermRequests]
      /\ \A g \in Threads : thr'[g] = IF g = h THEN r ELSE thr[g]
  BY ThreadSet, Zenon DEF TermInv
<1>2. \A g \in Threads : TellsTheEnd(thr'[g], mine')
  BY <1>1, Zenon DEF TermInv, TellsTheEnd
<1> QED BY <1>1, <1>2, Zenon DEF TermInv, OnScreen

LEMMA SameScreen ==
  ASSUME TermInv, NEW t \in Tabs, t.cursor = tab.cursor, t.screen = tab.screen
  PROVE  OnScreen(t)
BY Zenon DEF TermInv, OnScreen

LEMMA SleepStep ==
  ASSUME TermInv, mine' = mine, NEW h \in Threads, thr' = [thr EXCEPT ![h] = Asleep],
         tab' \in Tabs, tab'.cursor = tab.cursor, tab'.screen = tab.screen, tab'.ended = tab.ended
  PROVE  TermInv'
<1>1. Asleep \in TermRequests /\ ~Asleep.exited
  BY SMT DEF Asleep, TermRequests
<1>2. OnScreen(tab')
  BY SameScreen, Zenon
<1>3. tab'.ended => mine.life = "ended" /\ tab'.cursor >= mine.end
  BY Zenon DEF TermInv
<1> QED BY <1>1, <1>2, <1>3, TabStep, Zenon

LEMMA AskingStep ==
  ASSUME TermInv, mine' = mine, NEW h \in Threads, NEW op \in {"open", "read", "write", "close"},
         thr' = [thr EXCEPT ![h] = Request(op)],
         tab' \in Tabs, tab'.cursor = tab.cursor, tab'.screen = tab.screen, tab'.ended = tab.ended
  PROVE  TermInv'
<1>1. Request(op) \in TermRequests /\ ~Request(op).exited
  BY NewRequest, Zenon DEF TermInv
<1>2. OnScreen(tab')
  BY SameScreen, Zenon
<1>3. tab'.ended => mine.life = "ended" /\ tab'.cursor >= mine.end
  BY Zenon DEF TermInv
<1> QED BY <1>1, <1>2, <1>3, TabStep, Zenon

(* A session of its own is nobody's any more: every request is another's.    *)
LEMMA SessionStep ==
  ASSUME TermInv, mine' \in Terminal, thr' \in [Threads -> TermRequests],
         \A g \in Threads : ~thr'[g].mine \/ ~thr'[g].exited,
         tab' \in Tabs, ~tab'.ended,
         tab'.screen = <<>> \/ (tab'.screen = tab.screen /\ tab'.cursor = tab.cursor)
  PROVE  TermInv'
<1>1. OnScreen(tab')
  <2>1. CASE tab'.screen = <<>>
    <3>1. Len(tab'.screen) = 0
      BY <2>1, SMT
    <3> QED BY <3>1, SMT DEF OnScreen
  <2>2. CASE tab'.screen = tab.screen /\ tab'.cursor = tab.cursor
    BY <2>2, SameScreen, Zenon
  <2> QED BY <2>1, <2>2
<1>2. \A g \in Threads : TellsTheEnd(thr'[g], mine')
  BY Zenon DEF TellsTheEnd
<1> QED BY <1>1, <1>2, Zenon DEF TermInv, OnScreen

LEMMA Sessions ==
  ASSUME TermInv, NEW h \in Threads, AsksForSession(h) \/ SessionOpened(h) \/ Leaves(h)
  PROVE  TermInv'
<1> DEFINE no == FALSE
           yes == TRUE
           empty == <<>>
<1>1. /\ no \in BOOLEAN /\ yes \in BOOLEAN /\ ~no /\ empty \in Seq(Nat) /\ empty = <<>>
      /\ 0 \in Nat /\ 0 \in 0..MaxFailures
  BY TerminalsAssumption, SMT
<1>2. NoTerminal \in Terminal
  BY TerminalsAssumption, SMT DEF NoTerminal, Terminal
<1>3. tab \in Tabs /\ thr \in [Threads -> TermRequests]
  BY Zenon DEF TermInv
<1>4. Asleep \in TermRequests /\ ~Asleep.exited
  BY SMT DEF Asleep, TermRequests
<1>5. \A g \in Threads : Disowned(g) \in TermRequests /\ ~Disowned(g).mine
  BY <1>3, DisownedIsAnothers, Zenon
<1> HIDE DEF no, yes, empty
<1>6. ASSUME NEW r \in TermRequests, ~r.exited,
             thr' = [g \in Threads |-> IF g = h THEN r ELSE Disowned(g)]
      PROVE  thr' \in [Threads -> TermRequests] /\ \A g \in Threads : ~thr'[g].mine \/ ~thr'[g].exited
  <2>1. \A g \in Threads : (IF g = h THEN r ELSE Disowned(g)) \in TermRequests
    BY <1>5, <1>6, Zenon
  <2> QED BY <1>5, <1>6, <2>1, Zenon
<1>7. CASE AsksForSession(h)
  <2> DEFINE t1 == [tab EXCEPT !.sid = no]
             t2 == [t1 EXCEPT !.running = no]
             t3 == [t2 EXCEPT !.cursor = 0]
             t4 == [t3 EXCEPT !.screen = empty]
             t5 == [t4 EXCEPT !.ended = no]
  <2>1. tab' = t5 /\ mine' = NoTerminal
        /\ thr' = [g \in Threads |-> IF g = h THEN Request("open") ELSE Disowned(g)]
    BY <1>7, Zenon DEF AsksForSession, no, empty
  <2>2. t1 \in Tabs
    BY <1>1, <1>3, TabSid, Zenon
  <2> HIDE DEF t1
  <2>3. t2 \in Tabs
    BY <1>1, <2>2, TabRunning, Zenon
  <2> HIDE DEF t2
  <2>4. t3 \in Tabs
    BY <1>1, <2>3, TabCursor, Zenon
  <2> HIDE DEF t3
  <2>5. t4 \in Tabs /\ t4.screen = empty
    BY <1>1, <2>4, TabScreen, Zenon
  <2> HIDE DEF t4
  <2>6. t5 \in Tabs /\ t5.screen = empty /\ t5.ended = no
    BY <1>1, <2>5, TabEnded, Zenon
  <2> HIDE DEF t5
  <2>7. Request("open") \in TermRequests /\ ~Request("open").exited
    BY <1>3, NewRequest, Zenon
  <2>8. thr' \in [Threads -> TermRequests] /\ \A g \in Threads : ~thr'[g].mine \/ ~thr'[g].exited
    BY <1>6, <2>1, <2>7, Zenon
  <2> QED BY <1>1, <1>2, <2>1, <2>6, <2>8, SessionStep, Zenon
<1>8. CASE SessionOpened(h)
  <2> DEFINE t1 == [tab EXCEPT !.sid = yes]
             t2 == [t1 EXCEPT !.running = yes]
             t3 == [t2 EXCEPT !.failures = 0]
             t4 == [t3 EXCEPT !.ended = no]
  <2>1. tab' = t4 /\ mine' \in Terminal
        /\ thr' = [g \in Threads |-> IF g = h THEN Asleep ELSE Disowned(g)]
    BY <1>8, Zenon DEF SessionOpened, no, yes
  <2>2. t1 \in Tabs /\ t1.screen = tab.screen /\ t1.cursor = tab.cursor
    BY <1>1, <1>3, TabSid, Zenon
  <2> HIDE DEF t1
  <2>3. t2 \in Tabs /\ t2.screen = tab.screen /\ t2.cursor = tab.cursor
    BY <1>1, <2>2, TabRunning, Zenon
  <2> HIDE DEF t2
  <2>4. t3 \in Tabs /\ t3.screen = tab.screen /\ t3.cursor = tab.cursor
    BY <1>1, <2>3, TabFailures, Zenon
  <2> HIDE DEF t3
  <2>5. t4 \in Tabs /\ t4.screen = tab.screen /\ t4.cursor = tab.cursor /\ t4.ended = no
    BY <1>1, <2>4, TabEnded, Zenon
  <2> HIDE DEF t4
  <2>6. thr' \in [Threads -> TermRequests] /\ \A g \in Threads : ~thr'[g].mine \/ ~thr'[g].exited
    BY <1>4, <1>6, <2>1, Zenon
  <2> QED BY <1>1, <2>1, <2>5, <2>6, SessionStep, Zenon
<1>9. CASE Leaves(h)
  <2> DEFINE t1 == [tab EXCEPT !.here = no]
             t2 == [t1 EXCEPT !.running = no]
             t3 == [t2 EXCEPT !.sid = no]
             t4 == [t3 EXCEPT !.cursor = 0]
             t5 == [t4 EXCEPT !.failures = 0]
             t6 == [t5 EXCEPT !.screen = empty]
             t7 == [t6 EXCEPT !.ended = no]
             r == IF tab.sid THEN [Request("close") EXCEPT !.mine = FALSE] ELSE Disowned(h)
  <2>1. tab' = t7 /\ mine' = NoTerminal
    BY <1>9, Zenon DEF Leaves, no, empty
  <2>2. thr' = [g \in Threads |-> IF g = h /\ tab.sid THEN [Request("close") EXCEPT !.mine = FALSE]
                                  ELSE Disowned(g)]
    BY <1>9, Zenon DEF Leaves
  <2>3. t1 \in Tabs
    BY <1>1, <1>3, TabHere, Zenon
  <2> HIDE DEF t1
  <2>4. t2 \in Tabs
    BY <1>1, <2>3, TabRunning, Zenon
  <2> HIDE DEF t2
  <2>5. t3 \in Tabs
    BY <1>1, <2>4, TabSid, Zenon
  <2> HIDE DEF t3
  <2>6. t4 \in Tabs
    BY <1>1, <2>5, TabCursor, Zenon
  <2> HIDE DEF t4
  <2>7. t5 \in Tabs
    BY <1>1, <2>6, TabFailures, Zenon
  <2> HIDE DEF t5
  <2>8. t6 \in Tabs /\ t6.screen = empty
    BY <1>1, <2>7, TabScreen, Zenon
  <2> HIDE DEF t6
  <2>9. t7 \in Tabs /\ t7.screen = empty /\ t7.ended = no
    BY <1>1, <2>8, TabEnded, Zenon
  <2> HIDE DEF t7
  <2> DEFINE c == [Request("close") EXCEPT !.mine = FALSE]
  <2>10. c \in TermRequests /\ ~c.exited
    BY <1>3, NewRequest, Zenon
  <2> HIDE DEF c
  <2>11. thr' = [g \in Threads |-> IF g = h /\ tab.sid THEN c ELSE Disowned(g)]
    BY <2>2, Zenon DEF c
  <2>12. \A g \in Threads : (IF g = h /\ tab.sid THEN c ELSE Disowned(g)) \in TermRequests
    BY <1>5, <2>10, Zenon
  <2>13. thr' \in [Threads -> TermRequests] /\ \A g \in Threads : ~thr'[g].mine \/ ~thr'[g].exited
    BY <1>5, <2>10, <2>11, <2>12, Zenon
  <2> QED BY <1>1, <1>2, <2>1, <2>9, <2>13, SessionStep, Zenon
<1> QED BY <1>7, <1>8, <1>9

LEMMA IoSteps ==
  ASSUME TermInv, NEW h \in Threads, IoAnswered(h) \/ IoRefused(h) \/ ReadLost(h)
  PROVE  TermInv'
<1> DEFINE no == FALSE
<1>1. /\ tab \in Tabs /\ thr[h] \in TermRequests /\ OnScreen(tab) /\ mine \in Terminal
      /\ TellsTheEnd(thr[h], mine) /\ (tab.ended => mine.life = "ended" /\ tab.cursor >= mine.end)
      /\ no \in BOOLEAN
  BY Zenon DEF TermInv
<1>2. Asleep \in TermRequests /\ ~Asleep.exited
  BY SMT DEF Asleep, TermRequests
<1> HIDE DEF no
<1>3. LET t == [tab EXCEPT !.running = no] IN
      t \in Tabs /\ t.cursor = tab.cursor /\ t.screen = tab.screen /\ t.ended = tab.ended
  BY <1>1, TabRunning, Zenon
<1>4. CASE IoAnswered(h)
  <2>1. thr' = [thr EXCEPT ![h] = Asleep] /\ mine' = mine
        /\ tab' = IF thr[h].mine THEN Applied(thr[h]) ELSE tab
    BY <1>4, Zenon DEF IoAnswered
  <2>2. CASE thr[h].mine
    <3> DEFINE t == Applied(thr[h])
               e == thr[h].end
    <3>1. /\ t \in Tabs /\ OnScreen(t) /\ t.cursor >= tab.cursor /\ t.cursor >= e
          /\ t.ended = (tab.ended \/ (thr[h].exited /\ tab.running))
      BY <1>1, AppliedTab, Zenon
    <3>2. tab' = t
      BY <2>1, <2>2, Zenon
    <3>3. t.cursor \in Nat /\ tab.cursor \in Nat /\ mine.end \in Int
      BY <1>1, <3>1, SMTT(60) DEF Tabs, Terminal
    <3> HIDE DEF t
    <3>4. t.ended => mine.life = "ended" /\ t.cursor >= mine.end
      <4>1. CASE tab.ended
        <5>1. mine.life = "ended" /\ tab.cursor >= mine.end
          BY <1>1, <4>1, Zenon
        <5> QED BY <3>1, <3>3, <5>1, SMT
      <4>2. CASE thr[h].exited
        BY <1>1, <2>2, <3>1, <4>2, Zenon DEF TellsTheEnd
      <4> QED BY <3>1, <4>1, <4>2, Zenon
    <3> QED BY <1>2, <2>1, <3>1, <3>2, <3>4, TabStep, Zenon
  <2>3. CASE ~thr[h].mine
    BY <1>1, <2>1, <2>3, SleepStep, Zenon
  <2> QED BY <2>2, <2>3
<1>5. CASE IoRefused(h)
  <2>1. thr' = [thr EXCEPT ![h] = Asleep] /\ mine' = mine
        /\ tab' = IF thr[h].op = "read" THEN [tab EXCEPT !.running = no] ELSE tab
    BY <1>5, Zenon DEF IoRefused, no
  <2> QED BY <1>1, <1>3, <2>1, SleepStep, Zenon
<1>6. CASE ReadLost(h)
  <2> DEFINE f == tab.failures + 1
             t == [tab EXCEPT !.failures = f]
  <2>1. thr' = [thr EXCEPT ![h] = Asleep] /\ mine' = mine
        /\ tab' = IF tab.failures < MaxFailures THEN t ELSE [tab EXCEPT !.running = no]
    BY <1>6, Zenon DEF ReadLost, no
  <2>2. CASE tab.failures < MaxFailures
    <3>1. tab.failures \in 0..MaxFailures
      BY <1>1, SMTT(60) DEF Tabs
    <3>2. f \in 0..MaxFailures
      BY <2>2, <3>1, TerminalsAssumption, SMT
    <3> HIDE DEF f
    <3>3. t \in Tabs /\ t.cursor = tab.cursor /\ t.screen = tab.screen /\ t.ended = tab.ended
      BY <1>1, <3>2, TabFailures, Zenon
    <3> QED BY <2>1, <2>2, <3>3, SleepStep, Zenon
  <2>3. CASE ~(tab.failures < MaxFailures)
    BY <1>3, <2>1, <2>3, SleepStep, Zenon
  <2> QED BY <2>2, <2>3
<1> QED BY <1>4, <1>5, <1>6

LEMMA TabsSteps ==
  ASSUME TermInv, NEW h \in Threads,
         NewSession(h) \/ SessionRefused(h) \/ Polls(h) \/ Types(h) \/ GoneClosed(h)
  PROVE  TermInv'
<1> DEFINE no == FALSE
<1>1. tab \in Tabs /\ no \in BOOLEAN
  BY Zenon DEF TermInv
<1> HIDE DEF no
<1>2. CASE NewSession(h)
  <2>1. tab' = [tab EXCEPT !.running = no] /\ thr' = [thr EXCEPT ![h] = Request("close")] /\ mine' = mine
    BY <1>2, Zenon DEF NewSession, no
  <2>2. LET t == [tab EXCEPT !.running = no] IN
        t \in Tabs /\ t.cursor = tab.cursor /\ t.screen = tab.screen /\ t.ended = tab.ended
    BY <1>1, TabRunning, Zenon
  <2> QED BY <2>1, <2>2, AskingStep, Zenon
<1>3. CASE SessionRefused(h) \/ GoneClosed(h)
  <2>1. tab' = tab /\ thr' = [thr EXCEPT ![h] = Asleep] /\ mine' = mine
    BY <1>3, Zenon DEF SessionRefused, GoneClosed
  <2> QED BY <1>1, <2>1, SleepStep, Zenon
<1>4. CASE Polls(h)
  <2>1. tab' = tab /\ thr' = [thr EXCEPT ![h] = Request("read")] /\ mine' = mine
    BY <1>4, Zenon DEF Polls
  <2> QED BY <1>1, <2>1, AskingStep, Zenon
<1>5. CASE Types(h)
  <2>1. tab' = tab /\ thr' = [thr EXCEPT ![h] = Request("write")] /\ mine' = mine
    BY <1>5, Zenon DEF Types
  <2> QED BY <1>1, <2>1, AskingStep, Zenon
<1> QED BY <1>2, <1>3, <1>4, <1>5

(* Each step of the server, of the shell and of the tab preserves it.        *)
LEMMA TermStep == TermInv /\ [TermNext]_termVars => TermInv'
<1> SUFFICES ASSUME TermInv, [TermNext]_termVars PROVE TermInv'
  OBVIOUS
<1>1. CASE UNCHANGED termVars
  <2>1. Keeps(mine') /\ thr' = thr /\ tab' = tab
    BY <1>1, Zenon DEF termVars, TermInv, Keeps
  <2> QED BY <2>1, PumpStep, Zenon
<1>2. CASE PumpReads \/ ShellExits \/ PumpEnds
  BY <1>2, PumpSteps, Zenon
<1>3. ASSUME NEW h \in Threads,
             TermCloses(h) \/ TermOpens(h) \/ LooksUp(h) \/ WriteFails(h) \/ Reads(h)
      PROVE  TermInv'
  BY <1>3, ServersSteps, Zenon
<1>4. ASSUME NEW h \in Threads, AsksForSession(h) \/ SessionOpened(h) \/ Leaves(h)
      PROVE  TermInv'
  BY <1>4, Sessions, Zenon
<1>5. ASSUME NEW h \in Threads, IoAnswered(h) \/ IoRefused(h) \/ ReadLost(h)
      PROVE  TermInv'
  BY <1>5, IoSteps, Zenon
<1>6. ASSUME NEW h \in Threads,
             NewSession(h) \/ SessionRefused(h) \/ Polls(h) \/ Types(h) \/ GoneClosed(h)
      PROVE  TermInv'
  BY <1>6, TabsSteps, Zenon
<1> QED BY <1>1, <1>2, <1>3, <1>4, <1>5, <1>6, Zenon DEF TermNext

LEMMA TermInvTypes == TermInv => TermTypeOK
BY Zenon DEF TermInv, TermTypeOK, TermRequests, Tabs

LEMMA TermInvariant == TermSpec => []TermInv
<1>1. TermInit => TermInv
  BY TermInitially
<1>2. TermInv /\ [TermNext]_termVars => TermInv'
  BY TermStep
<1> QED BY <1>1, <1>2, PTL DEF TermSpec

LEMMA TermInvShows == TermInv => ShownInOrder
  BY Zenon DEF TermInv, OnScreen, ShownInOrder

(* Whatever overtakes what between the tab, its requests and the pump: the   *)
(* screen is in order, and "session ended" comes after all there will be.    *)
THEOREM TheScreenIsInOrder == TermSpec => []ShownInOrder
  BY TermInvShows, TermInvariant, PTL

-----------------------------------------------------------------------------
(* Strip: a strip that is being moved has no timer, so that the end of the   *)
(* drag starts the only one.                                                 *)
StripInv ==
  /\ StrTypeOK
  /\ OneTimer
  /\ drag = "moved" => ~timer

LEMMA ClampType == ASSUME StrTypeOK, NEW x \in Int, NEW w \in Nat
                   PROVE  Clamp(x, w) \in Int
  BY StripAssumption, SMT DEF StrTypeOK, Clamp, Smaller, Larger

LEMMA StripInitially == StrInit => StripInv
<1> SUFFICES ASSUME StrInit PROVE StripInv
  OBVIOUS
<1>1. pos \in Int /\ screen \in Screens
  BY StripAssumption, SMT DEF StrInit
<1>2. 0 \in Nat
  BY SMT
<1> QED BY <1>1, <1>2, Zenon DEF StrInit, StripInv, StrTypeOK, OneTimer

LEMMA StripKeeps == StripInv /\ [StrNext]_strVars => StripInv'
<1> SUFFICES ASSUME StripInv, [StrNext]_strVars PROVE StripInv'
  OBVIOUS
<1> USE DEF StripInv, StrTypeOK, OneTimer
<1>1. CASE StripPressed
  BY <1>1, Zenon DEF StripPressed
<1>2. CASE StripMoved
  <2>1. pos' \in Int
    BY <1>2, StripAssumption, ClampType, SMT DEF StripMoved
  <2> QED BY <1>2, <2>1, Zenon DEF StripMoved, RemoveTimer
<1>3. CASE StripDropped
  BY <1>3, Zenon DEF StripDropped, AddTimer
<1>4. CASE StripTapped
  BY <1>4, Zenon DEF StripTapped
<1>5. CASE StripAction
  BY <1>5, Zenon DEF StripAction
<1>6. CASE TimerFires
  BY <1>6, Zenon DEF TimerFires
<1>7. CASE UNCHANGED strVars
  BY <1>7, SMT DEF strVars
<1> QED BY <1>1, <1>2, <1>3, <1>4, <1>5, <1>6, <1>7 DEF StrNext

(* The strip never has a second timer, and an open one that is not touched   *)
(* has one (kiosk-controls.py on_release, toggle, expand).                   *)
THEOREM StripHasOneTimer == StrSpec => []OneTimer
<1>1. StripInv => OneTimer
  BY DEF StripInv
<1> QED BY <1>1, StripInitially, StripKeeps, PTL DEF StrSpec

(* What strip_x and clamp compute for any screen, strip and position.        *)
LEMMA PlaceOfHandle == StrTypeOK => HandleStays
<1> SUFFICES ASSUME StrTypeOK PROVE HandleStays
  OBVIOUS
<1> USE StripAssumption DEF StrTypeOK, HandleStays, Handle, Window, GrowsLeft, LeftEdge, RightEdge,
        Clamp, Smaller, Larger
<1>1. screen \in Nat /\ screen >= Collapsed
  BY SMT
<1>2. CASE open
  BY <1>1, <1>2, SMTT(30)
<1>3. CASE ~open
  BY <1>1, <1>3, SMTT(30)
<1> QED BY <1>2, <1>3

(* Wherever the strip was dragged and whatever the screen, opening it leaves *)
(* the handle under the finger if there is room, and the strip on the screen *)
(* (kiosk_controls.py strip_x).                                              *)
THEOREM HandleNeverMoves == StrSpec => []HandleStays
<1>1. StripInv => HandleStays
  BY PlaceOfHandle DEF StripInv
<1> QED BY <1>1, StripInitially, StripKeeps, PTL DEF StrSpec

-----------------------------------------------------------------------------
(* Presence: a streak of n means that the last n frames, and so the last m   *)
(* for every m up to n, all showed a person.                                 *)
Since(n) == {u \in seen.all : n <= u}

Trailing ==
  \A m \in 0..streak : \E n \in Nat : Cardinality(Since(n)) = m /\ Since(n) \subseteq seen.hits

(* A person in the file was last seen in the frame the file may still speak  *)
(* of, at the end of a streak as long as it has to be.                       *)
PresenceInv ==
  /\ PreTypeOK
  /\ seen \in [hits : SUBSET (0..now), all : SUBSET (0..now)]
  /\ seen.hits \subseteq seen.all
  /\ Trailing
  /\ lastSeen # Never => lastSeen \in seen.hits /\ InARow(lastSeen)
  /\ file.person => /\ file.available /\ lastSeen # Never
                    /\ file.timestamp - lastSeen <= Hold

LEMMA FramesFinite ==
  ASSUME NEW t \in Nat, NEW S \in SUBSET (0..t)
  PROVE  IsFiniteSet(S) /\ Cardinality(S) \in Nat
<1>1. IsFiniteSet(0..t)
  BY FS_Interval, SMT
<1> QED BY <1>1, FS_Subset, FS_CardinalityType

(* Nothing before: no frames, and so the empty streak.                       *)
LEMMA NoStreak ==
  ASSUME streak = 0, seen \in [hits : SUBSET (0..now), all : SUBSET (0..now)], now \in Nat
  PROVE  Trailing
<1>1. Since(now + 1) = {}
  BY SMT DEF Since
<1>2. now + 1 \in Nat /\ Cardinality({}) = 0
  BY FS_EmptySet, SMT
<1>3. \A m \in 0..streak : m = 0
  BY SMT
<1> QED BY <1>1, <1>2, <1>3, Zenon DEF Trailing

LEMMA PresenceInitially == PreInit => PresenceInv
<1> SUFFICES ASSUME PreInit PROVE PresenceInv
  OBVIOUS
<1> USE PresenceAssumption DEF PreInit, Never, NoFrames
<1>1. PreTypeOK
  BY SMT DEF PreTypeOK
<1>2. seen \in [hits : SUBSET (0..now), all : SUBSET (0..now)] /\ seen.hits \subseteq seen.all
  BY SMT
<1>3. Trailing
  BY <1>2, NoStreak, SMT
<1> QED BY <1>1, <1>2, <1>3, SMT DEF PresenceInv

(* A frame that shows a person makes every streak longer by one.             *)
LEMMA HitCounts ==
  ASSUME PresenceInv, now \notin seen.all, Trailing,
         seen' = [hits |-> seen.hits \cup {now}, all |-> seen.all \cup {now}],
         streak' = streak + 1
  PROVE  /\ Trailing'
         /\ \A m \in 1..(streak + 1) :
              \E n \in 0..now : /\ Cardinality({u \in seen'.all : n <= u}) = m
                                /\ {u \in seen'.all : n <= u} \subseteq seen'.hits
<1>0. /\ now \in Nat /\ streak \in Nat
      /\ seen.all \subseteq 0..now
      /\ seen'.all = seen.all \cup {now} /\ seen'.hits = seen.hits \cup {now}
  BY PresenceAssumption, SMT DEF PresenceInv, PreTypeOK
<1>1. ASSUME NEW m \in 1..(streak + 1)
      PROVE  \E n \in 0..now : /\ Cardinality({u \in seen'.all : n <= u}) = m
                               /\ {u \in seen'.all : n <= u} \subseteq seen'.hits
  <2>1. PICK n \in Nat : Cardinality(Since(n)) = m - 1 /\ Since(n) \subseteq seen.hits
    <3>1. m - 1 \in 0..streak
      BY <1>0, SMT
    <3> QED BY <3>1, Zenon DEF Trailing
  <2> DEFINE k == IF n > now THEN now ELSE n
  <2>2. k \in 0..now
    BY <1>0, SMT
  <2>3. {u \in seen'.all : k <= u} = Since(n) \cup {now} /\ now \notin Since(n)
    BY <1>0, SMT DEF Since
  <2>4. Cardinality(Since(n) \cup {now}) = m
    <3>1. IsFiniteSet(Since(n))
      <4>1. Since(n) \subseteq 0..now
        BY <1>0, SMT DEF Since
      <4> QED BY <1>0, <4>1, FramesFinite, Zenon
    <3>2. Cardinality(Since(n) \cup {now}) = Cardinality(Since(n)) + 1
      BY <2>3, <3>1, FS_AddElement
    <3> QED BY <2>1, <3>2, <1>0, SMT
  <2>5. Since(n) \cup {now} \subseteq seen'.hits
    BY <1>0, <2>1, SMT
  <2> HIDE DEF k
  <2> QED BY <2>2, <2>3, <2>4, <2>5, Zenon
<1>2. ASSUME NEW m \in 0..streak'
      PROVE  \E n \in Nat : /\ Cardinality({u \in seen'.all : n <= u}) = m
                            /\ {u \in seen'.all : n <= u} \subseteq seen'.hits
  <2>1. CASE m = 0
    <3>1. {u \in seen'.all : now + 1 <= u} = {} /\ now + 1 \in Nat
      BY <1>0, SMT
    <3>2. Cardinality({}) = 0 /\ {} \subseteq seen'.hits
      BY FS_EmptySet, Zenon
    <3> QED BY <2>1, <3>1, <3>2, Zenon
  <2>2. CASE m # 0
    <3>1. m \in 1..(streak + 1)
      BY <1>0, <2>2, SMT
    <3>2. 0..now \subseteq Nat
      BY <1>0, SMT
    <3> QED BY <1>1, <3>1, <3>2, Zenon
  <2> QED BY <2>1, <2>2
<1> QED BY <1>1, <1>2, Zenon DEF Trailing, Since

(* A row of frames before this one stays what it is.                         *)
LEMMA RowStays ==
  ASSUME PresenceInv, now \notin seen.all, NEW t \in seen.hits, InARow(t),
         seen'.all = seen.all \cup {now}, seen.hits \subseteq seen'.hits
  PROVE  InARow(t)'
<1>1. t \in 0..now /\ t # now /\ now \in Nat /\ seen.all \subseteq 0..now
  BY PresenceAssumption, SMT DEF PresenceInv, PreTypeOK
<1>2. PICK n \in 0..t : LET row == {u \in seen.all : n <= u /\ u <= t} IN
        Cardinality(row) = Hits /\ row \subseteq seen.hits /\ t \in row
  BY Zenon DEF InARow
<1>3. {u \in seen'.all : n <= u /\ u <= t} = {u \in seen.all : n <= u /\ u <= t}
  BY <1>1, SMT
<1> QED BY <1>2, <1>3, Zenon DEF InARow

(* Each frame, failure and tick of the clock preserves it.                   *)
LEMMA PresenceStepInv == PresenceInv /\ [PreNext]_preVars => PresenceInv'
<1> SUFFICES ASSUME PresenceInv, [PreNext]_preVars PROVE PresenceInv'
  OBVIOUS
<1>0. /\ now \in 0..MaxTime /\ now \in Nat /\ streak \in Nat /\ lastSeen \in Never..MaxTime
      /\ seen \in [hits : SUBSET (0..now), all : SUBSET (0..now)]
      /\ seen.hits \subseteq seen.all /\ vpc \in {"down", "opening", "streams"}
      /\ file \in [timestamp : Never..MaxTime, available : BOOLEAN, person : BOOLEAN]
  BY PresenceAssumption, SMT DEF PresenceInv, PreTypeOK
<1>1. CASE Ticks
  <2>1. /\ now' \in 0..MaxTime /\ UNCHANGED <<vpc, streak, lastSeen, file, seen>>
        /\ seen' \in [hits : SUBSET (0..now'), all : SUBSET (0..now')]
    BY <1>0, <1>1, PresenceAssumption, SMT DEF Ticks
  <2>2. Trailing' /\ PreTypeOK'
    BY <1>0, <2>1, Zenon DEF PresenceInv, Trailing, Since, PreTypeOK
  <2>3. lastSeen' # Never => lastSeen' \in seen'.hits /\ InARow(lastSeen)'
    BY <2>1, Zenon DEF PresenceInv, InARow
  <2> QED BY <1>0, <2>1, <2>2, <2>3, Zenon DEF PresenceInv
<1>2. CASE VisionStarts \/ StreamEnds
  <2>1. /\ now' = now /\ vpc' = "opening" /\ streak' = 0 /\ lastSeen' = Never
        /\ seen' = NoFrames /\ file' = Unavailable(now)
    BY <1>2, Zenon DEF VisionStarts, StreamEnds
  <2>2. /\ seen' \in [hits : SUBSET (0..now'), all : SUBSET (0..now')] /\ seen'.hits \subseteq seen'.all
        /\ now' \in Nat /\ streak' = 0
    BY <1>0, <2>1, SMT DEF NoFrames
  <2>3. Trailing'
    <3>1. {u \in seen'.all : now + 1 <= u} = {} /\ now + 1 \in Nat
      BY <1>0, <2>1, SMT DEF NoFrames
    <3>2. \A m \in 0..streak' : m = 0
      BY <2>1, SMT
    <3>3. Cardinality({}) = 0
      BY FS_EmptySet
    <3> QED BY <3>1, <3>2, <3>3, Zenon DEF Trailing, Since
  <2>4. PreTypeOK'
    BY <1>0, <2>1, PresenceAssumption, SMT DEF PreTypeOK, Unavailable, Never
  <2> QED BY <2>1, <2>2, <2>3, <2>4, SMT DEF PresenceInv, Unavailable
<1>3. CASE VisionOpens \/ VisionDies
  <2>1. vpc' \in {"down", "opening", "streams"} /\ UNCHANGED <<now, streak, lastSeen, file, seen>>
    BY <1>3, SMT DEF VisionOpens, VisionDies
  <2> QED BY <1>0, <2>1, Zenon DEF PresenceInv, PreTypeOK, Trailing, Since, InARow
<1>4. ASSUME NEW detected \in BOOLEAN, Looks(detected) PROVE PresenceInv'
  <2> DEFINE newStreak == IF detected THEN streak + 1 ELSE 0
             newSeen == IF newStreak >= Hits THEN now ELSE lastSeen
  <2>1. /\ vpc = "streams" /\ now \notin seen.all /\ streak' = newStreak /\ lastSeen' = newSeen
        /\ file' = [timestamp |-> now, available |-> TRUE,
                    person |-> newSeen # Never /\ now - newSeen <= Hold]
        /\ seen' = [hits |-> IF detected THEN seen.hits \cup {now} ELSE seen.hits,
                    all |-> seen.all \cup {now}]
        /\ now' = now /\ vpc' = vpc
    BY <1>4, Zenon DEF Looks
  <2>2. /\ seen'.all = seen.all \cup {now} /\ seen.hits \subseteq seen'.hits
        /\ seen' \in [hits : SUBSET (0..now'), all : SUBSET (0..now')] /\ seen'.hits \subseteq seen'.all
    BY <1>0, <2>1, SMT
  <2>3. PreTypeOK'
    BY <1>0, <2>1, PresenceAssumption, SMT DEF PreTypeOK, Never
  <2>4. Trailing' /\ (newStreak >= Hits => now \in seen'.hits /\ InARow(now)')
    <3>1. CASE detected
      <4>1. /\ seen' = [hits |-> seen.hits \cup {now}, all |-> seen.all \cup {now}]
            /\ streak' = streak + 1 /\ newStreak = streak + 1
        BY <2>1, <3>1, Zenon
      <4>2. /\ Trailing'
            /\ \A m \in 1..(streak + 1) :
                 \E n \in 0..now : /\ Cardinality({u \in seen'.all : n <= u}) = m
                                   /\ {u \in seen'.all : n <= u} \subseteq seen'.hits
        BY <2>1, <4>1, HitCounts, Zenon DEF PresenceInv
      <4>3. ASSUME newStreak >= Hits PROVE now \in seen'.hits /\ InARow(now)'
        <5>1. Hits \in 1..(streak + 1)
          BY <1>0, <4>1, <4>3, PresenceAssumption, SMT
        <5>2. PICK n \in 0..now : /\ Cardinality({u \in seen'.all : n <= u}) = Hits
                                  /\ {u \in seen'.all : n <= u} \subseteq seen'.hits
          BY <4>2, <5>1, Zenon
        <5>3. {u \in seen'.all : n <= u /\ u <= now} = {u \in seen'.all : n <= u}
          BY <1>0, <2>1, <2>2, SMT
        <5>4. now \in {u \in seen'.all : n <= u /\ u <= now} /\ now \in seen'.hits
          BY <1>0, <4>1, SMT
        <5> QED BY <2>1, <5>2, <5>3, <5>4, Zenon DEF InARow
      <4> QED BY <4>2, <4>3
    <3>2. CASE ~detected
      <4>1. streak' = 0 /\ newStreak = 0 /\ ~(0 >= Hits)
        BY <2>1, <3>2, PresenceAssumption, SMT
      <4>2. {u \in seen'.all : now + 1 <= u} = {} /\ now + 1 \in Nat
        BY <1>0, <2>2, SMT
      <4>3. (\A m \in 0..0 : m = 0) /\ Cardinality({}) = 0
        BY FS_EmptySet, SMT
      <4> HIDE DEF newStreak
      <4> QED BY <4>1, <4>2, <4>3, Zenon DEF Trailing, Since
    <3> QED BY <3>1, <3>2
  <2> HIDE DEF newStreak
  <2>5. lastSeen' # Never => lastSeen' \in seen'.hits /\ InARow(lastSeen)'
    <3>1. CASE newStreak >= Hits
      BY <2>1, <2>4, <3>1, Zenon DEF InARow
    <3>2. CASE ~(newStreak >= Hits)
      <4>1. lastSeen' = lastSeen
        BY <2>1, <3>2, Zenon
      <4>2. ASSUME lastSeen # Never PROVE lastSeen \in seen.hits /\ InARow(lastSeen)
        BY <4>2, Zenon DEF PresenceInv
      <4>3. ASSUME NEW t \in seen.hits, InARow(t) PROVE InARow(t)'
        BY <2>1, <2>2, <4>3, RowStays, Zenon
      <4> QED BY <2>2, <4>1, <4>2, <4>3, Zenon DEF InARow
    <3> QED BY <3>1, <3>2
  <2>6. file'.person => file'.available /\ lastSeen' # Never /\ file'.timestamp - lastSeen' <= Hold
    <3>1. /\ file'.person <=> (newSeen # Never /\ now - newSeen <= Hold)
          /\ file'.available /\ file'.timestamp = now
      BY <2>1, Zenon
    <3> QED BY <2>1, <3>1, Zenon
  <2> QED BY <2>2, <2>3, <2>4, <2>5, <2>6, Zenon DEF PresenceInv
<1>5. CASE UNCHANGED preVars
  BY <1>0, <1>5, Zenon DEF preVars, PresenceInv, PreTypeOK, Trailing, Since, InARow
<1> QED BY <1>1, <1>2, <1>3, <1>4, <1>5, Zenon DEF PreNext

(* For any hold time, number of hits and age: when the panel shows a person, *)
(* there was a streak of frames with one not longer ago than the two bounds  *)
(* (vision.py Presence, status.py).                                          *)
THEOREM PresenceIsSeen == PreSpec => []PresenceMeansSeen
<1>1. PresenceInv => PresenceMeansSeen
  <2> SUFFICES ASSUME PresenceInv, Status.person PROVE \E t \in seen.hits : InARow(t) /\ now - t < Hold + MaxAge
    BY Zenon DEF PresenceMeansSeen
  <2>1. /\ file.person /\ now - file.timestamp < MaxAge
    <3> DEFINE age == now - file.timestamp
               available == file.available /\ 0 <= age /\ age < MaxAge
    <3>1. Status = [available |-> available, person |-> available /\ file.person]
      BY Zenon DEF Status
    <3> HIDE DEF available
    <3>2. available /\ file.person
      BY <3>1, Zenon
    <3> QED BY <3>2, Zenon DEF available
  <2>2. /\ lastSeen # Never /\ file.timestamp - lastSeen <= Hold
        /\ lastSeen \in seen.hits /\ InARow(lastSeen)
    BY <2>1, Zenon DEF PresenceInv
  <2>3. now \in Int /\ file.timestamp \in Int /\ lastSeen \in Int
    BY PresenceAssumption, SMT DEF PresenceInv, PreTypeOK, Never
  <2>4. now - lastSeen < Hold + MaxAge
    BY <2>1, <2>2, <2>3, PresenceAssumption, SMT
  <2> QED BY <2>2, <2>4, Zenon
<1> QED BY <1>1, PresenceInitially, PresenceStepInv, PTL DEF PreSpec
=============================================================================
