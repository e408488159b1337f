--------------------------- MODULE ApprovedChanges ---------------------------
(***************************************************************************)
(* What planning and approving a change of an app promises: a plan takes   *)
(* effect at most once, and only on the installed state it was made for.   *)
(*                                                                         *)
(* Two things change an app without a plan: the repair of an interrupted   *)
(* replacement, which no plan outlives in effect because the state differs *)
(* from what the plan saw, and an add-on that rewrites its own options.    *)
(* The promise says nothing of plans made before such a rewrite.           *)
(***************************************************************************)
EXTENDS Integers

CONSTANTS
    MaxPlans,  \* bound: plans ever made
    States     \* the installed states a plan can tell apart

VARIABLES
    made,      \* how many plans there have been
    open,      \* plans that may still take effect
    seen,      \* the state each plan was made for
    tuned,     \* plans an add-on has rewritten its options behind
    state,     \* the installed state
    broken     \* a replacement was interrupted and not repaired

vars == <<made, open, seen, tuned, state, broken>>

Plans == 1..MaxPlans

Init ==
    /\ made = 0
    /\ open = {}
    /\ tuned = {}
    /\ broken = FALSE
    /\ seen \in [Plans -> States]
    /\ state \in States

(* Making a plan changes nothing, but forgets plans that have expired *)
Propose ==
    /\ made < MaxPlans
    /\ ~broken
    /\ made' = made + 1
    /\ open' \subseteq open \cup {made'}
    /\ seen' = [seen EXCEPT ![made'] = state]
    /\ UNCHANGED <<tuned, state, broken>>

(* The approved change, in full or as far as it got before it failed *)
Apply(p) ==
    /\ p \in open
    /\ ~broken
    /\ p \notin tuned => state = seen[p]
    /\ state' \in States
    /\ broken' \in BOOLEAN
    /\ open' \subseteq open \ {p}
    /\ UNCHANGED <<made, seen, tuned>>

Forget ==
    /\ open' \subseteq open
    /\ UNCHANGED <<made, seen, tuned, state, broken>>

Repair ==
    /\ broken
    /\ broken' = FALSE
    /\ state' \in States
    /\ UNCHANGED <<made, open, seen, tuned>>

Tune ==
    /\ state' \in States
    /\ tuned' = 1..made
    /\ UNCHANGED <<made, open, seen, broken>>

Next == Propose \/ Forget \/ Repair \/ Tune \/ \E p \in Plans : Apply(p)

Spec == Init /\ [][Next]_vars
=============================================================================
