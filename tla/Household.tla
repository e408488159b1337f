------------------------------ MODULE Household ------------------------------
(***************************************************************************)
(* What restoring an appliance promises: there is always one current state *)
(* tree, a restore or import replaces it in a single step and keeps what   *)
(* it replaced, and one that does not finish changes nothing.              *)
(***************************************************************************)
EXTENDS Integers

CONSTANT MaxTrees

VARIABLES
    current,   \* the state tree the appliance would start with
    retired    \* the trees that were current before it

Trees == 1..MaxTrees

Init == current = 1 /\ retired = {}

Replace ==
    /\ current' \in Trees \ (retired \cup {current})
    /\ retired' = retired \cup {current}

Spec == Init /\ [][Replace]_<<current, retired>>
=============================================================================
