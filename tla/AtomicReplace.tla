---------------------------- MODULE AtomicReplace ----------------------------
(***************************************************************************)
(* What installing, updating and removing a managed app promises: the app  *)
(* is at one version with one set of data, a replacement moves both in a   *)
(* single step, and a replacement that does not happen moves neither.      *)
(* Everything between two such steps (journal, rollback copy, containers,  *)
(* failures, crashes) is invisible here.                                   *)
(***************************************************************************)
EXTENDS Integers

CONSTANTS MaxVersion, MaxWrites

VARIABLES
    app,      \* the version on record and whether it is installed
    content   \* its data: whether any, the version that wrote it, and how often

Versions == 1..MaxVersion

(* Data the app at version v may have written on top of what is there *)
WrittenBy(v) ==
    {c \in [state : {"whole"}, fmt : {v}, gen : 0..MaxWrites] : c.gen > content.gen}

Init ==
    /\ app = [ver |-> 0, installed |-> FALSE]
    /\ content = [state |-> "none", fmt |-> 0, gen |-> 0]

Prepare ==
    /\ content.state = "none"
    /\ content' = [content EXCEPT !.state = "whole"]
    /\ UNCHANGED app

Write ==
    /\ app.installed
    /\ content' \in WrittenBy(app.ver)
    /\ UNCHANGED app

(* The version changes together with whatever the new version made of the data *)
Adopt(v) ==
    /\ v >= app.ver
    /\ content.state = "whole"
    /\ app' = [ver |-> v, installed |-> TRUE]
    /\ content' \in {content} \cup WrittenBy(v)

Remove ==
    /\ app.installed
    /\ app' = [app EXCEPT !.installed = FALSE]
    /\ UNCHANGED content

Next == Prepare \/ Write \/ (\E v \in Versions : Adopt(v)) \/ Remove

Spec == Init /\ [][Next]_<<app, content>>
=============================================================================
