-------------------------- MODULE MCAppTransaction --------------------------
(* Instances of AppTransaction for TLC. *)
EXTENDS AppTransaction

(* Version 2 asks for a privilege that the options of version 1 do not grant *)
MCWidens == {<<1, 2>>}
MCNoWidening == {}
=============================================================================
