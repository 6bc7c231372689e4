----------------------------- MODULE MCXonoticLink -----------------------------
(* Instances of XonoticLink for TLC. *)
EXTENDS XonoticLink

Troubles == [NO |-> 6, CHALLENGE |-> 5]
OneRefused == [CHALLENGE |-> 4]
=============================================================================
