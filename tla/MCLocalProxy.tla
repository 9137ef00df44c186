---------------------------- MODULE MCLocalProxy ----------------------------
(* Model values for model-checking LocalProxy. *)
EXTENDS LocalProxy

CONSTANTS s1, s2

OneSession == {s1}
TwoSessions == {s1, s2}
=============================================================================
