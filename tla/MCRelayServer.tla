--------------------------- MODULE MCRelayServer ---------------------------
(* Two keys and two logins: they race with one key, or use one each.        *)
EXTENDS RelayServer

CONSTANTS k1, k2, l1, l2

TwoKeys == {k1, k2}
TwoLogins == {l1, l2}
=============================================================================
