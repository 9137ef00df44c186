---------------------------- MODULE MCPtyBridge ----------------------------
(* Model values and symmetry for model-checking PtyBridge. *)
EXTENDS PtyBridge, TLC

CONSTANTS c1, c2, r1, r2, r3

OneConn == {c1}
TwoConns == {c1, c2}
NoConns == {}
NoRequests == {}
OneRequest == {r1}
ThreeRequests == {r1, r2, r3}

NoKinds == {}
NoMessages == {}
Pings == {"ping"}
Typed == {"data", "resize"}

LiveKinds == {"writeread", "status"}
PollKinds == {"init", "read", "writeread"}

Symmetry == Permutations(TwoConns) \cup Permutations(ThreeRequests)
=============================================================================
