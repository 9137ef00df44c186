---------------------------- MODULE MCWorkspace ----------------------------
(* Two connections, and two repositories of one name: the first asks for one *)
(* of them, or for none that the relay can read, the second for either.      *)
EXTENDS Workspace, TLC

CONSTANTS c1, c2, r1, r2, app

TwoConns == {c1, c2}
TwoRepos == {r1, r2}
Name == [r \in TwoRepos |-> app]

Arg(f, g, s, r) == [form |-> f, git |-> g, slash |-> s, repo |-> r]

Typed ==
  c1 :> {Arg("ssh", TRUE, TRUE, r1), Arg("bare", TRUE, FALSE, r1)} @@
  c2 :> {Arg("https", TRUE, TRUE, r1), Arg("short", FALSE, FALSE, r2)}
=============================================================================
