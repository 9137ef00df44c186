-------------------------- MODULE TerminalSession --------------------------
(***************************************************************************)
(* What the PTY bridge promises its users: one terminal session, whose     *)
(* output, the chunks 1, 2, ..., goes two ways. It is kept for the calls   *)
(* that poll, who share it, and shown to the clients that watch. How the   *)
(* bridge does it, with which goroutines and locks, is PtyBridge.          *)
(***************************************************************************)
EXTENDS Integers, Sequences

CONSTANTS Clients,    \* who may watch
          Callers,    \* the calls that may poll
          Keep        \* the newest chunks that are never thrown away

VARIABLES
  phase,      \* "none", "running", "exited" (the program ended), "over"
  pending,    \* the output kept for the next poll
  polled,     \* the output the polls have returned so far
  seen,       \* the output each client has been shown
  told        \* who has been told that the program ended

vars == <<phase, pending, polled, seen, told>>

InitSession ==
  /\ phase = "none"
  /\ pending = << >> /\ polled = << >>
  /\ seen = [c \in Clients |-> << >>] /\ told = {}

\* The newest chunk: it is kept until there is a newer one, or polled.
Newest ==
  LET all == polled \o pending IN IF all = << >> THEN 0 ELSE all[Len(all)]

Live == phase \in {"running", "exited"}

Begin == phase = "none" /\ phase' = "running" /\ UNCHANGED <<pending, polled, seen, told>>

\* A chunk arrives, and as many of the oldest may go as leave Keep of them.
Emit ==
  LET all == Append(pending, Newest + 1)
  IN  /\ Live
      /\ \E k \in 1 .. Len(all) :
           /\ k = 1 \/ Len(all) - k + 1 >= Keep
           /\ pending' = SubSeq(all, k, Len(all))
      /\ UNCHANGED <<phase, polled, seen, told>>

\* A poll returns all that is kept.
Take ==
  /\ Live
  /\ polled' = polled \o pending /\ pending' = << >>
  /\ UNCHANGED <<phase, seen, told>>

\* A client is shown the newest chunk: its first, or the one after its last.
Show(c) ==
  /\ Live /\ Newest > 0
  /\ seen[c] # << >> => Newest = seen[c][Len(seen[c])] + 1
  /\ seen' = [seen EXCEPT ![c] = Append(@, Newest)]
  /\ UNCHANGED <<phase, pending, polled, told>>

\* The program ends, which may be told, and then or earlier the session.
Exit == phase = "running" /\ phase' = "exited" /\ UNCHANGED <<pending, polled, seen, told>>

Tell(h) ==
  /\ phase = "exited"
  /\ told' = told \cup {h}
  /\ UNCHANGED <<phase, pending, polled, seen>>

Over == Live /\ phase' = "over" /\ UNCHANGED <<pending, polled, seen, told>>

Step ==
  \/ Begin \/ Emit \/ Take \/ Exit \/ Over
  \/ \E c \in Clients : Show(c)
  \/ \E h \in Clients \cup Callers : Tell(h)

Session == InitSession /\ [][Step]_vars
=============================================================================
