---------------------------- MODULE KeyDelivery ----------------------------
(***************************************************************************)
(* What the Durable Object promises about keys, with nothing of its tasks  *)
(* and calls: the keys 1, 2, ... are pressed, travel on lanes and are      *)
(* typed. A lane is a stream, which is opened once, begins with a greeting *)
(* and keeps its keys in order, or a post, which carries one key at a      *)
(* time. Keys may be lost; none is typed twice, none is put on a stream    *)
(* that is shut, and only keys of different lanes may overtake each other. *)
(***************************************************************************)
EXTENDS Naturals, Sequences

CONSTANTS Streams, Posts

Lanes == Streams \cup Posts

VARIABLES
  pressed,    \* how many keys there were
  stream,     \* each stream: "new", "open", "shut"
  lane,       \* what is on its way on each lane
  typed       \* the keys that arrived

vars == <<pressed, stream, lane, typed>>

Greeting == 0

InitDelivery ==
  /\ pressed = 0 /\ typed = << >>
  /\ stream = [s \in Streams |-> "new"]
  /\ lane = [l \in Lanes |-> << >>]

Open(s) ==
  /\ stream[s] = "new"
  /\ stream' = [stream EXCEPT ![s] = "open"]
  /\ lane' = [lane EXCEPT ![s] = <<Greeting>>]
  /\ UNCHANGED <<pressed, typed>>

\* A key is pressed, and takes an open stream or a free post.
Send(l) ==
  /\ IF l \in Streams THEN stream[l] = "open" ELSE lane[l] = << >>
  /\ pressed' = pressed + 1
  /\ lane' = [lane EXCEPT ![l] = Append(@, pressed + 1)]
  /\ UNCHANGED <<stream, typed>>

\* A key is pressed on a stream that nobody has at its other end.
Vanish(s) ==
  /\ stream[s] = "shut"
  /\ pressed' = pressed + 1
  /\ UNCHANGED <<stream, lane, typed>>

\* What is first on a lane arrives.
Arrive(l) ==
  /\ lane[l] # << >>
  /\ lane' = [lane EXCEPT ![l] = Tail(@)]
  /\ typed' = IF Head(lane[l]) = Greeting THEN typed ELSE Append(typed, Head(lane[l]))
  /\ UNCHANGED <<pressed, stream>>

\* A post fails, or finds nobody to type for.
Lose(p) ==
  /\ lane' = [lane EXCEPT ![p] = << >>]
  /\ UNCHANGED <<pressed, stream, typed>>

\* A stream is shut and still delivers what is on it ...
Shut(s) ==
  /\ stream[s] = "open"
  /\ stream' = [stream EXCEPT ![s] = "shut"]
  /\ UNCHANGED <<pressed, lane, typed>>

\* ... or breaks, open or shut, and delivers what is on it up to some point ...
Cut(s) ==
  /\ stream[s] # "new"
  /\ stream' = [stream EXCEPT ![s] = "shut"]
  /\ \E n \in 0 .. Len(lane[s]) : lane' = [lane EXCEPT ![s] = SubSeq(@, 1, n)]
  /\ UNCHANGED <<pressed, typed>>

\* ... or all that are open break at once, and every stream loses what is on it.
Break ==
  /\ stream' = [s \in Streams |-> IF stream[s] = "open" THEN "shut" ELSE stream[s]]
  /\ lane' = [l \in Lanes |-> IF l \in Streams THEN << >> ELSE lane[l]]
  /\ UNCHANGED <<pressed, typed>>

Step ==
  \/ \E s \in Streams : Open(s) \/ Vanish(s) \/ Shut(s) \/ Cut(s)
  \/ \E l \in Lanes : Send(l) \/ Arrive(l)
  \/ \E p \in Posts : Lose(p)
  \/ Break

Delivery == InitDelivery /\ [][Step]_vars
=============================================================================
