---------------------------- MODULE SharedOutput ----------------------------
(***************************************************************************)
(* What the sessions of the local proxy promise each other about the       *)
(* output of the one container, with nothing of their goroutines and       *)
(* calls: the chunks 1, 2, ... are printed, wait until a reader takes all  *)
(* that wait, and belong to that reader alone. A reader is shown what it   *)
(* took before it takes more, and after its end nothing. One that is gone  *)
(* may still take, and is shown nothing.                                   *)
(***************************************************************************)
EXTENDS Naturals, Sequences

CONSTANTS Readers

VARIABLES
  printed,    \* how many chunks there were
  pending,    \* those nobody has taken
  taken,      \* what each reader has taken
  shown,      \* what each reader was shown
  gone,       \* the readers that left
  ended       \* the readers that were told the end

vars == <<printed, pending, taken, shown, gone, ended>>

InitOutput ==
  /\ printed = 0 /\ pending = << >>
  /\ taken = [r \in Readers |-> << >>]
  /\ shown = [r \in Readers |-> << >>]
  /\ gone = {} /\ ended = {}

Emit ==
  /\ printed' = printed + 1
  /\ pending' = Append(pending, printed + 1)
  /\ UNCHANGED <<taken, shown, gone, ended>>

\* The container stops, and what waits in it is nobody's.
Lose ==
  /\ pending' = << >>
  /\ UNCHANGED <<printed, taken, shown, gone, ended>>

Take(r) ==
  /\ r \notin ended
  /\ r \notin gone => shown[r] = taken[r]
  /\ taken' = [taken EXCEPT ![r] = @ \o pending]
  /\ pending' = << >>
  /\ UNCHANGED <<printed, shown, gone, ended>>

Show(r) ==
  /\ r \notin gone \cup ended
  /\ shown' = [shown EXCEPT ![r] = taken[r]]
  /\ UNCHANGED <<printed, pending, taken, gone, ended>>

End(r) ==
  /\ r \notin gone \cup ended
  /\ shown[r] = taken[r]
  /\ ended' = ended \cup {r}
  /\ UNCHANGED <<printed, pending, taken, shown, gone>>

Leave(r) ==
  /\ gone' = gone \cup {r}
  /\ UNCHANGED <<printed, pending, taken, shown, ended>>

Step ==
  \/ Emit \/ Lose
  \/ \E r \in Readers : Take(r) \/ Show(r) \/ End(r) \/ Leave(r)

Sharing == InitOutput /\ [][Step]_vars
=============================================================================
