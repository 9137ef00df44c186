------------------------- MODULE RelaySessionProofs -------------------------
(***************************************************************************)
(* What holds of RelaySession for every number of keys, window changes and *)
(* messages, whatever the worker and the SSH client do.                    *)
(***************************************************************************)
EXTENDS RelaySession, TLAPS

\* The goroutine that writes is the one that holds the mutex: the inductive
\* form of OneWriter.
MutexInv == \A g \in Senders : pc[g] = "write" <=> mu = g

\* No goroutine runs before main waits, and none once main has gone on.
MainInv ==
  /\ main \in {"start", "init"} => \A g \in Routines : pc[g] = "none"
  /\ main = "start" => ws = "none"

\* Whoever closed done has returned: the inductive form of DoneClosedOnce.
DoneInv == done => pc["output"] = "over"

IInv == TypeOK /\ MutexInv /\ MainInv /\ NothingAfterEnd

Labels == {"none", "select", "read", "lock", "write", "show", "over"}

-----------------------------------------------------------------------------
LEMMA SendersDistinct ==
  /\ Free \notin Senders /\ Senders \subseteq Routines
  /\ "output" \in Routines /\ "output" \notin Senders
  /\ {"ping", "input", "resize"} = Senders
<1>1. \A x \in Senders : x \in Routines /\ x # "output"
  BY DEF Senders, Routines
<1> QED
  BY <1>1, RelaySessionAssumption DEF Senders, Routines

LEMMA InitIInv == Init => IInv
<1> SUFFICES ASSUME Init PROVE IInv
  OBVIOUS
<1>1. TypeOK
  <2>1. inbox \in Seq({"data", "exit"}) /\ pc \in [Routines -> Labels]
    BY DEF Init, Labels
  <2>2. received \in 0 .. MaxIn /\ keys \in 0 .. MaxKeys /\ wins \in 0 .. MaxWins
    BY RelaySessionAssumption DEF Init
  <2>3. stdin \in 0 .. keys /\ winch \in 0 .. 1
    BY DEF Init
  <2> QED
    BY <2>1, <2>2, <2>3 DEF Init, TypeOK, Labels
<1>2. \A g \in Senders : pc[g] # "write" /\ mu # g
  BY SendersDistinct DEF Init
<1>3. MutexInv
  BY <1>2 DEF MutexInv
<1> QED
  BY <1>1, <1>3 DEF Init, IInv, MainInv, NothingAfterEnd

\* A goroutine that moves without the mutex disturbs none of the parts, as long
\* as it has begun and main has not gone on without it.
LEMMA GoroutineMoves ==
  ASSUME IInv, NEW g \in Routines, NEW l \in Labels \ {"none", "write"},
         pc[g] \notin {"none", "over", "write"}, Goto(g, l),
         UNCHANGED <<main, mu, ws>>
  PROVE  pc' \in [Routines -> Labels] /\ MutexInv' /\ MainInv' /\ NothingAfterEnd'
<1>1. main = "wait"
  BY DEF IInv, TypeOK, MainInv, NothingAfterEnd
<1>2. pc' \in [Routines -> Labels]
  BY DEF Goto, IInv, TypeOK, Labels
<1>3. MutexInv'
  BY SendersDistinct DEF Goto, IInv, TypeOK, MutexInv
<1> QED
  BY <1>1, <1>2, <1>3 DEF MainInv, NothingAfterEnd

LEMMA MainStep ==
  ASSUME IInv, Main
  PROVE  IInv'
<1> USE SendersDistinct DEF IInv, wireVars, sshVars
<1>1. CASE GivesUp
  <2>1. mu = Free
    BY <1>1 DEF GivesUp, MainInv, MutexInv, TypeOK
  <2> QED
    BY <1>1, <2>1 DEF GivesUp, TypeOK, MutexInv, MainInv, NothingAfterEnd
<1>2. CASE Dials
  BY <1>2 DEF Dials, TypeOK, MutexInv, MainInv, NothingAfterEnd
<1>3. CASE Begins
  <2>1. \A g \in Senders : mu # g
    BY <1>3 DEF Begins, MainInv, MutexInv
  <2>2. /\ pc' \in [Routines -> Labels]
        /\ \A g \in Senders : pc'[g] # "write"
    BY <1>3 DEF Begins, Labels, Routines, Senders
  <2> QED
    BY <1>3, <2>1, <2>2 DEF Begins, Labels, TypeOK, MutexInv, MainInv, NothingAfterEnd
<1>4. CASE Ends
  <2>1. mu = Free
    BY <1>4 DEF Ends, MutexInv, TypeOK
  <2> QED
    BY <1>4, <2>1 DEF Ends, TypeOK, MutexInv, MainInv, NothingAfterEnd
<1> QED
  BY <1>1, <1>2, <1>3, <1>4 DEF Main

LEMMA SendStep ==
  ASSUME IInv, NEW g \in Senders, Sends(g)
  PROVE  IInv'
<1> USE SendersDistinct DEF IInv, wireVars, sshVars
<1>1. g \in Routines
  OBVIOUS
<1>2. main = "wait"
  BY <1>1 DEF Sends, Locks, Writes, WriteFails, SeesDone, TypeOK, MainInv, NothingAfterEnd
<1>3. CASE Locks(g)
  BY <1>1, <1>2, <1>3 DEF Locks, Goto, TypeOK, MutexInv, MainInv, NothingAfterEnd
<1>4. CASE Writes(g) \/ WriteFails(g)
  BY <1>1, <1>2, <1>4 DEF Writes, WriteFails, Goto, TypeOK, MutexInv, MainInv, NothingAfterEnd
<1>5. CASE SeesDone(g)
  BY <1>1, <1>5, GoroutineMoves DEF SeesDone, TypeOK, Labels
<1> QED
  BY <1>3, <1>4, <1>5 DEF Sends

LEMMA LoopStep ==
  ASSUME IInv, Ticks \/ Input \/ Resize
  PROVE  IInv'
<1> USE SendersDistinct DEF IInv, wireVars, sshVars
<1>1. "ping" \in Routines /\ "input" \in Routines /\ "resize" \in Routines
  OBVIOUS
<1>2. CASE Ticks
  BY <1>1, <1>2, GoroutineMoves DEF Ticks, TypeOK, Labels
<1>3. CASE InputWaits \/ InputEnds
  BY <1>1, <1>3, GoroutineMoves DEF InputWaits, InputEnds, TypeOK, Labels
<1>4. CASE InputReads
  <2>1. stdin' \in 0 .. keys'
    BY <1>4, RelaySessionAssumption DEF InputReads, TypeOK
  <2> QED
    BY <1>1, <1>4, <2>1, GoroutineMoves DEF InputReads, TypeOK, Labels
<1>5. CASE ResizeReads \/ ResizeEnds
  BY <1>1, <1>5, GoroutineMoves DEF ResizeReads, ResizeEnds, TypeOK, Labels
<1> QED
  BY <1>2, <1>3, <1>4, <1>5 DEF Input, Resize

LEMMA OutputStep ==
  ASSUME IInv, Output
  PROVE  IInv'
<1> USE SendersDistinct DEF IInv, wireVars, sshVars
<1>1. inbox # << >> => Tail(inbox) \in Seq({"data", "exit"})
  BY DEF TypeOK
<1>2. CASE OutputReads \/ OutputExits
  BY <1>1, <1>2, GoroutineMoves DEF OutputReads, OutputExits, TypeOK, Labels
<1>3. CASE OutputShows \/ OutputFails
  BY <1>3, GoroutineMoves DEF OutputShows, OutputFails, TypeOK, Labels
<1> QED
  BY <1>2, <1>3 DEF Output

LEMMA PeerStep ==
  ASSUME IInv, Peers
  PROVE  IInv'
<1> USE DEF IInv, wireVars, sshVars
<1>1. ASSUME NEW m \in {"data", "exit"}, WorkerSends(m) PROVE IInv'
  <2>1. inbox' \in Seq({"data", "exit"}) /\ received' \in 0 .. MaxIn
    BY <1>1, RelaySessionAssumption DEF WorkerSends, TypeOK
  <2> QED
    BY <1>1, <2>1 DEF WorkerSends, TypeOK, MutexInv, MainInv, NothingAfterEnd
<1>2. CASE WorkerBreaks
  BY <1>2 DEF WorkerBreaks, TypeOK, MutexInv, MainInv, NothingAfterEnd
<1>3. CASE UserTypes
  <2>1. keys' \in 0 .. MaxKeys /\ stdin' \in 0 .. keys'
    BY <1>3, RelaySessionAssumption DEF UserTypes, TypeOK
  <2> QED
    BY <1>3, <2>1 DEF UserTypes, TypeOK, MutexInv, MainInv, NothingAfterEnd
<1>4. CASE UserResizes
  <2>1. winch' \in 0 .. 1 /\ wins' \in 0 .. MaxWins
    BY <1>4, RelaySessionAssumption DEF UserResizes, TypeOK
  <2> QED
    BY <1>4, <2>1 DEF UserResizes, TypeOK, MutexInv, MainInv, NothingAfterEnd
<1>5. CASE UserHangsUp
  BY <1>5 DEF UserHangsUp, TypeOK, MutexInv, MainInv, NothingAfterEnd
<1> QED
  BY <1>1, <1>2, <1>3, <1>4, <1>5 DEF Peers

-----------------------------------------------------------------------------
THEOREM Invariance == Spec => []IInv
<1>1. IInv /\ [Next]_vars => IInv'
  <2> SUFFICES ASSUME IInv, [Next]_vars PROVE IInv'
    OBVIOUS
  <2>1. CASE UNCHANGED vars
    BY <2>1 DEF vars, wireVars, sshVars, IInv, TypeOK, MutexInv, MainInv, NothingAfterEnd
  <2> QED
    BY <2>1, MainStep, SendStep, LoopStep, OutputStep, PeerStep DEF Next
<1> QED
  BY <1>1, InitIInv, PTL DEF Spec

\* The session's state keeps its types, for every number of keys and messages.
THEOREM TypeCorrect == Spec => []TypeOK
<1>1. IInv => TypeOK
  BY DEF IInv
<1> QED
  BY <1>1, Invariance, PTL

\* The WebSocket has one writer at a time, as gorilla/websocket demands.
THEOREM WritesExclude == Spec => []OneWriter
<1>1. IInv => OneWriter
  BY DEF IInv, MutexInv, OneWriter
<1> QED
  BY <1>1, Invariance, PTL

\* Once the session has been told to exit nothing of it runs any more.
THEOREM EndIsEnd == Spec => []NothingAfterEnd
<1>1. IInv => NothingAfterEnd
  BY DEF IInv
<1> QED
  BY <1>1, Invariance, PTL

LEMMA DoneStep ==
  ASSUME IInv, DoneInv, [Next]_vars
  PROVE  DoneInv'
<1> USE DEF IInv, wireVars, sshVars, DoneInv
<1>1. CASE Main
  <2>1. pc["output"] = "over" => main # "init"
    BY SendersDistinct DEF MainInv
  <2> QED
    BY <1>1, <2>1 DEF Main, GivesUp, Dials, Begins, Ends
<1>2. CASE Output
  BY <1>2, SendersDistinct
     DEF Output, OutputReads, OutputShows, OutputExits, OutputFails, Goto, TypeOK
<1>3. ASSUME NEW g \in Senders, NEW l, Goto(g, l), UNCHANGED done
      PROVE  DoneInv'
  BY <1>3, SendersDistinct DEF Goto, TypeOK
<1>4. ASSUME NEW g \in Senders, Sends(g)
      PROVE  DoneInv'
  BY <1>3, <1>4 DEF Sends, Locks, Writes, WriteFails, SeesDone
<1>5. CASE Ticks \/ Input \/ Resize
  BY <1>3, <1>5, SendersDistinct
     DEF Ticks, Input, InputWaits, InputReads, InputEnds, Resize, ResizeReads, ResizeEnds
<1>6. CASE Peers \/ UNCHANGED vars
  BY <1>6 DEF Peers, WorkerSends, WorkerBreaks, UserTypes, UserResizes, UserHangsUp, vars
<1> QED
  BY <1>1, <1>2, <1>4, <1>5, <1>6 DEF Next

\* No goroutine of a session closes done a second time.
THEOREM ClosedOnce == Spec => DoneClosedOnce
<1>1. Init => DoneInv
  BY DEF Init, DoneInv
<1>2. DoneInv /\ [Next]_vars => [OutputExits \/ OutputFails => ~done]_vars
  BY DEF DoneInv, OutputExits, OutputFails
<1>3. IInv /\ DoneInv /\ [Next]_vars => DoneInv'
  BY DoneStep
<1> QED
  BY <1>1, <1>2, <1>3, Invariance, PTL DEF Spec, DoneClosedOnce
=============================================================================
