------------------------ MODULE PtyBridgeRefinement ------------------------
(***************************************************************************)
(* The PTY bridge implements TerminalSession, for every number of          *)
(* connections and requests, every buffer size and however much is         *)
(* printed, and its streams have no gaps.                                  *)
(***************************************************************************)
EXTENDS PtyBridgeProofs

-----------------------------------------------------------------------------
(* The invariant, on top of that of PtyBridgeProofs.                        *)

\* Where a connection's handler is before it registers its client.
Early == {"idle", "await", "once", "init", "post", "join"}

\* When the process is over nothing of it runs.
HaltInv == ~alive => child = "exited" /\ \A g \in Goroutines : pc[g] = "halted"

\* A client is registered once, and shown nothing before.
JoinInv == \A c \in Conns : pc[c] \in Early => wire[c] = << >> /\ c \notin clients

\* The map does not change under the reader's Broadcast, and the client it is
\* at is not to come again.
CastInv ==
  pc["reader"] = "cast" =>
    /\ todo["reader"] \subseteq clients
    /\ at["reader"] \in clients \cup {NoOne} /\ at["reader"] \notin todo["reader"]

\* What the buffer and the polls have got ends with the last chunk stored.
NewestInv == alive => Terminal!Newest = Stored

\* Whoever reads the flags has nothing left to fail in.
AnswerInv ==
  \A r \in Requests : answer[r] = "exit" => pc[r] \in {"drain", "done", "halted"}

SInv == HaltInv /\ JoinInv /\ CastInv /\ StreamComplete /\ NewestInv /\ AnswerInv

-----------------------------------------------------------------------------
(* Steps that have nothing to do with the output.                           *)

\* No handler joins or goes back, no connection with a stream comes up again.
Bystander ==
  /\ \A g \in Casters : pc'[g] = pc[g]
  /\ \A c \in Conns : pc'[c] \in Early => pc[c] \in Early
  /\ \A r \in Requests : answer'[r] = "exit" => pc'[r] \in {"drain", "done", "halted"}
  /\ ~alive => child' = "exited" /\ \A g \in Goroutines : pc'[g] = "halted"
  /\ \A c \in Conns : conn'[c] = "up" => conn[c] = "up" \/ wire[c] = << >>
  /\ UNCHANGED <<alive, clients, buffer, drained, taken, wire, todo, at>>

LEMMA BystanderKeeps ==
  ASSUME IInv, SInv, Bystander
  PROVE  SInv'
<1>1. pc'["reader"] = pc["reader"]
  BY DEF Bystander, Casters
<1>2. HaltInv' /\ JoinInv' /\ AnswerInv'
  BY DEF Bystander, SInv, HaltInv, JoinInv, AnswerInv
<1>3. CastInv'
  BY <1>1 DEF Bystander, SInv, CastInv
<1>4. NewestInv'
  BY <1>1 DEF Bystander, SInv, NewestInv, Terminal!Newest, Stored
<1>5. \A c \in Conns : CastTo(c)' = CastTo(c)
  BY <1>1 DEF Bystander, CastTo
<1>6. StreamComplete'
  BY <1>5 DEF Bystander, SInv, StreamComplete, IInv, TypeOK
<1> QED
  BY <1>2, <1>3, <1>4, <1>6 DEF SInv

\* Nothing that the session shows changes.
Unseen ==
  /\ UNCHANGED <<alive, session, child, buffer, drained, wire, toldExit>>
  /\ \A r \in Requests : answer'[r] = "exit" <=> answer[r] = "exit"

LEMMA UnseenStutters ==
  ASSUME Unseen
  PROVE  UNCHANGED Terminal!vars
BY DEF Unseen, Terminal!vars, Phase, Told

\* A handler that has not stopped runs in a process that lives.
LEMMA RunningAlive ==
  ASSUME SInv, NEW g \in Goroutines, pc[g] # "halted"
  PROVE  alive
BY DEF SInv, HaltInv

Quiet == Bystander /\ Unseen

LEMMA QuietMove ==
  ASSUME IInv, SInv, NEW h \in Handlers, NEW l \in Labels, Move(h, l),
         pc[h] \notin {"halted", "drain", "done"}, l \in Early => pc[h] \in Early
  PROVE  Quiet
<1>1. alive
  BY RunningAlive, GoroutinesDistinct
<1>2. pc' = [pc EXCEPT ![h] = l] /\ pc \in [Goroutines -> Labels]
  BY DEF Move, Goto, IInv, TypeOK
<1>3. \A g \in Casters : pc'[g] = pc[g]
  BY <1>2, GoroutinesDistinct DEF Casters, Goroutines
<1>4. \A c \in Conns : pc'[c] \in Early => pc[c] \in Early
  BY <1>2, GoroutinesDistinct
<1>5. \A r \in Requests : answer[r] = "exit" => pc'[r] \in {"drain", "done", "halted"}
  BY <1>2, GoroutinesDistinct DEF SInv, AnswerInv
<1> QED
  BY <1>1, <1>3, <1>4, <1>5 DEF Move, Quiet, Bystander, Unseen, onceVars, outVars,
     callVars, castVars, connVars, ptyVars

LEMMA QuietReturn ==
  ASSUME IInv, SInv, NEW h \in Handlers, NEW a \in {"ok", "error", "panic"},
         Return(h, a), pc[h] \notin {"halted", "drain", "done"},
         UNCHANGED <<session, clients, child, taken>>
  PROVE  Quiet
<1>1. alive
  BY RunningAlive, GoroutinesDistinct
<1>2. pc' = [pc EXCEPT ![h] = "done"] /\ pc \in [Goroutines -> Labels]
  BY DEF Return, Goto, IInv, TypeOK
<1>3. \A g \in Casters : pc'[g] = pc[g]
  BY <1>2, GoroutinesDistinct DEF Casters, Goroutines
<1>4. \A c \in Conns : pc'[c] \in Early => pc[c] \in Early
  BY <1>2, GoroutinesDistinct DEF Early
<1>5. answer' = [answer EXCEPT ![h] = a] /\ answer \in [Handlers -> {"none", "ok", "error", "exit", "panic"}]
  BY DEF Return, IInv, TypeOK
<1>6. \A r \in Requests : answer'[r] = "exit" <=> answer[r] = "exit"
  BY <1>5, GoroutinesDistinct DEF SInv, AnswerInv
<1>7. \A r \in Requests : answer[r] = "exit" => pc'[r] \in {"drain", "done", "halted"}
  BY <1>2, GoroutinesDistinct DEF SInv, AnswerInv
<1>8. \A c \in Conns : conn'[c] = "up" => conn[c] = "up"
  BY DEF Return
<1> QED
  BY <1>1, <1>3, <1>4, <1>6, <1>7, <1>8 DEF Return, Quiet, Bystander, Unseen,
     outVars, castVars

LEMMA QuietConnection ==
  ASSUME IInv, SInv, NEW c \in Conns, NEW s, Connection(c, s),
         s = "up" => conn[c] = "up" \/ wire[c] = << >>,
         \/ UNCHANGED pc
         \/ \E l \in Labels :
              /\ pc[c] # "halted" /\ Goto(c, l)
              /\ l \in Early => pc[c] \in Early
  PROVE  Quiet
<1>1. pc \in [Goroutines -> Labels] /\ conn \in [Conns -> {"none", "up", "stalled", "dead", "down"}]
  BY DEF IInv, TypeOK
<1>2. /\ \A g \in Casters : pc'[g] = pc[g]
      /\ \A d \in Conns : pc'[d] \in Early => pc[d] \in Early
      /\ \A r \in Requests : pc'[r] = pc[r]
      /\ ~alive => \A g \in Goroutines : pc'[g] = "halted"
  <2>1. CASE UNCHANGED pc
    BY <2>1 DEF SInv, HaltInv
  <2>2. ASSUME NEW l \in Labels, pc[c] # "halted", Goto(c, l), l \in Early => pc[c] \in Early
        PROVE  <1>2!:
    <3>1. alive
      BY <2>2, RunningAlive, GoroutinesDistinct
    <3>2. pc' = [pc EXCEPT ![c] = l]
      BY <2>2 DEF Goto
    <3> QED
      BY <1>1, <2>2, <3>1, <3>2, GoroutinesDistinct DEF Casters, Goroutines
  <2> QED
    BY <2>1, <2>2
<1>3. \A d \in Conns : conn'[d] = "up" => conn[d] = "up" \/ wire[d] = << >>
  BY <1>1 DEF Connection
<1>4. ~alive => child = "exited"
  BY DEF SInv, HaltInv
<1>5. \A r \in Requests : answer[r] = "exit" => pc[r] \in {"drain", "done", "halted"}
  BY DEF SInv, AnswerInv
<1> QED
  BY <1>2, <1>3, <1>4, <1>5 DEF Connection, Quiet, Bystander, Unseen, onceVars, outVars,
     callVars, castVars, ptyVars

-----------------------------------------------------------------------------
(* The steps of the environment and of the handlers.                        *)

\* What every step does: it keeps the invariant, and the session takes a step.
Simulates == SInv' /\ (Terminal!Step \/ UNCHANGED Terminal!vars)

LEMMA QuietSimulates ==
  ASSUME IInv, SInv, Quiet
  PROVE  Simulates
BY BystanderKeeps, UnseenStutters DEF Quiet, Simulates

LEMMA SimEnvironment ==
  ASSUME IInv, SInv, Environment
  PROVE  Simulates
<1> USE GoroutinesDistinct DEF Labels
<1>1. ASSUME NEW c \in Conns, Dial(c) PROVE Quiet
  BY <1>1, QuietConnection DEF Dial, SInv, JoinInv, Early
<1>2. ASSUME NEW c \in Conns, PeerClose(c) \/ PeerStalls(c) PROVE Quiet
  BY <1>2, QuietConnection DEF PeerClose, PeerStalls
<1>3. ASSUME NEW c \in Conns, DeadlinePasses(c) PROVE Quiet
  BY <1>3 DEF DeadlinePasses, Quiet, Bystander, Unseen, SInv, HaltInv, AnswerInv,
     onceVars, outVars, callVars, castVars, ptyVars
<1>4. ASSUME NEW c \in Conns, AwaitInit(c) \/ WsData(c) PROVE Quiet
  <2>1. CASE AwaitInit(c)
    BY <2>1, QuietMove DEF AwaitInit, Early
  <2>2. CASE WsData(c)
    BY <2>2, QuietMove DEF WsData, Early
  <2> QED
    BY <1>4, <2>1, <2>2
<1>5. ASSUME NEW c \in Conns, AwaitFails(c) PROVE Quiet
  BY <1>5, QuietReturn DEF AwaitFails, Finish, onceVars, ptyVars
<1>6. ASSUME NEW r \in Requests, NEW k \in Kinds, Request(r, k) PROVE Quiet
  <2>1. alive /\ answer[r] # "exit"
    BY <1>6, RunningAlive DEF Request, SInv, AnswerInv
  <2>2. \A g \in Goroutines : g # r => pc'[g] = pc[g]
    BY <1>6 DEF Request, Goto, IInv, TypeOK
  <2> QED
    BY <1>6, <2>1, <2>2 DEF Request, Quiet, Bystander, Unseen, SInv, AnswerInv,
       Casters, onceVars, outVars, castVars, connVars, ptyVars
<1>7. CASE ChildPrints \/ ChildReadsKey
  <2>1. PICK p, k : OpenCode(child, p, k)
    BY <1>7 DEF ChildPrints, ChildReadsKey
  <2>2. alive
    BY <2>1 DEF OpenCode, SInv, HaltInv
  <2>3. Unseen
    BY <2>1 DEF OpenCode, Unseen, onceVars, outVars, callVars, castVars
  <2>4. Bystander
    <3>1. UNCHANGED <<alive, pc, answer, conn, clients, buffer, drained, taken, wire, todo, at>>
      BY <2>1 DEF OpenCode, outVars, callVars, castVars, connVars
    <3>2. \A r \in Requests : answer[r] = "exit" => pc[r] \in {"drain", "done", "halted"}
      BY DEF SInv, AnswerInv
    <3> QED
      BY <2>2, <3>1, <3>2 DEF Bystander
  <2> QED
    BY <2>3, <2>4, QuietSimulates DEF Quiet
<1>8. CASE ChildExits
  <2>1. alive /\ session
    BY <1>8 DEF ChildExits, OpenCode, SInv, HaltInv, IInv, OnceInv, OneSession
  <2>2. Bystander
    BY <1>8, <2>1 DEF ChildExits, OpenCode, Bystander, SInv, AnswerInv,
       onceVars, outVars, callVars, castVars, connVars
  <2>3. Terminal!Exit
    BY <1>8, <2>1 DEF ChildExits, OpenCode, Terminal!Exit, Phase, Told,
       onceVars, outVars, callVars, castVars
  <2> QED
    BY <2>2, <2>3, BystanderKeeps DEF Simulates, Terminal!Step
<1> QED
  BY <1>1, <1>2, <1>3, <1>4, <1>5, <1>6, <1>7, <1>8, QuietSimulates DEF Environment

LEMMA SimStart ==
  ASSUME IInv, SInv, NEW h \in Handlers, Start(h)
  PROVE  Simulates
<1> USE GoroutinesDistinct DEF Labels
<1>1. CASE OnceEnter(h)
  <2>1. alive
    BY <1>1, RunningAlive DEF OnceEnter
  <2>2. \A g \in Goroutines : g # h => pc'[g] = pc[g]
    BY <1>1 DEF OnceEnter, Goto, IInv, TypeOK
  <2>3. pc[h] = "once" /\ pc'[h] = "init"
    BY <1>1 DEF OnceEnter, Goto, IInv, TypeOK
  <2>4. Quiet
    BY <1>1, <2>1, <2>2, <2>3 DEF OnceEnter, Quiet, Bystander, Unseen, SInv, AnswerInv,
       Casters, Early, outVars, callVars, castVars, connVars, ptyVars
  <2> QED
    BY <2>4, QuietSimulates
<1>2. CASE OnceSkip(h)
  BY <1>2, QuietMove, QuietSimulates DEF OnceSkip, Early
<1>3. CASE InitializeSession(h)
  <2>1. alive /\ ~session
    BY <1>3, RunningAlive DEF InitializeSession, IInv, OnceInv, OneSession
  <2>2. pc["reader"] = "idle" /\ taken = taken'
    BY <1>3, <2>1 DEF InitializeSession, IInv, OnceInv, OneSession, Casters
  <2>3. /\ pc \in [Goroutines -> Labels] /\ pc[h] = "init"
        /\ pc' = [pc EXCEPT ![h] = "post", !["reader"] = "poll", !["waiter"] = "wait"]
        /\ UNCHANGED <<alive, clients, buffer, drained, answer, todo, at, wire, toldExit, conn>>
    BY <1>3 DEF InitializeSession, IInv, TypeOK, outVars, callVars, castVars, connVars
  <2>4. \A k \in Handlers : k # h => pc'[k] = pc[k]
    BY <2>3
  <2>5. pc'[h] = "post" /\ pc'["reader"] = "poll"
    BY <2>3
  <2>6. HaltInv' /\ CastInv'
    BY <2>1, <2>3, <2>5 DEF HaltInv, CastInv
  <2>7. JoinInv'
    BY <2>3, <2>4, <2>5 DEF SInv, JoinInv, Early
  <2>8. AnswerInv'
    BY <2>3, <2>4, <2>5 DEF SInv, AnswerInv
  <2>9. NewestInv'
    BY <2>2, <2>3, <2>5 DEF SInv, NewestInv, Terminal!Newest, Stored
  <2>10. StreamComplete'
    <3>1. clients = {}
      BY <2>1 DEF IInv, OnceInv, OneSession
    <3> QED
      BY <2>3, <3>1 DEF StreamComplete
  <2>11. Terminal!Begin
    BY <1>3, <2>1, <2>3 DEF InitializeSession, Terminal!Begin, Phase, Told
  <2> QED
    BY <2>6, <2>7, <2>8, <2>9, <2>10, <2>11 DEF SInv, Simulates, Terminal!Step
<1>4. CASE InitializeSessionFails(h)
  BY <1>4, QuietReturn, QuietSimulates DEF InitializeSessionFails, ptyVars
<1>5. CASE Post(h)
  BY <1>5, QuietMove, QuietReturn, QuietSimulates DEF Post, Finish, Early, onceVars, ptyVars
<1>6. CASE PostNil(h)
  BY <1>6, QuietReturn, QuietSimulates DEF PostNil, Finish, onceVars, ptyVars
<1> QED
  BY <1>1, <1>2, <1>3, <1>4, <1>5, <1>6 DEF Start

LEMMA SimTyping ==
  ASSUME IInv, SInv, NEW h \in Handlers, Type(h)
  PROVE  Simulates
<1> USE GoroutinesDistinct DEF Labels
<1>1. CASE Lock(h)
  BY <1>1, QuietMove, QuietReturn, QuietSimulates DEF Lock, Finish, Early, onceVars, ptyVars
<1>2. CASE PtyWrite(h)
  <2>1. CASE Return(h, "ok")
    BY <1>2, <2>1, QuietReturn, QuietSimulates DEF PtyWrite, onceVars
  <2>2. CASE ~Return(h, "ok")
    <3>1. PICK l \in {"serve", "flags"} : Goto(h, l)
      BY <1>2, <2>2 DEF PtyWrite
    <3>2. /\ alive /\ pc[h] = "write" /\ pc' = [pc EXCEPT ![h] = l]
          /\ pc \in [Goroutines -> Labels]
      BY <1>2, <3>1, RunningAlive DEF PtyWrite, Goto, IInv, TypeOK
    <3>3. /\ \A g \in Casters : pc'[g] = pc[g]
          /\ \A c \in Conns : pc'[c] \in Early => pc[c] \in Early
      BY <3>2 DEF Casters, Goroutines, Early
    <3>4. \A r \in Requests : answer[r] = "exit" => pc'[r] \in {"drain", "done", "halted"}
      BY <3>2 DEF SInv, AnswerInv
    <3>5. Quiet
      BY <1>2, <2>2, <3>2, <3>3, <3>4 DEF PtyWrite, Quiet, Bystander, Unseen, onceVars,
         outVars, callVars, castVars, connVars
    <3> QED
      BY <3>5, QuietSimulates
  <2> QED
    BY <2>1, <2>2
<1>3. CASE PtyWriteFails(h)
  BY <1>3, QuietMove, QuietReturn, QuietSimulates
     DEF PtyWriteFails, Finish, Early, onceVars, ptyVars
<1> QED
  BY <1>1, <1>2, <1>3 DEF Type

LEMMA SimServe ==
  ASSUME IInv, SInv, NEW c \in Conns, Serve(c) \/ Garble(c)
  PROVE  Simulates
<1> USE GoroutinesDistinct DEF Labels
<1>0. pc \in [Goroutines -> Labels]
  BY DEF IInv, TypeOK
<1>1. CASE AddClient(c)
  <2>1. /\ clients' = clients \cup {c} /\ wire[c] = << >> /\ alive
        /\ UNCHANGED <<alive, session, child, buffer, drained, taken, answer, todo, at,
                       wire, toldExit, conn>>
    BY <1>1, RunningAlive DEF AddClient, SInv, JoinInv, Early, onceVars, outVars, callVars,
       castVars, connVars, ptyVars
  <2>2. pc[c] = "join" /\ pc' = [pc EXCEPT ![c] = "hello"] /\ pc["reader"] # "cast"
    BY <1>1 DEF AddClient, Goto, ClientsMuFree, Casters
  <2>3. pc'["reader"] = pc["reader"] /\ \A r \in Requests : pc'[r] = pc[r]
    BY <1>0, <2>2 DEF Goroutines, Casters
  <2>4. HaltInv' /\ CastInv' /\ AnswerInv'
    BY <2>1, <2>2, <2>3 DEF SInv, HaltInv, CastInv, AnswerInv
  <2>5. JoinInv'
    BY <1>0, <2>1, <2>2 DEF SInv, JoinInv, Early
  <2>6. NewestInv'
    BY <2>1, <2>3 DEF SInv, NewestInv, Terminal!Newest, Stored
  <2>7. StreamComplete'
    <3>1. \A d \in Conns : CastTo(d)' = CastTo(d)
      BY <2>1, <2>3 DEF CastTo
    <3> QED
      BY <2>1, <3>1 DEF SInv, StreamComplete, IInv, TypeOK
  <2>8. Unseen
    BY <2>1 DEF Unseen
  <2> QED
    BY <2>4, <2>5, <2>6, <2>7, <2>8, UnseenStutters DEF SInv, Simulates
<1>2. CASE BeginReply(c) \/ WsResize(c) \/ WsReadFails(c)
  BY <1>2, QuietMove, QuietSimulates DEF BeginReply, WsResize, WsReadFails, Early
<1>3. CASE EndReply(c)
  BY <1>3, QuietConnection, QuietSimulates DEF EndReply, Early
<1>4. CASE RemoveClient(c)
  <2>1. /\ pc[c] = "leave" /\ Return(c, "ok") /\ clients' = clients \ {c}
        /\ UNCHANGED <<session, starts, sessionOnce, ptyVars>> /\ pc["reader"] # "cast"
    BY <1>4 DEF RemoveClient, ClientsMuFree, Casters, onceVars
  <2>2. /\ alive /\ pc' = [pc EXCEPT ![c] = "done"]
        /\ UNCHANGED <<alive, buffer, drained, todo, at, wire, toldExit>>
        /\ \A r \in Requests : answer'[r] = answer[r]
        /\ \A d \in Conns : conn'[d] = "up" => conn[d] = "up"
    BY <2>1, RunningAlive DEF Return, Goto, outVars, castVars, IInv, TypeOK
  <2>3. pc'["reader"] = pc["reader"] /\ \A r \in Requests : pc'[r] = pc[r]
    BY <1>0, <2>2 DEF Goroutines, Casters
  <2>4. HaltInv' /\ CastInv' /\ AnswerInv'
    BY <2>1, <2>2, <2>3 DEF SInv, HaltInv, CastInv, AnswerInv
  <2>5. JoinInv'
    BY <1>0, <2>1, <2>2 DEF SInv, JoinInv, Early
  <2>6. NewestInv'
    BY <2>1, <2>2, <2>3 DEF SInv, NewestInv, Terminal!Newest, Stored, ptyVars
  <2>7. StreamComplete'
    <3>1. \A d \in Conns : CastTo(d)' = CastTo(d)
      BY <2>1, <2>2, <2>3 DEF CastTo, ptyVars
    <3> QED
      BY <2>1, <2>2, <3>1 DEF SInv, StreamComplete, IInv, TypeOK
  <2>8. Unseen
    BY <2>1, <2>2 DEF Unseen, ptyVars
  <2> QED
    BY <2>4, <2>5, <2>6, <2>7, <2>8, UnseenStutters DEF SInv, Simulates
<1>5. CASE Garble(c)
  BY <1>5, QuietConnection, QuietSimulates DEF Garble
<1> QED
  BY <1>1, <1>2, <1>3, <1>4, <1>5 DEF Serve

LEMMA SimPoll ==
  ASSUME IInv, SInv, NEW r \in Requests, Poll(r)
  PROVE  Simulates
<1> USE GoroutinesDistinct DEF Labels
<1>0. /\ pc \in [Goroutines -> Labels]
      /\ answer \in [Handlers -> {"none", "ok", "error", "exit", "panic"}]
  BY DEF IInv, TypeOK
<1>1. CASE Check(r) \/ ReadCheck(r)
  BY <1>1, QuietMove, QuietReturn, QuietSimulates
     DEF Check, ReadCheck, Finish, Early, onceVars, ptyVars
<1>2. CASE StatusLocks(r) \/ StatusCounts(r)
  BY <1>2, QuietMove, QuietReturn, QuietSimulates
     DEF StatusLocks, StatusCounts, Finish, Early, onceVars, ptyVars
<1>3. CASE ReadFlags(r)
  <2>1. /\ alive /\ pc[r] = "flags" /\ pc' = [pc EXCEPT ![r] = "drain"]
        /\ answer' = [answer EXCEPT ![r] = IF isRunning THEN "ok" ELSE "exit"]
        /\ UNCHANGED <<alive, session, clients, buffer, drained, todo, at, wire, toldExit,
                       conn, child, taken>>
    BY <1>3, RunningAlive DEF ReadFlags, Goto, onceVars, outVars, castVars, connVars, ptyVars
  <2>2. /\ \A g \in Casters : pc'[g] = pc[g] /\ \A c \in Conns : pc'[c] = pc[c]
        /\ \A q \in Requests : answer'[q] = "exit" => pc'[q] \in {"drain", "done", "halted"}
    BY <1>0, <2>1 DEF Casters, Goroutines, SInv, AnswerInv
  <2>3. Bystander
    BY <2>1, <2>2 DEF Bystander
  <2>4. answer[r] # "exit" /\ session
    BY <2>1 DEF SInv, AnswerInv, IInv, OnceInv, InSession
  <2>5. CASE isRunning
    <3>1. Unseen
      BY <1>0, <2>1, <2>4, <2>5 DEF Unseen
    <3> QED
      BY <2>3, <3>1, QuietSimulates DEF Quiet
  <2>6. CASE ~isRunning
    <3>1. child = "exited"
      BY <2>4, <2>6 DEF IInv, WaiterInv
    <3>2. Told' = Told \cup {r}
      BY <1>0, <2>1, <2>6 DEF Told
    <3>3. Terminal!Tell(r)
      BY <2>1, <2>4, <3>1, <3>2 DEF Terminal!Tell, Phase
    <3> QED
      BY <2>3, <3>3, BystanderKeeps DEF Simulates, Terminal!Step
  <2> QED
    BY <2>5, <2>6
<1>4. CASE Drain(r)
  <2>1. /\ alive /\ pc[r] = "drain" /\ pc' = [pc EXCEPT ![r] = "done"]
        /\ drained' = drained \o buffer /\ buffer' = << >>
        /\ UNCHANGED <<alive, session, clients, todo, at, wire, toldExit, conn, child,
                       taken, answer>>
    BY <1>4, RunningAlive DEF Drain, BufAfterRead, Goto, onceVars, callVars, castVars,
       connVars, ptyVars
  <2>2. session
    BY <2>1 DEF IInv, OnceInv, InSession
  <2>3. /\ pc'["reader"] = pc["reader"] /\ \A c \in Conns : pc'[c] = pc[c]
        /\ \A q \in Requests : answer[q] = "exit" => pc'[q] \in {"drain", "done", "halted"}
    BY <1>0, <2>1 DEF Casters, Goroutines, SInv, AnswerInv
  <2>4. HaltInv' /\ JoinInv' /\ CastInv' /\ AnswerInv'
    BY <2>1, <2>3 DEF SInv, HaltInv, JoinInv, CastInv, AnswerInv
  <2>5. NewestInv'
    <3>1. drained' \o buffer' = drained \o buffer
      BY <2>1 DEF IInv, TypeOK
    <3> QED
      BY <2>1, <2>3, <3>1 DEF SInv, NewestInv, Terminal!Newest, Stored
  <2>6. StreamComplete'
    <3>1. \A d \in Conns : CastTo(d)' = CastTo(d)
      BY <2>1, <2>3 DEF CastTo
    <3> QED
      BY <2>1, <3>1 DEF SInv, StreamComplete, IInv, TypeOK
  <2>7. Terminal!Take
    BY <2>1, <2>2 DEF Terminal!Take, Terminal!Live, Phase, Told
  <2> QED
    BY <2>4, <2>5, <2>6, <2>7 DEF SInv, Simulates, Terminal!Step
<1> QED
  BY <1>1, <1>2, <1>3, <1>4 DEF Poll

-----------------------------------------------------------------------------
(* The reader.                                                              *)

\* What Write leaves is one of the cuts the session allows.
LEMMA WriteIsCut ==
  ASSUME NEW S, NEW q \in Seq(S), NEW x \in S
  PROVE  LET all == Append(q, x) IN
         \E k \in 1 .. Len(all) :
           /\ k = 1 \/ Len(all) - k + 1 >= BufCap
           /\ BufWrite(q, <<x>>) = SubSeq(all, k, Len(all))
<1> DEFINE all == Append(q, x)
<1>1. all = q \o <<x>> /\ all \in Seq(S) /\ Len(all) \in Nat /\ Len(all) >= 1
  OBVIOUS
<1>2. CASE Len(all) > BufCap
  <2>1. Len(all) - BufCap + 1 \in 1 .. Len(all)
    BY <1>1, <1>2, BufCapAssumption
  <2>2. BufWrite(q, <<x>>) = SubSeq(all, Len(all) - BufCap + 1, Len(all))
    BY <1>1, <1>2 DEF BufWrite
  <2>3. Len(all) - (Len(all) - BufCap + 1) + 1 >= BufCap
    BY <1>1, BufCapAssumption
  <2> HIDE DEF all
  <2>4. \E k \in 1 .. Len(all) :
           /\ k = 1 \/ Len(all) - k + 1 >= BufCap
           /\ BufWrite(q, <<x>>) = SubSeq(all, k, Len(all))
    BY <2>1, <2>2, <2>3
  <2> QED
    BY <2>4 DEF all
<1>3. CASE ~(Len(all) > BufCap)
  <2>1. BufWrite(q, <<x>>) = all
    BY <1>1, <1>3 DEF BufWrite
  <2>2. SubSeq(all, 1, Len(all)) = all
    BY <1>1
  <2> QED
    BY <1>1, <2>1, <2>2
<1> QED
  BY <1>2, <1>3

\* Whatever is cut, the chunk that was written is the last one left.
LEMMA WriteEndsWith ==
  ASSUME NEW S, NEW q \in Seq(S), NEW x \in S
  PROVE  /\ BufWrite(q, <<x>>) \in Seq(S) /\ BufWrite(q, <<x>>) # << >>
         /\ BufWrite(q, <<x>>)[Len(BufWrite(q, <<x>>))] = x
<1> DEFINE all == Append(q, x)
           now == BufWrite(q, <<x>>)
<1>1. all \in Seq(S) /\ Len(all) \in Nat /\ Len(all) >= 1 /\ all[Len(all)] = x
  OBVIOUS
<1>2. PICK k \in 1 .. Len(all) : now = SubSeq(all, k, Len(all))
  BY WriteIsCut
<1>3. now \in Seq(S) /\ Len(now) = Len(all) - k + 1 /\ now[Len(now)] = all[Len(all)]
  <2> HIDE DEF all, now
  <2>1. Len(now) = Len(all) - k + 1 /\ \A i \in 1 .. Len(now) : now[i] = all[k + i - 1]
    BY <1>1, <1>2, SubSeqProperties
  <2>2. now \in Seq(S)
    BY <1>1, <1>2, SubSeqProperties
  <2>3. Len(now) \in 1 .. Len(now) /\ k + Len(now) - 1 = Len(all)
    BY <1>1, <2>1
  <2> QED
    BY <2>1, <2>2, <2>3
<1>4. now # << >>
  <2> HIDE DEF now, all
  <2> QED
    BY <1>1, <1>3
<1> QED
  BY <1>1, <1>3, <1>4

\* The reader moves without touching the buffer.
ReaderMoves(l) ==
  /\ pc' = [pc EXCEPT !["reader"] = l]
  /\ UNCHANGED <<alive, session, clients, buffer, drained, answer, todo, at, wire,
                 toldExit, conn, child>>

LEMMA ReaderKeeps ==
  ASSUME IInv, SInv, NEW l \in {"stopped", "read", "store", "poll"}, ReaderMoves(l), alive,
         taken' = IF l = "store" THEN taken + 1 ELSE taken,
         pc["reader"] \in {"poll", "read", "cast"},
         pc["reader"] = "cast" => todo["reader"] = {} /\ at["reader"] = NoOne
  PROVE  SInv' /\ UNCHANGED Terminal!vars
<1>1. pc \in [Goroutines -> Labels] /\ taken \in Nat
  BY PtyBridgeAssumption DEF IInv, TypeOK
<1>2. pc'["reader"] = l /\ \A h \in Handlers : pc'[h] = pc[h]
  BY <1>1, GoroutinesDistinct DEF ReaderMoves
<1>3. HaltInv' /\ JoinInv' /\ CastInv' /\ AnswerInv'
  BY <1>2, GoroutinesDistinct
     DEF ReaderMoves, SInv, HaltInv, JoinInv, CastInv, AnswerInv
<1>4. NewestInv'
  BY <1>1, <1>2 DEF ReaderMoves, SInv, NewestInv, Terminal!Newest, Stored
<1>5. StreamComplete'
  <2>1. \A d \in clients : CastTo(d)' = CastTo(d)
    BY <1>1, <1>2, PtyBridgeAssumption DEF ReaderMoves, CastTo, IInv, TypeOK
  <2> QED
    BY <2>1 DEF ReaderMoves, SInv, StreamComplete
<1>6. UNCHANGED Terminal!vars
  BY UnseenStutters DEF ReaderMoves, Unseen
<1> QED
  BY <1>3, <1>4, <1>5, <1>6 DEF SInv

LEMMA SimReader ==
  ASSUME IInv, SInv, Reader
  PROVE  Simulates
<1> USE GoroutinesDistinct
<1>0. pc \in [Goroutines -> Labels]
  BY DEF IInv, TypeOK
<1>1. alive
  BY RunningAlive DEF Reader, ReaderPoll, ReaderRead, ReaderReadFails, ReaderStore
<1>2. session
  <2>1. pc["reader"] # "idle"
    BY DEF Reader, ReaderPoll, ReaderRead, ReaderReadFails, ReaderStore
  <2> QED
    BY <2>1 DEF IInv, OnceInv, OneSession, Casters
<1>3. CASE ReaderPoll \/ ReaderReadFails
  <2>1. PICK l \in {"stopped", "read"} : Move("reader", l)
    BY <1>3 DEF ReaderPoll, ReaderReadFails
  <2>2. ReaderMoves(l) /\ taken' = taken /\ pc["reader"] \in {"poll", "read"}
    BY <1>3, <2>1 DEF ReaderPoll, ReaderReadFails, Move, Goto, ReaderMoves, onceVars, outVars,
       callVars, castVars, connVars, ptyVars
  <2> QED
    BY <1>1, <2>2, ReaderKeeps DEF Simulates
<1>4. CASE ReaderRead
  <2>1. ReaderMoves("store") /\ taken' = taken + 1 /\ pc["reader"] = "read"
    BY <1>4 DEF ReaderRead, Goto, ReaderMoves, onceVars, outVars, callVars, castVars, connVars
  <2> QED
    BY <1>1, <2>1, ReaderKeeps DEF Simulates
<1>5. CASE ReaderStore
  <2>1. /\ pc["reader"] = "store" /\ pc' = [pc EXCEPT !["reader"] = "bcast"]
        /\ buffer' = BufWrite(buffer, <<taken>>)
        /\ UNCHANGED <<alive, session, clients, drained, answer, todo, at, wire, toldExit,
                       conn, child, taken>>
    BY <1>5 DEF ReaderStore, Goto, onceVars, callVars, castVars, connVars, ptyVars
  <2>2. pc'["reader"] = "bcast" /\ \A h \in Handlers : pc'[h] = pc[h]
    BY <1>0, <2>1
  <2>3. /\ buffer \in Seq(1 .. MaxOutput) /\ drained \in Seq(1 .. MaxOutput)
        /\ taken \in 1 .. MaxOutput
    BY <2>1, PtyBridgeAssumption DEF IInv, TypeOK, ReaderInv
  <2>4. Terminal!Newest' = taken
    <3>1. buffer' \in Seq(1 .. MaxOutput) /\ buffer' # << >> /\ buffer'[Len(buffer')] = taken
      <4> DEFINE C == 1 .. MaxOutput
      <4>1. buffer \in Seq(C) /\ taken \in C
        BY <2>3
      <4> HIDE DEF C
      <4>2. BufWrite(buffer, <<taken>>) \in Seq(C) /\ BufWrite(buffer, <<taken>>) # << >>
        BY <4>1, WriteEndsWith
      <4>3. BufWrite(buffer, <<taken>>)[Len(BufWrite(buffer, <<taken>>))] = taken
        BY <4>1, WriteEndsWith
      <4> QED
        BY <2>1, <4>2, <4>3 DEF C
    <3>2. /\ drained' \o buffer' # << >>
          /\ (drained' \o buffer')[Len(drained' \o buffer')] = taken
      <4>1. Len(buffer') \in Nat \ {0} /\ Len(drained) \in Nat
        BY <2>3, <3>1
      <4>2. Len(drained \o buffer') = Len(drained) + Len(buffer')
        BY <2>3, <3>1
      <4>3. (drained \o buffer')[Len(drained) + Len(buffer')] = buffer'[Len(buffer')]
        BY <2>3, <3>1, <4>1
      <4> QED
        BY <2>1, <3>1, <4>1, <4>2, <4>3
    <3> QED
      BY <3>2 DEF Terminal!Newest
  <2>5. NewestInv'
    BY <2>1, <2>2, <2>4 DEF NewestInv, Stored
  <2>6. HaltInv' /\ JoinInv' /\ CastInv' /\ AnswerInv'
    BY <1>1, <2>1, <2>2 DEF SInv, HaltInv, JoinInv, CastInv, AnswerInv
  <2>7. StreamComplete'
    <3>1. \A d \in Conns : CastTo(d)' = CastTo(d)
      BY <2>1, <2>2 DEF CastTo
    <3> QED
      BY <2>1, <3>1 DEF SInv, StreamComplete, IInv, TypeOK
  <2>8. Terminal!Emit
    <3>1. Terminal!Newest + 1 = taken
      BY <1>1, <2>1, <2>3 DEF SInv, NewestInv, Stored
    <3>2. \E k \in 1 .. Len(Append(buffer, taken)) :
             /\ k = 1 \/ Len(Append(buffer, taken)) - k + 1 >= BufCap
             /\ buffer' = SubSeq(Append(buffer, taken), k, Len(Append(buffer, taken)))
      BY <2>1, <2>3, WriteIsCut
    <3>3. Terminal!Live
      BY <1>1, <1>2 DEF Terminal!Live, Phase
    <3>4. UNCHANGED <<Phase, drained, wire, Told>>
      BY <2>1 DEF Phase, Told
    <3> QED
      BY <3>1, <3>2, <3>3, <3>4 DEF Terminal!Emit
  <2> QED
    BY <2>5, <2>6, <2>7, <2>8 DEF SInv, Simulates, Terminal!Step
<1> QED
  BY <1>3, <1>4, <1>5 DEF Reader

-----------------------------------------------------------------------------
(* Broadcast, the waiter, and the end of the process.                       *)

LEMMA SimHalt ==
  ASSUME IInv, SInv, Halt, session, alive
  PROVE  Simulates
<1>1. HaltInv' /\ CastInv' /\ AnswerInv'
  BY GoroutinesDistinct DEF Halt, HaltInv, CastInv, AnswerInv, Goroutines, Casters
<1>2. JoinInv'
  BY GoroutinesDistinct DEF Halt, JoinInv, Early
<1>3. NewestInv'
  BY DEF Halt, NewestInv
<1>4. StreamComplete'
  BY DEF Halt, StreamComplete, IInv, TypeOK
<1>5. Terminal!Over
  BY DEF Halt, Terminal!Over, Terminal!Live, Phase, Told, onceVars, outVars, callVars
<1> QED
  BY <1>1, <1>2, <1>3, <1>4, <1>5 DEF SInv, Simulates, Terminal!Step

\* A Broadcast or the waiter moves, and the map and the streams stay.
CasterMoves(g) ==
  /\ \A h \in Goroutines : h # g => pc'[h] = pc[h]
  /\ UNCHANGED <<alive, session, clients, buffer, drained, taken, answer, wire, child>>
  /\ \A c \in Conns : conn'[c] = "up" => conn[c] = "up"

LEMMA CasterKeeps ==
  ASSUME IInv, SInv, NEW g \in Casters, CasterMoves(g), alive,
         g # "reader" => todo'["reader"] = todo["reader"] /\ at'["reader"] = at["reader"],
         g = "reader" =>
           /\ pc["reader"] \in {"bcast", "cast"} /\ pc'["reader"] \in {"cast", "poll"}
           /\ pc'["reader"] = "poll" => todo["reader"] = {} /\ at["reader"] = NoOne
           /\ todo'["reader"] \subseteq clients /\ at'["reader"] \in clients \cup {NoOne}
           /\ at'["reader"] \notin todo'["reader"]
           /\ \A c \in clients : conn'[c] = "up" => CastTo(c)' = CastTo(c)
  PROVE  SInv'
<1>1. /\ \A h \in Handlers : pc'[h] = pc[h]
      /\ g # "reader" => pc'["reader"] = pc["reader"]
  BY GoroutinesDistinct DEF CasterMoves, Casters
<1>2. HaltInv' /\ JoinInv' /\ AnswerInv'
  BY <1>1, GoroutinesDistinct DEF CasterMoves, SInv, HaltInv, JoinInv, AnswerInv
<1>3. CastInv'
  BY <1>1 DEF CasterMoves, SInv, CastInv
<1>4. NewestInv'
  BY <1>1 DEF CasterMoves, SInv, NewestInv, Terminal!Newest, Stored
<1>5. \A c \in clients : conn'[c] = "up" => CastTo(c)' = CastTo(c)
  BY <1>1 DEF CasterMoves, CastTo
<1>6. StreamComplete'
  <2>1. clients \subseteq Conns
    BY DEF IInv, TypeOK
  <2> QED
    BY <1>5, <2>1 DEF CasterMoves, SInv, StreamComplete
<1> QED
  BY <1>2, <1>3, <1>4, <1>6 DEF SInv

\* The reader's chunk reaches the client it is at.
LEMMA SimShow ==
  ASSUME IInv, SInv, CastSent("reader")
  PROVE  Simulates
<1>0. PICK c : c = at["reader"]
  OBVIOUS
<1>1. /\ pc["reader"] = "cast" /\ c \in clients /\ c \in Conns /\ conn[c] = "up"
      /\ c \notin todo["reader"] /\ alive /\ session
  BY <1>0, GoroutinesDistinct, RunningAlive
     DEF CastSent, SInv, CastInv, IInv, TypeOK, OnceInv, OneSession, Casters
<1>2. /\ wire' = [wire EXCEPT ![c] = Append(wire[c], taken)]
      /\ at' = [at EXCEPT !["reader"] = NoOne]
      /\ UNCHANGED <<alive, pc, session, clients, buffer, drained, answer, todo, toldExit,
                     conn, child, taken>>
  BY <1>0 DEF CastSent, onceVars, outVars, callVars, connVars, ptyVars
<1>3. /\ wire \in [Conns -> Seq(1 .. MaxOutput)] /\ clients \subseteq Conns
      /\ at \in [Casters -> Conns \cup {NoOne}] /\ taken \in Nat /\ "reader" \in Casters
  BY PtyBridgeAssumption DEF IInv, TypeOK, Casters
<1>4. HaltInv' /\ CastInv' /\ AnswerInv' /\ NewestInv'
  <2>1. HaltInv' /\ AnswerInv'
    BY <1>2 DEF SInv, HaltInv, AnswerInv
  <2>2. CastInv'
    <3>1. at'["reader"] = NoOne /\ NoOne \notin clients
      BY <1>2, <1>3, GoroutinesDistinct
    <3>2. todo["reader"] \subseteq clients
      BY <1>1 DEF SInv, CastInv
    <3> QED
      BY <1>2, <3>1, <3>2 DEF CastInv
  <2>3. NewestInv'
    BY <1>2 DEF SInv, NewestInv, Terminal!Newest, Stored
  <2> QED
    BY <2>1, <2>2, <2>3
<1>5. JoinInv'
  BY <1>1, <1>2, <1>3 DEF SInv, JoinInv
<1>6. CastTo(c) = taken - 1 /\ CastTo(c)' = taken
  BY <1>0, <1>1, <1>2, <1>3, GoroutinesDistinct DEF CastTo
<1>7. StreamComplete'
  <2> SUFFICES ASSUME NEW d \in clients', conn'[d] = "up", wire'[d] # << >>,
                      NEW i \in 1 .. Len(wire'[d])
               PROVE  wire'[d][i] = CastTo(d)' - Len(wire'[d]) + i
    BY DEF StreamComplete
  <2>1. CASE d # c
    <3>1. CastTo(d)' = CastTo(d)
      <4>1. at'["reader"] = NoOne /\ d # NoOne
        BY <1>2, <1>3, GoroutinesDistinct
      <4> QED
        BY <1>0, <1>2, <2>1, <4>1 DEF CastTo
    <3>2. wire'[d] = wire[d]
      BY <1>2, <1>3, <2>1
    <3> QED
      BY <1>2, <3>1, <3>2 DEF SInv, StreamComplete
  <2>2. CASE d = c
    <3>1. wire[c] \in Seq(1 .. MaxOutput) /\ wire'[c] = Append(wire[c], taken)
      BY <1>1, <1>2, <1>3
    <3>2. CASE i = Len(wire[c]) + 1
      BY <1>3, <1>6, <2>2, <3>1, <3>2
    <3>3. CASE i \in 1 .. Len(wire[c])
      <4>1. wire[c][i] = taken - 1 - Len(wire[c]) + i
        BY <1>1, <1>6, <3>1, <3>3 DEF SInv, StreamComplete
      <4>2. wire'[c][i] = wire[c][i] /\ Len(wire'[c]) = Len(wire[c]) + 1
        BY <3>1, <3>3
      <4> QED
        BY <1>3, <1>6, <2>2, <3>1, <4>1, <4>2
    <3> QED
      BY <2>2, <3>1, <3>2, <3>3
  <2> QED
    BY <2>1, <2>2
<1>8. Terminal!Show(c)
  <2>1. Terminal!Newest = taken /\ taken > 0
    BY <1>1, <1>3 DEF SInv, NewestInv, Stored, IInv, ReaderInv
  <2>2. wire[c] # << >> => taken = wire[c][Len(wire[c])] + 1
    <3> SUFFICES ASSUME wire[c] # << >> PROVE taken = wire[c][Len(wire[c])] + 1
      OBVIOUS
    <3>1. wire[c] \in Seq(1 .. MaxOutput)
      BY <1>1, <1>3
    <3>2. Len(wire[c]) \in Nat /\ Len(wire[c]) \in 1 .. Len(wire[c])
      BY <3>1
    <3>3. wire[c][Len(wire[c])] = taken - 1 - Len(wire[c]) + Len(wire[c])
      BY <1>1, <1>6, <3>2 DEF SInv, StreamComplete
    <3> QED
      BY <1>3, <3>2, <3>3
  <2>3. Terminal!Live /\ UNCHANGED <<Phase, buffer, drained, Told>>
    BY <1>1, <1>2 DEF Terminal!Live, Phase, Told
  <2> QED
    BY <1>2, <2>1, <2>2, <2>3 DEF Terminal!Show
<1> QED
  BY <1>1, <1>4, <1>5, <1>7, <1>8 DEF SInv, Simulates, Terminal!Step

LEMMA SimBroadcast ==
  ASSUME IInv, SInv, NEW g \in Casters, Broadcast(g)
  PROVE  Simulates
<1> USE GoroutinesDistinct
<1>0. /\ pc \in [Goroutines -> Labels] /\ todo \in [Casters -> SUBSET Conns]
      /\ at \in [Casters -> Conns \cup {NoOne}] /\ clients \subseteq Conns
      /\ g \in Goroutines /\ "reader" \in Casters
      /\ conn \in [Conns -> {"none", "up", "stalled", "dead", "down"}]
  BY DEF IInv, TypeOK, Goroutines, Casters
<1>1. /\ alive /\ session
  <2>1. pc[g] \in {"bcast", "cast"}
    BY DEF Broadcast, CastBegin, CastSend, CastSent, CastSendFails, CastEnd
  <2> QED
    BY <1>0, <2>1, RunningAlive DEF IInv, OnceInv, OneSession
<1>2. CASE CastBegin(g)
  <2>1. /\ pc[g] = "bcast" /\ pc' = [pc EXCEPT ![g] = "cast"]
        /\ todo' = [todo EXCEPT ![g] = clients]
        /\ UNCHANGED <<alive, session, clients, buffer, drained, taken, answer, at, wire,
                       toldExit, conn, child>>
    BY <1>2 DEF CastBegin, Goto, onceVars, outVars, callVars, connVars, ptyVars
  <2>2. CasterMoves(g) /\ Unseen
    BY <1>0, <2>1 DEF CasterMoves, Unseen
  <2>3. g = "reader" => at["reader"] = NoOne
    BY <1>0, <2>1 DEF IInv, OnceInv
  <2>4. g = "reader" => \A c \in clients : CastTo(c)' = CastTo(c)
    BY <1>0, <2>1, <2>3 DEF CastTo
  <2>5. NoOne \notin clients
    BY <1>0
  <2>6. SInv'
    BY <1>0, <1>1, <2>1, <2>2, <2>3, <2>4, <2>5, CasterKeeps
  <2> QED
    BY <2>2, <2>6, UnseenStutters DEF Simulates
<1>3. ASSUME NEW c \in Conns, CastSend(g, c)
      PROVE  Simulates
  <2>1. /\ pc[g] = "cast" /\ c \in todo[g] /\ at[g] = NoOne
        /\ at' = [at EXCEPT ![g] = c] /\ todo' = [todo EXCEPT ![g] = todo[g] \ {c}]
        /\ UNCHANGED <<alive, pc, session, clients, buffer, drained, taken, answer, wire,
                       toldExit, conn, child>>
    BY <1>3 DEF CastSend, onceVars, outVars, callVars, ptyVars
  <2>2. CasterMoves(g) /\ Unseen
    BY <2>1 DEF CasterMoves, Unseen
  <2>3. g = "reader" => todo["reader"] \subseteq clients
    BY <2>1 DEF SInv, CastInv
  <2>4. g = "reader" => \A d \in clients : CastTo(d)' = CastTo(d)
    BY <1>0, <2>1 DEF CastTo
  <2>5. SInv'
    BY <1>0, <1>1, <2>1, <2>2, <2>3, <2>4, CasterKeeps
  <2> QED
    BY <2>2, <2>5, UnseenStutters DEF Simulates
<1>4. CASE CastSent(g) /\ g = "waiter"
  <2>1. /\ pc["waiter"] = "cast" /\ at["waiter"] \in Conns
        /\ toldExit' = toldExit \cup {at["waiter"]}
        /\ at' = [at EXCEPT !["waiter"] = NoOne]
        /\ UNCHANGED <<alive, pc, session, clients, buffer, drained, taken, answer, todo, wire,
                       conn, child>>
    BY <1>0, <1>4 DEF CastSent, onceVars, outVars, callVars, connVars, ptyVars
  <2>2. CasterMoves(g)
    BY <2>1 DEF CasterMoves
  <2>3. SInv'
    BY <1>0, <1>1, <1>4, <2>1, <2>2, CasterKeeps
  <2>4. child = "exited"
    BY <2>1 DEF IInv, WaiterInv
  <2>5. PICK c \in Conns : c = at["waiter"]
    BY <2>1
  <2>6. Terminal!Tell(c)
    BY <1>1, <2>1, <2>4, <2>5 DEF Terminal!Tell, Phase, Told
  <2> QED
    BY <2>3, <2>6 DEF Simulates, Terminal!Step
<1>5. CASE CastSendFails(g)
  <2>1. /\ pc[g] = "cast" /\ at[g] \in Conns /\ conn[at[g]] # "up"
        /\ at' = [at EXCEPT ![g] = NoOne]
        /\ UNCHANGED <<alive, pc, session, clients, buffer, drained, taken, answer, todo, wire,
                       toldExit, child>>
    BY <1>0, <1>5 DEF CastSendFails, onceVars, outVars, callVars, ptyVars
  <2>2. \A d \in Conns : conn'[d] = "up" => conn[d] = "up" /\ d # at[g]
    BY <1>0, <1>5, <2>1 DEF CastSendFails
  <2>3. CasterMoves(g) /\ Unseen
    BY <1>0, <2>1, <2>2 DEF CasterMoves, Unseen, IInv, TypeOK
  <2>4. g = "reader" => /\ todo["reader"] \subseteq clients
                       /\ \A d \in clients : conn'[d] = "up" => CastTo(d)' = CastTo(d)
    <3>1. g = "reader" => todo["reader"] \subseteq clients
      BY <2>1 DEF SInv, CastInv
    <3>2. ASSUME g = "reader", NEW d \in clients, conn'[d] = "up" PROVE CastTo(d)' = CastTo(d)
      <4>1. d # at["reader"] /\ d # NoOne /\ at'["reader"] = NoOne
        BY <1>0, <2>1, <2>2, <3>2
      <4> QED
        BY <2>1, <4>1 DEF CastTo
    <3> QED
      BY <3>1, <3>2
  <2>5. g = "reader" => at'["reader"] = NoOne /\ NoOne \notin todo["reader"]
    BY <1>0, <2>1
  <2>6. SInv'
    BY <1>0, <1>1, <2>1, <2>3, <2>4, <2>5, CasterKeeps
  <2> QED
    BY <2>3, <2>6, UnseenStutters DEF Simulates
<1>6. CASE CastEnd(g)
  <2>1. /\ pc[g] = "cast" /\ at[g] = NoOne /\ todo[g] = {}
        /\ pc' = [pc EXCEPT ![g] = IF g = "reader" THEN "poll" ELSE "sleep"]
        /\ UNCHANGED <<alive, session, clients, buffer, drained, taken, answer, todo, at, wire,
                       toldExit, conn, child>>
    BY <1>6 DEF CastEnd, Move, Goto, onceVars, outVars, callVars, castVars, connVars, ptyVars
  <2>2. CasterMoves(g) /\ Unseen
    BY <1>0, <2>1 DEF CasterMoves, Unseen
  <2>3. g = "reader" => \A d \in clients : CastTo(d)' = CastTo(d)
    BY <1>0, <2>1 DEF CastTo
  <2>4. SInv'
    BY <1>0, <1>1, <2>1, <2>2, <2>3, CasterKeeps
  <2> QED
    BY <2>2, <2>4, UnseenStutters DEF Simulates
<1> QED
  BY <1>2, <1>3, <1>4, <1>5, <1>6, SimShow DEF Broadcast, Casters

\* The waiter goes on to l.
WaiterMoves(l) ==
  /\ pc' = [pc EXCEPT !["waiter"] = l]
  /\ UNCHANGED <<alive, session, clients, buffer, drained, taken, answer, todo, at, wire,
                 toldExit, conn, child>>

LEMMA SimWaiter ==
  ASSUME IInv, SInv, Waiter
  PROVE  Simulates
<1> USE GoroutinesDistinct
<1>1. alive /\ session
  <2>1. pc["waiter"] \in {"wait", "flag", "signal", "sleep"}
    BY DEF Waiter, WaiterWakes, WaiterFlags, WaiterSignals, WaiterExits
  <2> QED
    BY <2>1, RunningAlive DEF IInv, OnceInv, OneSession, Casters
<1>2. CASE WaiterWakes \/ WaiterFlags \/ WaiterSignals
  <2>1. PICK l \in {"flag", "signal", "bcast"} : WaiterMoves(l)
    BY <1>2 DEF WaiterWakes, WaiterFlags, WaiterSignals, Move, Goto, WaiterMoves, onceVars,
       exitVars, outVars, callVars, castVars, connVars, ptyVars
  <2>2. CasterMoves("waiter") /\ Unseen
    BY <2>1 DEF WaiterMoves, CasterMoves, Unseen, IInv, TypeOK
  <2>3. SInv'
    BY <1>1, <2>1, <2>2, CasterKeeps DEF WaiterMoves, Casters
  <2> QED
    BY <2>2, <2>3, UnseenStutters DEF Simulates
<1>3. CASE WaiterExits
  BY <1>1, <1>3, SimHalt DEF WaiterExits
<1> QED
  BY <1>2, <1>3 DEF Waiter

LEMMA SimConcurrentWrite ==
  ASSUME IInv, SInv, NEW g \in Goroutines, NEW c \in Conns, ConcurrentWrite(g, c)
  PROVE  Simulates
<1> USE GoroutinesDistinct
<1>1. CASE g = c
  <2>1. pc[c] = "reply" /\ Move(c, "leave")
    BY <1>1 DEF ConcurrentWrite, Writers, Casters
  <2> QED
    BY <2>1, QuietMove, QuietSimulates DEF Labels, Early
<1>2. CASE g # c
  <2>1. g \in Casters /\ at[g] # NoOne /\ Halt
    BY <1>2 DEF ConcurrentWrite, Writers
  <2>2. pc[g] = "cast"
    BY <2>1 DEF IInv, OnceInv
  <2>3. session /\ alive
    BY <2>1, <2>2, RunningAlive DEF IInv, OnceInv, OneSession
  <2> QED
    BY <2>1, <2>3, SimHalt
<1> QED
  BY <1>1, <1>2

-----------------------------------------------------------------------------
(* The theorems.                                                            *)

LEMMA InitSInv == Init => SInv /\ Terminal!InitSession
<1> SUFFICES ASSUME Init PROVE SInv /\ Terminal!InitSession
  OBVIOUS
<1>1. drained \o buffer = << >>
  BY DEF Init
<1>2. NewestInv
  BY <1>1, GoroutinesDistinct DEF Init, NewestInv, Terminal!Newest, Stored
<1>3. HaltInv /\ JoinInv /\ CastInv /\ StreamComplete /\ AnswerInv
  BY GoroutinesDistinct DEF Init, HaltInv, JoinInv, CastInv, StreamComplete, AnswerInv
<1>4. Terminal!InitSession
  BY GoroutinesDistinct DEF Init, Terminal!InitSession, Phase, Told
<1> QED
  BY <1>2, <1>3, <1>4 DEF SInv

LEMMA StepSimulates ==
  ASSUME IInv, SInv, [Next]_vars
  PROVE  SInv' /\ [Terminal!Step]_(Terminal!vars)
<1>1. CASE Next
  BY <1>1, SimEnvironment, SimStart, SimTyping, SimServe, SimPoll, SimReader, SimBroadcast,
     SimWaiter, SimConcurrentWrite DEF Next, Bridge, Simulates
<1>2. CASE UNCHANGED vars
  <2>1. Quiet
    BY <1>2 DEF vars, Quiet, Bystander, Unseen, SInv, HaltInv, AnswerInv, onceVars, outVars,
       callVars, castVars, connVars, ptyVars
  <2> QED
    BY <2>1, BystanderKeeps, UnseenStutters DEF Quiet
<1> QED
  BY <1>1, <1>2

LEMMA SInvariance == Spec => []SInv
<1>1. IInv /\ SInv /\ [Next]_vars => SInv'
  BY StepSimulates
<1> QED
  BY <1>1, InitSInv, Invariance, PTL DEF Spec

\* A registered client that reads has, from its first chunk on, every chunk in
\* order, however many clients there are and whatever happens to the others.
THEOREM StreamsComplete == Spec => []StreamComplete
<1>1. SInv => StreamComplete
  BY DEF SInv
<1> QED
  BY <1>1, SInvariance, PTL

\* The bridge implements the terminal session: every step of any goroutine is
\* a step of the session or changes nothing of it.
THEOREM Refinement == Spec => Implements
<1>1. Init => Terminal!InitSession
  BY InitSInv
<1>2. IInv /\ SInv /\ [Next]_vars => [Terminal!Step]_(Terminal!vars)
  BY StepSimulates
<1> QED
  BY <1>1, <1>2, Invariance, SInvariance, PTL DEF Spec, Implements, Terminal!Session

-----------------------------------------------------------------------------
(* What is kept for the pollers. The steps of the session are enough here:   *)
(* of all that the bridge does only Emit and Take matter.                    *)

Has(q, m) == \E i \in 1 .. Len(q) : q[i] = m

\* With n chunks emitted, p polled and q pending: q is the last of them, p is
\* in order and older, and what is in neither is older than the BufCap newest.
Kept(p, q, n) ==
  /\ \A i \in 1 .. Len(q) : q[i] = n - Len(q) + i
  /\ \A i, j \in 1 .. Len(p) : i < j => p[i] < p[j]
  /\ \A i \in 1 .. Len(p) : p[i] <= n - Len(q)
  /\ \A m \in 1 .. n : Has(p, m) \/ Has(q, m) \/ m + BufCap <= n

LEMMA EmitKeeps ==
  ASSUME NEW p \in Seq(Nat), NEW q \in Seq(Nat), NEW n \in Nat, Kept(p, q, n),
         NEW k \in 1 .. Len(Append(q, n + 1)),
         k = 1 \/ Len(Append(q, n + 1)) - k + 1 >= BufCap
  PROVE  Kept(p, SubSeq(Append(q, n + 1), k, Len(Append(q, n + 1))), n + 1)
<1> DEFINE all == Append(q, n + 1)
           now == SubSeq(all, k, Len(all))
<1>1. all \in Seq(Nat) /\ Len(q) \in Nat /\ Len(all) = Len(q) + 1 /\ BufCap \in Nat
  BY BufCapAssumption
<1>2. \A i \in 1 .. Len(q) + 1 : all[i] = n - Len(q) + i
  <2> SUFFICES ASSUME NEW i \in 1 .. Len(q) + 1 PROVE all[i] = n - Len(q) + i
    OBVIOUS
  <2>1. CASE i = Len(q) + 1
    BY <1>1, <2>1
  <2>2. CASE i \in 1 .. Len(q)
    BY <1>1, <2>2 DEF Kept
  <2> QED
    BY <1>1, <2>1, <2>2
<1> HIDE DEF all
<1>3. Len(now) = Len(q) + 2 - k /\ \A i \in 1 .. Len(now) : now[i] = all[k + i - 1]
  <2>1. k \in Int /\ k <= Len(all) + 1 /\ Len(all) \in Int
    BY <1>1
  <2>2. \A i \in k .. Len(all) : all[i] \in Nat
    BY <1>1, <2>1
  <2>3. Len(now) = Len(all) - k + 1
    BY <2>1, <2>2, SubSeqProperties
  <2>4. \A i \in 1 .. Len(all) - k + 1 : now[i] = all[k + i - 1]
    BY <2>1, <2>2, SubSeqProperties
  <2> HIDE DEF now
  <2>5. Len(all) = Len(q) + 1 /\ Len(now) = Len(q) + 2 - k
    BY <1>1, <2>1, <2>3
  <2> QED
    BY <2>3, <2>4, <2>5
<1> HIDE DEF now
<1>4. k \in 1 .. Len(q) + 1 /\ (k = 1 \/ Len(q) + 2 - k >= BufCap)
  BY <1>1 DEF all
<1>5. \A i \in 1 .. Len(now) : now[i] = n + 1 - Len(now) + i
  <2> SUFFICES ASSUME NEW i \in 1 .. Len(now) PROVE now[i] = n + 1 - Len(now) + i
    OBVIOUS
  <2>1. now[i] = all[k + i - 1] /\ i \in Int /\ k \in Int
    BY <1>1, <1>3, <1>4
  <2>2. k + i - 1 \in 1 .. Len(q) + 1
    BY <1>1, <1>3, <1>4, <2>1
  <2>3. all[k + i - 1] = n - Len(q) + (k + i - 1)
    BY <1>2, <2>2
  <2> QED
    BY <1>1, <1>3, <2>1, <2>3
<1>6. \A i \in 1 .. Len(p) : p[i] <= n + 1 - Len(now)
  <2> SUFFICES ASSUME NEW i \in 1 .. Len(p) PROVE p[i] <= n + 1 - Len(now)
    OBVIOUS
  <2>0. p[i] \in Nat
    OBVIOUS
  <2>1. p[i] \in Nat /\ p[i] <= n - Len(q)
    BY <2>0 DEF Kept
  <2>2. Len(now) \in Int /\ Len(now) <= Len(q) + 1
    BY <1>1, <1>3, <1>4
  <2> QED
    BY <1>1, <2>1, <2>2
<1>7. \A m \in 1 .. n + 1 : Has(p, m) \/ Has(now, m) \/ m + BufCap <= n + 1
  <2> SUFFICES ASSUME NEW m \in 1 .. n + 1 PROVE Has(p, m) \/ Has(now, m) \/ m + BufCap <= n + 1
    OBVIOUS
  <2>0. m \in Nat /\ m <= n + 1 /\ Len(now) \in Nat
    BY <1>1, <1>3, <1>4
  <2>1. CASE m > n + 1 - Len(now)
    <3> DEFINE i == m - (n + 1 - Len(now))
    <3>1. i = m - (n + 1 - Len(now))
      OBVIOUS
    <3> HIDE DEF i
    <3>2. i \in 1 .. Len(now)
      BY <2>0, <2>1, <3>1
    <3>3. now[i] = n + 1 - Len(now) + i
      BY <1>5, <3>2
    <3>4. now[i] = m
      BY <2>0, <3>1, <3>3
    <3> QED
      BY <3>2, <3>4 DEF Has
  <2>2. CASE m <= n + 1 - Len(now) /\ m <= n /\ ~Has(p, m)
    <3>1. CASE m + BufCap <= n
      BY <1>1, <3>1
    <3>2. CASE Has(q, m)
      <4>1. PICK i \in 1 .. Len(q) : m = n - Len(q) + i
        BY <3>2 DEF Has, Kept
      <4>2. i \in Int /\ i >= 1 /\ k \in Int /\ n + 1 - Len(now) = n - Len(q) + k - 1
        BY <1>1, <1>3, <1>4, <4>1
      <4>3. i <= k - 1
        BY <1>1, <2>0, <2>2, <4>1, <4>2
      <4>4. Len(q) + 2 - k >= BufCap
        BY <1>4, <4>2, <4>3
      <4> QED
        BY <1>1, <2>0, <2>2, <4>2, <4>4
    <3> QED
      BY <2>2, <3>1, <3>2 DEF Kept
  <2> QED
    BY <1>1, <1>3, <1>4, <2>1, <2>2
<1>8. Kept(p, now, n + 1)
  BY <1>5, <1>6, <1>7 DEF Kept
<1> QED
  BY <1>8 DEF now, all

LEMMA TakeKeeps ==
  ASSUME NEW p \in Seq(Nat), NEW q \in Seq(Nat), NEW n \in Nat, Kept(p, q, n)
  PROVE  /\ Kept(p \o q, << >>, n)
         /\ \A i, j \in 1 .. Len(p \o q) : i < j => (p \o q)[i] < (p \o q)[j]
<1> DEFINE all == p \o q
<1>1. /\ Len(p) \in Nat /\ Len(q) \in Nat /\ Len(all) = Len(p) + Len(q)
      /\ \A i \in 1 .. Len(p) : all[i] = p[i] /\ p[i] \in Nat
      /\ \A i \in 1 .. Len(q) : all[Len(p) + i] = q[i]
  OBVIOUS
<1> HIDE DEF all
<1>2. \A i \in 1 .. Len(all) :
        \/ i \in 1 .. Len(p) /\ all[i] = p[i] /\ all[i] \in Nat /\ all[i] <= n - Len(q)
        \/ i > Len(p) /\ all[i] = n - Len(q) + i - Len(p)
  <2> SUFFICES ASSUME NEW i \in 1 .. Len(all), i > Len(p)
               PROVE  all[i] = n - Len(q) + i - Len(p)
    BY <1>1 DEF Kept
  <2> DEFINE j == i - Len(p)
  <2>1. j = i - Len(p)
    OBVIOUS
  <2> HIDE DEF j
  <2>2. j \in 1 .. Len(q) /\ i = Len(p) + j
    BY <1>1, <2>1
  <2>3. all[i] = q[j]
    BY <1>1, <2>2
  <2>4. q[j] = n - Len(q) + j
    BY <2>2 DEF Kept
  <2> QED
    BY <1>1, <2>1, <2>3, <2>4
<1>3. \A i, j \in 1 .. Len(all) : i < j => all[i] < all[j]
  <2> SUFFICES ASSUME NEW i \in 1 .. Len(all), NEW j \in 1 .. Len(all), i < j
               PROVE  all[i] < all[j]
    OBVIOUS
  <2>0. i \in Int /\ j \in Int /\ i >= 1 /\ j >= 1 /\ j <= Len(all)
    BY <1>1
  <2>1. CASE j <= Len(p)
    <3>1. i \in 1 .. Len(p) /\ j \in 1 .. Len(p)
      BY <1>1, <2>0, <2>1
    <3>2. p[i] < p[j]
      BY <3>1 DEF Kept
    <3> QED
      BY <1>1, <3>1, <3>2
  <2>2. CASE j > Len(p)
    <3>1. all[j] = n - Len(q) + j - Len(p)
      BY <1>1, <1>2, <2>0, <2>2
    <3>2. CASE i <= Len(p)
      <4>1. all[i] \in Nat /\ all[i] <= n - Len(q)
        BY <1>1, <1>2, <2>0, <3>2
      <4> QED
        BY <1>1, <2>0, <2>2, <3>1, <4>1
    <3>3. CASE i > Len(p)
      <4>1. all[i] = n - Len(q) + i - Len(p)
        BY <1>1, <1>2, <2>0, <3>3
      <4> QED
        BY <1>1, <2>0, <3>1, <4>1
    <3> QED
      BY <1>1, <2>0, <3>2, <3>3
  <2> QED
    BY <1>1, <2>0, <2>1, <2>2
<1>4. \A i \in 1 .. Len(all) : all[i] <= n
  <2> SUFFICES ASSUME NEW i \in 1 .. Len(all) PROVE all[i] <= n
    OBVIOUS
  <2>1. i \in Int /\ i <= Len(p) + Len(q)
    BY <1>1
  <2>2. \/ all[i] \in Nat /\ all[i] <= n - Len(q)
        \/ all[i] = n - Len(q) + i - Len(p)
    BY <1>2
  <2> QED
    BY <1>1, <2>1, <2>2
<1>5. \A m \in 1 .. n : Has(all, m) \/ m + BufCap <= n
  <2> SUFFICES ASSUME NEW m \in 1 .. n, Has(p, m) \/ Has(q, m) PROVE Has(all, m)
    BY DEF Kept
  <2>1. CASE Has(p, m)
    BY <1>1, <2>1 DEF Has
  <2>2. CASE Has(q, m)
    <3>1. PICK i \in 1 .. Len(q) : q[i] = m
      BY <2>2 DEF Has
    <3>2. Len(p) + i \in 1 .. Len(all) /\ all[Len(p) + i] = m
      BY <1>1, <3>1
    <3> QED
      BY <3>2 DEF Has
  <2> QED
    BY <2>1, <2>2
<1>6. Kept(all, << >>, n)
  BY <1>1, <1>3, <1>4, <1>5 DEF Kept
<1> QED
  BY <1>3, <1>6 DEF all

\* What the polls returned and what is pending, and how they change.
KeptInv == Kept(drained, buffer, Terminal!Newest)

LEMMA OutputTypes ==
  ASSUME TypeOK
  PROVE  /\ drained \in Seq(Nat) /\ buffer \in Seq(Nat) /\ Terminal!Newest \in Nat
         /\ 1 .. MaxOutput \subseteq Nat
<1>1. drained \in Seq(1 .. MaxOutput) /\ buffer \in Seq(1 .. MaxOutput)
  BY DEF TypeOK
<1>2. drained \in Seq(Nat) /\ buffer \in Seq(Nat)
  BY <1>1, PtyBridgeAssumption
<1>3. drained \o buffer \in Seq(Nat)
  BY <1>2
<1>4. Terminal!Newest \in Nat
  BY <1>3 DEF Terminal!Newest
<1> QED
  BY <1>2, <1>4, PtyBridgeAssumption

LEMMA KeptStep ==
  ASSUME TypeOK, KeptInv, [Terminal!Step]_(Terminal!vars)
  PROVE  KeptInv'
<1>1. CASE UNCHANGED <<buffer, drained>>
  BY <1>1 DEF KeptInv, Terminal!Newest
<1>2. CASE Terminal!Take
  <2>1. drained' = drained \o buffer /\ buffer' = << >>
    BY <1>2 DEF Terminal!Take
  <2>2. drained' \o buffer' = drained \o buffer
    BY <2>1, OutputTypes
  <2>3. Terminal!Newest' = Terminal!Newest
    BY <2>2 DEF Terminal!Newest
  <2>4. Kept(drained \o buffer, << >>, Terminal!Newest)
    BY OutputTypes, TakeKeeps DEF KeptInv
  <2> QED
    BY <2>1, <2>3, <2>4 DEF KeptInv
<1>3. CASE Terminal!Emit
  <2> DEFINE n == Terminal!Newest
             all == Append(buffer, n + 1)
  <2>1. PICK k \in 1 .. Len(all) :
          /\ k = 1 \/ Len(all) - k + 1 >= BufCap
          /\ buffer' = SubSeq(all, k, Len(all)) /\ drained' = drained
    BY <1>3 DEF Terminal!Emit
  <2>2. n \in Nat /\ buffer \in Seq(Nat) /\ drained \in Seq(Nat)
    BY OutputTypes
  <2> HIDE DEF n
  <2>3. Kept(drained', buffer', n + 1)
    BY <2>1, <2>2, EmitKeeps DEF KeptInv, n
  <2>4. Terminal!Newest' = n + 1
    <3>1. all \in Seq(Nat) /\ Len(all) \in Nat /\ all[Len(all)] = n + 1
      BY <2>2
    <3> HIDE DEF all
    <3> DEFINE now == SubSeq(all, k, Len(all))
    <3>a. Len(all) \in 1 .. Len(all) /\ k <= Len(all) + 1
      BY <2>1, <3>1
    <3>b. now \in Seq(Nat)
      BY <2>1, <3>1, <3>a, SubSeqProperties
    <3>c. Len(now) = Len(all) - k + 1
      BY <2>1, <3>1, <3>a, SubSeqProperties
    <3>d. \A i \in 1 .. Len(all) - k + 1 : now[i] = all[k + i - 1]
      BY <2>1, <3>1, <3>a, SubSeqProperties
    <3>2. /\ buffer' \in Seq(Nat) /\ Len(buffer') = Len(all) - k + 1
          /\ \A i \in 1 .. Len(buffer') : buffer'[i] = all[k + i - 1]
      <4> HIDE DEF now
      <4>1. buffer' = now
        BY <2>1 DEF now
      <4> QED
        BY <4>1, <3>b, <3>c, <3>d
    <3>3. Len(buffer') \in 1 .. Len(buffer') /\ buffer'[Len(buffer')] = n + 1
      BY <3>1, <3>2
    <3>4. /\ Len(drained' \o buffer') = Len(drained) + Len(buffer')
          /\ (drained' \o buffer')[Len(drained) + Len(buffer')] = buffer'[Len(buffer')]
      BY <2>1, <2>2, <3>2, <3>3
    <3>5. drained' \o buffer' # << >> /\ (drained' \o buffer')[Len(drained' \o buffer')] = n + 1
      BY <2>2, <3>2, <3>3, <3>4
    <3> QED
      BY <3>5 DEF Terminal!Newest
  <2> QED
    BY <2>3, <2>4 DEF KeptInv
<1> QED
  BY <1>1, <1>2, <1>3
     DEF Terminal!Step, Terminal!Begin, Terminal!Exit, Terminal!Over, Terminal!Show,
         Terminal!Tell, Terminal!vars

\* The polls together return every chunk at most once and in order, and a chunk
\* is lost only to BufCap newer ones, for every capacity and number of callers.
THEOREM PolledOnce == Spec => []BufferIsTail
<1>1. Init => KeptInv
  <2> SUFFICES ASSUME Init PROVE KeptInv
    OBVIOUS
  <2>1. drained = << >> /\ buffer = << >> /\ drained \o buffer = << >>
    BY DEF Init
  <2>2. Terminal!Newest = 0
    BY <2>1 DEF Terminal!Newest
  <2> QED
    BY <2>1, <2>2 DEF KeptInv, Kept
<1>2. IInv /\ SInv /\ KeptInv /\ [Next]_vars => KeptInv'
  BY StepSimulates, KeptStep DEF IInv
<1>3. IInv /\ SInv /\ KeptInv => BufferIsTail
  <2> SUFFICES ASSUME IInv, SInv, KeptInv PROVE BufferIsTail
    OBVIOUS
  <2>1. TypeOK
    BY DEF IInv
  <2>2. \A i, j \in 1 .. Len(drained \o buffer) :
          i < j => (drained \o buffer)[i] < (drained \o buffer)[j]
    BY <2>1, OutputTypes, TakeKeeps DEF KeptInv
  <2>3. alive => \A m \in 1 .. Stored : Lost(m) => m + BufCap <= Stored
    <3> SUFFICES ASSUME alive, NEW m \in 1 .. Stored, Lost(m) PROVE m + BufCap <= Stored
      OBVIOUS
    <3>1. Terminal!Newest = Stored
      BY DEF SInv, NewestInv
    <3>2. ~Has(drained, m) /\ ~Has(buffer, m)
      BY DEF Lost, Has
    <3> QED
      BY <3>1, <3>2 DEF KeptInv, Kept
  <2> QED
    BY <2>2, <2>3 DEF BufferIsTail
<1> QED
  BY <1>1, <1>2, <1>3, Invariance, SInvariance, PTL DEF Spec
=============================================================================
