-------------------------- MODULE PtyBridgeProofs --------------------------
(***************************************************************************)
(* What holds of PtyBridge for every number of connections and requests,   *)
(* every buffer size and every bound on the output.                        *)
(***************************************************************************)
EXTENDS PtyBridge, OutputBufferProofs

-----------------------------------------------------------------------------
(* The inductive invariant.                                                 *)

\* Where a handler is only once there is a session.
InSession == {"join", "hello", "serve", "reply", "leave", "lock", "write",
              "flags", "drain", "count"}

\* The Once lets one goroutine in, before there is a session; without a
\* session nothing that needs one has begun.
OnceInv ==
  /\ OneSession
  /\ \A h \in Handlers : pc[h] = "init" => sessionOnce = "busy"
  /\ ~session => \A h \in Handlers : pc[h] \notin InSession
  /\ \A g \in Casters : at[g] # NoOne => pc[g] = "cast"

\* The reader handles the chunk it has taken.
ReaderInv == pc["reader"] \in {"store", "bcast", "cast"} => taken >= 1

\* How far the waiter is and what it has made visible.
WaiterInv ==
  /\ pc["waiter"] \in {"flag", "signal", "bcast", "cast", "sleep"}
       => child = "exited"
  /\ pc["waiter"] \in {"signal", "bcast", "cast", "sleep"} => ~isRunning
  /\ session /\ ~isRunning => child = "exited"
  /\ ~session => toldExit = {} /\ \A r \in Requests : answer[r] # "exit"

IInv == TypeOK /\ OnceInv /\ ReaderInv /\ WaiterInv /\ ExitIsTrue

-----------------------------------------------------------------------------
(* Type correctness.                                                        *)

LEMMA GoroutinesDistinct ==
  /\ "reader" \in Goroutines /\ "waiter" \in Goroutines
  /\ \A h \in Handlers : h \in Goroutines /\ h # "reader" /\ h # "waiter"
  /\ \A c \in Conns : c \in Handlers /\ c \notin Requests /\ c # NoOne
  /\ \A r \in Requests : r \in Handlers /\ r \notin Conns
BY PtyBridgeAssumption DEF Goroutines, Handlers, Casters

LEMMA InitType == Init => TypeOK
<1> SUFFICES ASSUME Init PROVE TypeOK
  OBVIOUS
<1>1. /\ pc \in [Goroutines -> Labels]
      /\ at \in [Casters -> Conns \cup {NoOne}]
      /\ todo \in [Casters -> SUBSET Conns]
  BY DEF Init, Labels
<1>2. /\ buffer \in Seq(1..MaxOutput) /\ drained \in Seq(1..MaxOutput)
      /\ wire \in [Conns -> Seq(1..MaxOutput)]
  BY DEF Init
<1>3. produced \in 0..MaxOutput /\ taken \in 0..produced /\ keys \in 0..KeyCap
  BY PtyBridgeAssumption DEF Init
<1> QED
  BY <1>1, <1>2, <1>3 DEF Init, TypeOK

LEMMA MoveType ==
  ASSUME TypeOK, NEW g \in Goroutines, NEW l \in Labels, Move(g, l)
  PROVE  TypeOK'
BY DEF Move, Goto, TypeOK, onceVars, exitVars, outVars, callVars, castVars,
       connVars, ptyVars

LEMMA FinishType ==
  ASSUME TypeOK, NEW h \in Handlers,
         NEW a \in {"ok", "error", "panic"}, Finish(h, a)
  PROVE  TypeOK'
<1>1. h \in Goroutines /\ "done" \in Labels
  BY DEF Goroutines, Labels
<1>2. conn' \in [Conns -> {"none", "up", "stalled", "dead", "down"}]
  BY DEF Finish, Return, TypeOK
<1> QED
  BY <1>1, <1>2 DEF Finish, Return, Goto, TypeOK, onceVars, exitVars, outVars,
     castVars, ptyVars

LEMMA ConnectionType ==
  ASSUME TypeOK, NEW c \in Conns,
         NEW s \in {"none", "up", "stalled", "dead", "down"}, Connection(c, s),
         pc' \in [Goroutines -> Labels]
  PROVE  TypeOK'
BY DEF Connection, TypeOK, onceVars, exitVars, outVars, callVars, castVars,
       ptyVars

LEMMA HaltType ==
  ASSUME TypeOK, Halt
  PROVE  TypeOK'
<1>1. pc' \in [Goroutines -> Labels] /\ at' \in [Casters -> Conns \cup {NoOne}]
  BY DEF Halt, Labels
<1> QED
  BY <1>1 DEF Halt, TypeOK, onceVars, exitVars, outVars, callVars

LEMMA TypeEnvironment ==
  ASSUME TypeOK, Environment
  PROVE  TypeOK'
<1> USE DEF Labels
<1>1. ASSUME NEW c \in Conns, Dial(c) PROVE TypeOK'
  <2>1. pc' \in [Goroutines -> Labels]
    BY <1>1 DEF Dial, Goto, TypeOK
  <2> QED
    BY <1>1, <2>1, ConnectionType DEF Dial
<1>2. ASSUME NEW c \in Conns, PeerClose(c) \/ PeerStalls(c) PROVE TypeOK'
  <2>1. pc' \in [Goroutines -> Labels]
    BY <1>2 DEF PeerClose, PeerStalls, TypeOK
  <2> QED
    BY <1>2, <2>1, ConnectionType DEF PeerClose, PeerStalls
<1>3. ASSUME NEW c \in Conns, DeadlinePasses(c) PROVE TypeOK'
  BY <1>3 DEF DeadlinePasses, TypeOK, onceVars, exitVars, outVars, callVars,
         castVars, ptyVars
<1>4. ASSUME NEW c \in Conns, AwaitInit(c) \/ WsData(c) PROVE TypeOK'
  BY <1>4, MoveType, GoroutinesDistinct DEF AwaitInit, WsData
<1>5. ASSUME NEW c \in Conns, AwaitFails(c) PROVE TypeOK'
  BY <1>5, FinishType, GoroutinesDistinct DEF AwaitFails
<1>6. ASSUME NEW r \in Requests, NEW k \in Kinds, Request(r, k) PROVE TypeOK'
  BY <1>6 DEF Request, Goto, TypeOK, onceVars, exitVars, outVars, castVars,
         connVars, ptyVars
<1>7. CASE ChildPrints \/ ChildReadsKey \/ ChildExits
  <2>1. /\ child' \in {"none", "running", "exited"}
        /\ produced' \in 0..MaxOutput /\ taken' \in 0..produced'
        /\ keys' \in 0..KeyCap
    BY <1>7, PtyBridgeAssumption
       DEF ChildPrints, ChildReadsKey, ChildExits, OpenCode, TypeOK
  <2> QED
    BY <1>7, <2>1 DEF ChildPrints, ChildReadsKey, ChildExits, OpenCode, TypeOK,
       onceVars, exitVars, outVars, callVars, castVars, connVars
<1> QED
  BY <1>1, <1>2, <1>3, <1>4, <1>5, <1>6, <1>7 DEF Environment

LEMMA TypeStart ==
  ASSUME TypeOK, NEW h \in Handlers, Start(h)
  PROVE  TypeOK'
<1> USE GoroutinesDistinct DEF Labels
<1>1. CASE OnceEnter(h)
  BY <1>1 DEF OnceEnter, Goto, TypeOK, exitVars, outVars, callVars, castVars,
         connVars, ptyVars
<1>2. CASE OnceSkip(h)
  BY <1>2, MoveType DEF OnceSkip
<1>3. CASE InitializeSession(h)
  <2>1. pc' \in [Goroutines -> Labels]
    BY <1>3 DEF InitializeSession, TypeOK
  <2>2. /\ starts' \in Nat /\ produced' \in 0..MaxOutput
        /\ taken' \in 0..produced' /\ keys' \in 0..KeyCap
    BY <1>3 DEF InitializeSession, TypeOK
  <2>3. session' \in BOOLEAN /\ isRunning' \in BOOLEAN
    BY <1>3 DEF InitializeSession
  <2> QED
    BY <1>3, <2>1, <2>2, <2>3 DEF InitializeSession, TypeOK, outVars, callVars,
       castVars, connVars
<1>4. CASE InitializeSessionFails(h)
  <2>1. conn' \in [Conns -> {"none", "up", "stalled", "dead", "down"}]
    BY <1>4 DEF InitializeSessionFails, Return, TypeOK
  <2> QED
    BY <1>4, <2>1 DEF InitializeSessionFails, Return, Goto, TypeOK, exitVars,
       outVars, castVars, ptyVars
<1>5. CASE Post(h)
  BY <1>5, MoveType, FinishType DEF Post
<1>6. CASE PostNil(h)
  BY <1>6, FinishType DEF PostNil
<1> QED
  BY <1>1, <1>2, <1>3, <1>4, <1>5, <1>6 DEF Start

LEMMA TypeTyping ==
  ASSUME TypeOK, NEW h \in Handlers, Type(h)
  PROVE  TypeOK'
<1> USE GoroutinesDistinct DEF Labels
<1>1. CASE Lock(h)
  BY <1>1, MoveType, FinishType DEF Lock
<1>2. CASE PtyWrite(h)
  <2>1. keys' \in 0..KeyCap
    BY <1>2, PtyBridgeAssumption DEF PtyWrite, TypeOK
  <2>2. CASE Return(h, "ok")
    <3>1. conn' \in [Conns -> {"none", "up", "stalled", "dead", "down"}]
      BY <2>2 DEF Return, TypeOK
    <3> QED
      BY <1>2, <2>1, <2>2, <3>1 DEF PtyWrite, Return, Goto, TypeOK, onceVars,
         exitVars, outVars, castVars
  <2>3. CASE ~Return(h, "ok")
    <3>1. Goto(h, "serve") \/ Goto(h, "flags")
      BY <1>2, <2>3 DEF PtyWrite
    <3>2. pc' \in [Goroutines -> Labels]
      BY <3>1 DEF Goto, TypeOK
    <3> QED
      BY <1>2, <2>1, <2>3, <3>2 DEF PtyWrite, TypeOK, onceVars, exitVars,
         outVars, callVars, castVars, connVars
  <2> QED
    BY <2>2, <2>3
<1>3. CASE PtyWriteFails(h)
  BY <1>3, MoveType, FinishType DEF PtyWriteFails
<1> QED
  BY <1>1, <1>2, <1>3 DEF Type

LEMMA TypeServe ==
  ASSUME TypeOK, NEW c \in Conns, Serve(c) \/ Garble(c)
  PROVE  TypeOK'
<1> USE GoroutinesDistinct DEF Labels
<1>1. CASE AddClient(c)
  BY <1>1 DEF AddClient, Goto, TypeOK, onceVars, exitVars, outVars, callVars,
         castVars, connVars, ptyVars
<1>2. CASE BeginReply(c) \/ WsResize(c) \/ WsReadFails(c)
  BY <1>2, MoveType DEF BeginReply, WsResize, WsReadFails
<1>3. CASE EndReply(c)
  <2>1. pc' \in [Goroutines -> Labels]
    BY <1>3 DEF EndReply, Goto, TypeOK
  <2>2. conn[c] \in {"none", "up", "stalled", "dead", "down"}
    BY DEF TypeOK
  <2> QED
    BY <1>3, <2>1, <2>2, ConnectionType DEF EndReply
<1>4. CASE RemoveClient(c)
  <2>1. conn' \in [Conns -> {"none", "up", "stalled", "dead", "down"}]
    BY <1>4 DEF RemoveClient, Return, TypeOK
  <2> QED
    BY <1>4, <2>1 DEF RemoveClient, Return, Goto, TypeOK, onceVars, exitVars,
       outVars, castVars, ptyVars
<1>5. CASE Garble(c)
  <2>1. pc' \in [Goroutines -> Labels]
    BY <1>5 DEF Garble, TypeOK
  <2> QED
    BY <1>5, <2>1, ConnectionType DEF Garble
<1> QED
  BY <1>1, <1>2, <1>3, <1>4, <1>5 DEF Serve

LEMMA TypePoll ==
  ASSUME TypeOK, NEW r \in Requests, Poll(r)
  PROVE  TypeOK'
<1> USE GoroutinesDistinct DEF Labels
<1>1. CASE Check(r) \/ ReadCheck(r)
  BY <1>1, MoveType, FinishType DEF Check, ReadCheck
<1>2. CASE StatusLocks(r) \/ StatusCounts(r)
  BY <1>2, MoveType, FinishType DEF StatusLocks, StatusCounts
<1>3. CASE ReadFlags(r)
  BY <1>3 DEF ReadFlags, Goto, TypeOK, onceVars, exitVars, outVars, castVars,
         connVars, ptyVars
<1>4. CASE Drain(r)
  <2>1. buffer' \in Seq(1..MaxOutput) /\ drained' \in Seq(1..MaxOutput)
    BY <1>4 DEF Drain, BufAfterRead, TypeOK
  <2> QED
    BY <1>4, <2>1 DEF Drain, Goto, TypeOK, onceVars, exitVars, callVars,
       castVars, connVars, ptyVars
<1> QED
  BY <1>1, <1>2, <1>3, <1>4 DEF Poll

LEMMA TypeReader ==
  ASSUME TypeOK, ReaderInv, Reader
  PROVE  TypeOK'
<1> USE GoroutinesDistinct DEF Labels
<1>1. CASE ReaderPoll \/ ReaderReadFails
  BY <1>1, MoveType DEF ReaderPoll, ReaderReadFails
<1>2. CASE ReaderRead
  <2>1. taken' \in 0..produced
    BY <1>2, PtyBridgeAssumption DEF ReaderRead, TypeOK
  <2> QED
    BY <1>2, <2>1 DEF ReaderRead, Goto, TypeOK, onceVars, exitVars, outVars,
       callVars, castVars, connVars
<1>3. CASE ReaderStore
  <2>1. taken \in 1..MaxOutput
    BY <1>3, PtyBridgeAssumption DEF ReaderStore, ReaderInv, TypeOK
  <2>2. buffer' \in Seq(1..MaxOutput)
    <3>1. <<taken>> \in Seq(1..MaxOutput) /\ buffer \in Seq(1..MaxOutput)
      BY <2>1 DEF TypeOK
    <3> QED
      BY <1>3, <3>1, BufWriteType DEF ReaderStore
  <2> QED
    BY <1>3, <2>2 DEF ReaderStore, Goto, TypeOK, onceVars, exitVars, outVars,
       callVars, castVars, connVars, ptyVars
<1> QED
  BY <1>1, <1>2, <1>3 DEF Reader

LEMMA TypeBroadcast ==
  ASSUME TypeOK, ReaderInv, NEW g \in Casters, Broadcast(g)
  PROVE  TypeOK'
<1> USE GoroutinesDistinct DEF Labels
<1>0. g \in Goroutines
  BY DEF Goroutines
<1>1. CASE CastBegin(g)
  BY <1>0, <1>1 DEF CastBegin, Goto, TypeOK, onceVars, exitVars, outVars,
     callVars, connVars, ptyVars
<1>2. ASSUME NEW c \in Conns, CastSend(g, c) PROVE TypeOK'
  BY <1>2 DEF CastSend, TypeOK, onceVars, exitVars, outVars, callVars, ptyVars
<1>3. CASE CastSent(g)
  <2>1. at[g] \in Conns
    BY <1>3 DEF CastSent, TypeOK
  <2>2. wire' \in [Conns -> Seq(1..MaxOutput)]
    <3>1. CASE g = "reader"
      <4>1. taken \in 1..MaxOutput
        BY <1>3, <3>1, PtyBridgeAssumption DEF CastSent, ReaderInv, TypeOK
      <4>2. Append(wire[at[g]], taken) \in Seq(1..MaxOutput)
        BY <2>1, <4>1 DEF TypeOK
      <4>3. wire' = [wire EXCEPT ![at[g]] = Append(@, taken)]
        BY <1>3, <3>1 DEF CastSent
      <4>4. wire \in [Conns -> Seq(1..MaxOutput)]
        BY DEF TypeOK
      <4> QED
        BY <2>1, <4>2, <4>3, <4>4
    <3>2. CASE g # "reader"
      BY <1>3, <3>2 DEF CastSent, TypeOK
    <3> QED
      BY <3>1, <3>2
  <2>3. toldExit' \in SUBSET Conns /\ at' \in [Casters -> Conns \cup {NoOne}]
    BY <1>3, <2>1 DEF CastSent, TypeOK
  <2> QED
    BY <1>3, <2>2, <2>3 DEF CastSent, TypeOK, onceVars, exitVars, outVars,
       callVars, connVars, ptyVars
<1>4. CASE CastSendFails(g)
  <2>1. conn' \in [Conns -> {"none", "up", "stalled", "dead", "down"}]
    BY <1>4 DEF CastSendFails, TypeOK
  <2> QED
    BY <1>4, <2>1 DEF CastSendFails, TypeOK, onceVars, exitVars, outVars,
       callVars, ptyVars
<1>5. CASE CastEnd(g)
  BY <1>0, <1>5, MoveType DEF CastEnd
<1> QED
  BY <1>1, <1>2, <1>3, <1>4, <1>5 DEF Broadcast

LEMMA TypeWaiter ==
  ASSUME TypeOK, Waiter
  PROVE  TypeOK'
<1> USE GoroutinesDistinct DEF Labels
<1>1. CASE WaiterWakes
  BY <1>1, MoveType DEF WaiterWakes
<1>2. CASE WaiterFlags
  BY <1>2 DEF WaiterFlags, Goto, TypeOK, onceVars, outVars, callVars, castVars,
         connVars, ptyVars
<1>3. CASE WaiterSignals
  BY <1>3 DEF WaiterSignals, Goto, TypeOK, onceVars, outVars, callVars,
         castVars, connVars, ptyVars
<1>4. CASE WaiterExits
  BY <1>4, HaltType DEF WaiterExits
<1> QED
  BY <1>1, <1>2, <1>3, <1>4 DEF Waiter

LEMMA TypeConcurrentWrite ==
  ASSUME TypeOK, NEW g \in Goroutines, NEW c \in Conns, ConcurrentWrite(g, c)
  PROVE  TypeOK'
BY MoveType, HaltType, GoroutinesDistinct DEF ConcurrentWrite, Labels

\* A step leaves every variable within its type.
LEMMA TypeStep ==
  ASSUME TypeOK, ReaderInv, [Next]_vars
  PROVE  TypeOK'
<1>1. CASE Environment
  BY <1>1, TypeEnvironment
<1>2. CASE Bridge
  BY <1>2, TypeStart, TypeTyping, TypeServe, TypePoll, TypeReader,
     TypeBroadcast, TypeWaiter, TypeConcurrentWrite DEF Bridge
<1>3. CASE UNCHANGED vars
  BY <1>3 DEF vars, TypeOK, onceVars, exitVars, outVars, callVars, castVars,
     connVars, ptyVars
<1> QED
  BY <1>1, <1>2, <1>3 DEF Next

-----------------------------------------------------------------------------
(* The other conjuncts of the invariant.                                    *)

\* What IInv says besides the types.
Control == OnceInv /\ ReaderInv /\ WaiterInv /\ ExitIsTrue

LEMMA InitControl == Init => Control
BY GoroutinesDistinct DEF Init, Control, OnceInv, OneSession, ReaderInv,
   WaiterInv, ExitIsTrue, InSession, Handlers, Goroutines, Casters

\* A handler that goes on enters neither the Once nor, before there is a
\* session, a place that needs one.
LEMMA HandlerMoves ==
  ASSUME TypeOK, Control, NEW h \in Handlers, NEW l \in Labels \ {"init"},
         Move(h, l), l \in InSession => session
  PROVE  Control'
BY GoroutinesDistinct
   DEF Move, Goto, TypeOK, Control, OnceInv, OneSession, ReaderInv, WaiterInv,
       ExitIsTrue, InSession, Casters, Goroutines,
       onceVars, exitVars, callVars, castVars, ptyVars

LEMMA HandlerReturns ==
  ASSUME TypeOK, Control, NEW h \in Handlers,
         NEW a \in {"ok", "error", "panic"}, Finish(h, a)
  PROVE  Control'
BY GoroutinesDistinct
   DEF Finish, Return, Goto, TypeOK, Control, OnceInv, OneSession, ReaderInv,
       WaiterInv, ExitIsTrue, InSession, Casters, Goroutines,
       onceVars, exitVars, castVars, ptyVars

LEMMA ConnectionChanges ==
  ASSUME TypeOK, Control, NEW c \in Conns, NEW s, Connection(c, s),
         \/ UNCHANGED pc
         \/ \E l \in Labels \ {"init"} :
              Goto(c, l) /\ (l \in InSession => session)
  PROVE  Control'
BY GoroutinesDistinct
   DEF Connection, Goto, TypeOK, Control, OnceInv, OneSession, ReaderInv,
       WaiterInv, ExitIsTrue, InSession, Casters, Goroutines,
       onceVars, exitVars, callVars, castVars, ptyVars

LEMMA HaltControl ==
  ASSUME TypeOK, Control, session, Halt
  PROVE  Control'
BY GoroutinesDistinct
   DEF Halt, TypeOK, Control, OnceInv, OneSession, ReaderInv, WaiterInv,
       ExitIsTrue, InSession, Casters, Goroutines, onceVars, exitVars, callVars

LEMMA ControlEnvironment ==
  ASSUME TypeOK, Control, Environment
  PROVE  Control'
<1> USE GoroutinesDistinct DEF Labels
<1>1. ASSUME NEW c \in Conns, Dial(c) PROVE Control'
  BY <1>1, ConnectionChanges DEF Dial, InSession
<1>2. ASSUME NEW c \in Conns, PeerClose(c) \/ PeerStalls(c) PROVE Control'
  BY <1>2, ConnectionChanges DEF PeerClose, PeerStalls
<1>3. ASSUME NEW c \in Conns, DeadlinePasses(c) PROVE Control'
  BY <1>3 DEF DeadlinePasses, Control, OnceInv, OneSession, ReaderInv,
     WaiterInv, ExitIsTrue, onceVars, exitVars, callVars, castVars, ptyVars
<1>4. ASSUME NEW c \in Conns, AwaitInit(c) PROVE Control'
  BY <1>4, HandlerMoves DEF AwaitInit, InSession
<1>5. ASSUME NEW c \in Conns, WsData(c) PROVE Control'
  BY <1>5, HandlerMoves DEF WsData, InSession, Control, OnceInv
<1>6. ASSUME NEW c \in Conns, AwaitFails(c) PROVE Control'
  BY <1>6, HandlerReturns DEF AwaitFails
<1>7. ASSUME NEW r \in Requests, NEW k \in Kinds, Request(r, k) PROVE Control'
  BY <1>7 DEF Request, Goto, TypeOK, Control, OnceInv, OneSession, ReaderInv,
     WaiterInv, ExitIsTrue, InSession, Casters, Goroutines, onceVars, exitVars,
     castVars, ptyVars
<1>8. CASE ChildPrints \/ ChildReadsKey \/ ChildExits
  BY <1>8 DEF ChildPrints, ChildReadsKey, ChildExits, OpenCode, TypeOK,
     Control, OnceInv, OneSession, ReaderInv, WaiterInv, ExitIsTrue,
     onceVars, exitVars, callVars, castVars
<1> QED
  BY <1>1, <1>2, <1>3, <1>4, <1>5, <1>6, <1>7, <1>8 DEF Environment

LEMMA ControlStart ==
  ASSUME TypeOK, Control, NEW h \in Handlers, Start(h)
  PROVE  Control'
<1> USE GoroutinesDistinct DEF Labels
<1>1. CASE OnceEnter(h)
  BY <1>1 DEF OnceEnter, Goto, TypeOK, Control, OnceInv, OneSession, ReaderInv,
     WaiterInv, ExitIsTrue, InSession, Casters, Goroutines, exitVars,
     callVars, castVars, ptyVars
<1>2. CASE OnceSkip(h)
  BY <1>2, HandlerMoves DEF OnceSkip, InSession
<1>3. CASE InitializeSession(h)
  <2>1. ~session /\ starts = 0
    BY <1>3 DEF InitializeSession, Control, OnceInv, OneSession
  <2>2. OnceInv'
    <3>1. /\ session' /\ sessionOnce' = "done" /\ child' # "none"
          /\ starts' = 1
      BY <1>3, <2>1 DEF InitializeSession
    <3>2. \A k \in Handlers : pc'[k] # "init"
      <4>1. sessionOnce = "busy" /\ pc[h] = "init"
        BY <1>3 DEF InitializeSession, Control, OnceInv
      <4>2. \A k \in Handlers : k # h => pc[k] # "init"
        BY <4>1 DEF Control, OnceInv, OneSession
      <4>3. pc \in [Goroutines -> Labels]
        BY DEF TypeOK
      <4> QED
        BY <1>3, <4>2, <4>3 DEF InitializeSession
    <3>3. \A g \in Casters : at'[g] = NoOne
      BY <1>3, <2>1 DEF InitializeSession, Control, OnceInv, OneSession, castVars
    <3> QED
      BY <3>1, <3>2, <3>3 DEF OnceInv, OneSession
  <2>3. pc'["reader"] = "poll" /\ pc'["waiter"] = "wait"
    BY <1>3 DEF InitializeSession, TypeOK
  <2>4. session' /\ isRunning'
    BY <1>3 DEF InitializeSession
  <2>5. WaiterInv' /\ ReaderInv'
    BY <2>3, <2>4 DEF WaiterInv, ReaderInv
  <2>6. ExitIsTrue'
    BY <1>3, <2>1 DEF InitializeSession, Control, WaiterInv, ExitIsTrue,
       castVars, callVars
  <2> QED
    BY <2>2, <2>5, <2>6 DEF Control
<1>4. CASE InitializeSessionFails(h)
  BY <1>4 DEF InitializeSessionFails, Return, Goto, TypeOK, Control, OnceInv,
     OneSession, ReaderInv, WaiterInv, ExitIsTrue, InSession, Casters,
     Goroutines, exitVars, castVars, ptyVars
<1>5. CASE Post(h)
  BY <1>5, HandlerMoves, HandlerReturns DEF Post
<1>6. CASE PostNil(h)
  BY <1>6, HandlerReturns DEF PostNil
<1> QED
  BY <1>1, <1>2, <1>3, <1>4, <1>5, <1>6 DEF Start

LEMMA ControlTyping ==
  ASSUME TypeOK, Control, NEW h \in Handlers, Type(h)
  PROVE  Control'
<1> USE GoroutinesDistinct DEF Labels
<1>1. CASE Lock(h)
  BY <1>1, HandlerMoves, HandlerReturns DEF Lock, Control, OnceInv, InSession
<1>2. CASE PtyWrite(h)
  <2>1. CASE Return(h, "ok")
    BY <1>2, <2>1 DEF PtyWrite, Return, Goto, TypeOK, Control, OnceInv,
       OneSession, ReaderInv, WaiterInv, ExitIsTrue, InSession, Casters,
       Goroutines, onceVars, exitVars, castVars
  <2>2. CASE ~Return(h, "ok")
    BY <1>2, <2>2 DEF PtyWrite, Goto, TypeOK, Control, OnceInv, OneSession,
       ReaderInv, WaiterInv, ExitIsTrue, InSession, Casters, Goroutines,
       onceVars, exitVars, callVars, castVars
  <2> QED
    BY <2>1, <2>2
<1>3. CASE PtyWriteFails(h)
  BY <1>3, HandlerMoves, HandlerReturns
     DEF PtyWriteFails, Control, OnceInv, InSession
<1> QED
  BY <1>1, <1>2, <1>3 DEF Type

LEMMA ControlServe ==
  ASSUME TypeOK, Control, NEW c \in Conns, Serve(c) \/ Garble(c)
  PROVE  Control'
<1> USE GoroutinesDistinct DEF Labels
<1>1. CASE AddClient(c)
  BY <1>1 DEF AddClient, Goto, TypeOK, Control, OnceInv, OneSession, ReaderInv,
     WaiterInv, ExitIsTrue, InSession, Casters, Goroutines, onceVars,
     exitVars, callVars, castVars, ptyVars
<1>2. CASE BeginReply(c) \/ WsResize(c) \/ WsReadFails(c)
  BY <1>2, HandlerMoves
     DEF BeginReply, WsResize, WsReadFails, Control, OnceInv, InSession
<1>3. CASE EndReply(c)
  <2>1. session
    BY <1>3 DEF EndReply, Control, OnceInv, InSession
  <2> QED
    BY <1>3, <2>1, ConnectionChanges DEF EndReply
<1>4. CASE RemoveClient(c)
  BY <1>4 DEF RemoveClient, Return, Goto, TypeOK, Control, OnceInv, OneSession,
     ReaderInv, WaiterInv, ExitIsTrue, InSession, Casters, Goroutines,
     onceVars, exitVars, castVars, ptyVars
<1>5. CASE Garble(c)
  BY <1>5, ConnectionChanges DEF Garble
<1> QED
  BY <1>1, <1>2, <1>3, <1>4, <1>5 DEF Serve

LEMMA ControlPoll ==
  ASSUME TypeOK, Control, NEW r \in Requests, Poll(r)
  PROVE  Control'
<1> USE GoroutinesDistinct DEF Labels
<1>1. CASE Check(r) \/ ReadCheck(r)
  BY <1>1, HandlerMoves, HandlerReturns DEF Check, ReadCheck
<1>2. CASE StatusLocks(r) \/ StatusCounts(r)
  BY <1>2, HandlerMoves, HandlerReturns DEF StatusLocks, StatusCounts
<1>3. CASE ReadFlags(r)
  BY <1>3 DEF ReadFlags, Goto, TypeOK, Control, OnceInv, OneSession, ReaderInv,
     WaiterInv, ExitIsTrue, InSession, Casters, Goroutines, onceVars,
     exitVars, castVars, ptyVars
<1>4. CASE Drain(r)
  BY <1>4 DEF Drain, Goto, TypeOK, Control, OnceInv, OneSession, ReaderInv,
     WaiterInv, ExitIsTrue, InSession, Casters, Goroutines, onceVars,
     exitVars, callVars, castVars, ptyVars
<1> QED
  BY <1>1, <1>2, <1>3, <1>4 DEF Poll

\* The reader and the waiter run only in a session.
LEMMA CastersNeedSession ==
  ASSUME Control, NEW g \in Casters, pc[g] # "idle"
  PROVE  session
BY DEF Control, OnceInv, OneSession

LEMMA ControlReader ==
  ASSUME TypeOK, Control, Reader
  PROVE  Control'
<1> USE GoroutinesDistinct
<1>1. session
  BY CastersNeedSession
     DEF Reader, ReaderPoll, ReaderRead, ReaderReadFails, ReaderStore, Casters
<1>2. CASE ReaderPoll \/ ReaderReadFails
  <2>1. PICK l \in {"stopped", "read"} : Move("reader", l)
    BY <1>2 DEF ReaderPoll, ReaderReadFails
  <2>2. pc["reader"] \in {"poll", "read"}
    BY <1>2 DEF ReaderPoll, ReaderReadFails
  <2> QED
    BY <1>1, <2>1, <2>2 DEF Move, Goto, TypeOK, Control, OnceInv, OneSession,
       ReaderInv, WaiterInv, ExitIsTrue, Casters, Goroutines, onceVars,
       exitVars, callVars, castVars, ptyVars
<1>3. CASE ReaderRead
  <2>1. taken' >= 1
    BY <1>3 DEF ReaderRead, TypeOK
  <2>2. ReaderInv'
    BY <2>1 DEF ReaderInv
  <2> QED
    BY <1>1, <1>3, <2>2 DEF ReaderRead, Goto, TypeOK, Control, OnceInv,
       OneSession, WaiterInv, ExitIsTrue, Casters, Goroutines, onceVars,
       exitVars, callVars, castVars
<1>4. CASE ReaderStore
  BY <1>1, <1>4 DEF ReaderStore, Goto, TypeOK, Control, OnceInv, OneSession,
     ReaderInv, WaiterInv, ExitIsTrue, Casters, Goroutines, onceVars,
     exitVars, callVars, castVars, ptyVars
<1> QED
  BY <1>2, <1>3, <1>4 DEF Reader

LEMMA ControlBroadcast ==
  ASSUME TypeOK, Control, NEW g \in Casters, Broadcast(g)
  PROVE  Control'
<1> USE GoroutinesDistinct
<1>0. session
  BY CastersNeedSession
     DEF Broadcast, CastBegin, CastSend, CastSent, CastSendFails, CastEnd
<1>1. CASE CastBegin(g)
  BY <1>0, <1>1 DEF CastBegin, Goto, TypeOK, Control, OnceInv, OneSession,
     ReaderInv, WaiterInv, ExitIsTrue, Casters, Goroutines, onceVars,
     exitVars, callVars, ptyVars
<1>2. ASSUME NEW c \in Conns, CastSend(g, c) PROVE Control'
  BY <1>0, <1>2 DEF CastSend, TypeOK, Control, OnceInv, OneSession, ReaderInv,
     WaiterInv, ExitIsTrue, onceVars, exitVars, callVars, ptyVars
<1>3. CASE CastSent(g)
  <2>1. toldExit' # {} => child = "exited" /\ ~isRunning
    BY <1>3 DEF CastSent, Control, WaiterInv, ExitIsTrue, Casters
  <2> QED
    BY <1>0, <1>3, <2>1 DEF CastSent, TypeOK, Control, OnceInv, OneSession,
       ReaderInv, WaiterInv, ExitIsTrue, onceVars, exitVars, callVars, ptyVars
<1>4. CASE CastSendFails(g)
  BY <1>0, <1>4 DEF CastSendFails, TypeOK, Control, OnceInv, OneSession,
     ReaderInv, WaiterInv, ExitIsTrue, onceVars, exitVars, callVars, ptyVars
<1>5. CASE CastEnd(g)
  BY <1>0, <1>5 DEF CastEnd, Move, Goto, TypeOK, Control, OnceInv, OneSession,
     ReaderInv, WaiterInv, ExitIsTrue, Casters, Goroutines, onceVars,
     exitVars, callVars, castVars, ptyVars
<1> QED
  BY <1>1, <1>2, <1>3, <1>4, <1>5 DEF Broadcast

LEMMA ControlWaiter ==
  ASSUME TypeOK, Control, Waiter
  PROVE  Control'
<1> USE GoroutinesDistinct
<1>0. session
  BY CastersNeedSession
     DEF Waiter, WaiterWakes, WaiterFlags, WaiterSignals, WaiterExits, Casters
<1>1. CASE WaiterWakes
  BY <1>0, <1>1 DEF WaiterWakes, Move, Goto, TypeOK, Control, OnceInv,
     OneSession, ReaderInv, WaiterInv, ExitIsTrue, Casters, Goroutines,
     onceVars, exitVars, callVars, castVars, ptyVars
<1>2. CASE WaiterFlags
  BY <1>0, <1>2 DEF WaiterFlags, Goto, TypeOK, Control, OnceInv, OneSession,
     ReaderInv, WaiterInv, ExitIsTrue, Casters, Goroutines, onceVars,
     callVars, castVars, ptyVars
<1>3. CASE WaiterSignals
  BY <1>0, <1>3 DEF WaiterSignals, Goto, TypeOK, Control, OnceInv, OneSession,
     ReaderInv, WaiterInv, ExitIsTrue, Casters, Goroutines, onceVars,
     callVars, castVars, ptyVars
<1>4. CASE WaiterExits
  BY <1>0, <1>4, HaltControl DEF WaiterExits
<1> QED
  BY <1>1, <1>2, <1>3, <1>4 DEF Waiter

LEMMA ControlConcurrentWrite ==
  ASSUME TypeOK, Control, NEW g \in Goroutines, NEW c \in Conns,
         ConcurrentWrite(g, c)
  PROVE  Control'
<1> USE GoroutinesDistinct
<1>1. CASE g = c
  <2>1. pc[c] = "reply"
    BY <1>1 DEF ConcurrentWrite, Writers, Casters
  <2>2. session
    BY <2>1 DEF Control, OnceInv, InSession
  <2> QED
    BY <1>1, <2>2, HandlerMoves DEF ConcurrentWrite, Labels
<1>2. CASE g # c
  <2>1. g \in Casters /\ at[g] # NoOne
    BY <1>2 DEF ConcurrentWrite, Writers
  <2>2. session
    BY <2>1, CastersNeedSession DEF Control, OnceInv
  <2> QED
    BY <1>2, <2>2, HaltControl DEF ConcurrentWrite
<1> QED
  BY <1>1, <1>2

LEMMA ControlStep ==
  ASSUME TypeOK, Control, [Next]_vars
  PROVE  Control'
<1>1. CASE Environment
  BY <1>1, ControlEnvironment
<1>2. CASE Bridge
  BY <1>2, ControlStart, ControlTyping, ControlServe, ControlPoll,
     ControlReader, ControlBroadcast, ControlWaiter, ControlConcurrentWrite
     DEF Bridge
<1>3. CASE UNCHANGED vars
  BY <1>3 DEF vars, Control, OnceInv, OneSession, ReaderInv, WaiterInv,
     ExitIsTrue, onceVars, exitVars, callVars, castVars, ptyVars
<1> QED
  BY <1>1, <1>2, <1>3 DEF Next

-----------------------------------------------------------------------------
(* The theorems.                                                            *)

\* IInv holds in every reachable state: it holds at the start and no step of
\* any goroutine, peer or of OpenCode breaks it.
THEOREM Invariance == Spec => []IInv
<1>1. Init => IInv
  BY InitType, InitControl DEF IInv, Control
<1>2. IInv /\ [Next]_vars => IInv'
  <2> SUFFICES ASSUME IInv, [Next]_vars PROVE IInv'
    OBVIOUS
  <2>1. TypeOK /\ Control /\ ReaderInv
    BY DEF IInv, Control
  <2>2. TypeOK'
    BY <2>1, TypeStep
  <2>3. Control'
    BY <2>1, ControlStep
  <2> QED
    BY <2>2, <2>3 DEF IInv, Control
<1> QED
  BY <1>1, <1>2, PTL DEF Spec

\* Every variable keeps its type (all the state of pty-bridge/main.go).
THEOREM TypeCorrect == Spec => []TypeOK
<1>1. IInv => TypeOK
  BY DEF IInv
<1> QED
  BY <1>1, Invariance, PTL

\* OpenCode is started at most once, however many /init requests and /ws
\* connections race for the Once, and nothing uses a session that is not there.
THEOREM StartedOnce == Spec => []OneSession
<1>1. IInv => OneSession
  BY DEF IInv, OnceInv
<1> QED
  BY <1>1, Invariance, PTL

\* An exit that a client or a poller is told of has happened, and the calls
\* that come after it are refused.
THEOREM ExitTold == Spec => []ExitIsTrue
<1>1. IInv => ExitIsTrue
  BY DEF IInv
<1> QED
  BY <1>1, Invariance, PTL
=============================================================================
