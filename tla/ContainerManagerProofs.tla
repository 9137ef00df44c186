----------------------- MODULE ContainerManagerProofs -----------------------
(***************************************************************************)
(* What holds of ContainerManager for every number of clients, keys,       *)
(* chunks and container stops, whether or not calls fail.                  *)
(***************************************************************************)
EXTENDS ContainerManager, TLAPS

\* A task that posts a key carries one: without it TypeOK is not inductive,
\* as a key of 0 would be typed.
KeyInv ==
  \A t \in Tasks : pc[t] \in {"postread", "post"} => key[t] \in 1 .. MaxKeys

IInv == TypeOK /\ KeyInv /\ StreamUsable

Labels == {"idle", "ensure", "ask", "start", "pty", "pty2", "dial", "read",
           "postread", "post", "answer", "done"}

-----------------------------------------------------------------------------
(* The helpers.                                                             *)

LEMMA HeadTailType ==
  ASSUME NEW S, NEW q \in Seq(S), q # << >>
  PROVE  Head(q) \in S /\ Tail(q) \in Seq(S)
OBVIOUS

LEMMA PrefixHolds ==
  ASSUME NEW S, NEW q \in Seq(S), NEW n \in 0 .. Len(q)
  PROVE  /\ SubSeq(q, 1, n) \in Seq(S)
         /\ \A i \in DOMAIN SubSeq(q, 1, n) : i \in DOMAIN q /\ SubSeq(q, 1, n)[i] = q[i]
OBVIOUS

LEMMA SocksAreTasks == Socks \subseteq Tasks
BY DEF Socks, Tasks

\* closeContainerWs leaves nothing that could be used.
LEMMA ClosedType ==
  ASSUME TypeOK, StreamUsable, CloseContainerWs
  PROVE  /\ containerWs' = NoSock /\ ready' = FALSE
         /\ sock' \in [Socks -> {"none", "open", "joined", "closing", "lost", "gone"}]
BY DEF TypeOK, StreamUsable, CloseContainerWs

\* What a task does after ensureContainerReady keeps the stream usable.
LEMMA AfterEnsureType ==
  ASSUME TypeOK, StreamUsable, KeyInv, NEW t \in Socks, AfterEnsure(t)
  PROVE  /\ pc' \in [Tasks -> Labels]
         /\ \A u \in Tasks : pc'[u] \in {"postread", "post"} => pc[u] = pc'[u]
         /\ containerWs' \in Socks \cup {NoSock} /\ ready' \in BOOLEAN
         /\ sock' \in [Socks -> {"none", "open", "joined", "closing", "lost", "gone"}]
         /\ ready' => containerWs' # NoSock
         /\ containerWs' # NoSock => sock'[containerWs'] \in {"open", "joined", "lost"}
<1>1. pc \in [Tasks -> Labels] /\ t \in Tasks
  BY SocksAreTasks DEF TypeOK, Labels
<1>2. CASE UNCHANGED wsVars /\ (Goto(t, "pty2") \/ Goto(t, "read"))
  BY <1>1, <1>2 DEF wsVars, Goto, Labels, TypeOK, StreamUsable
<1>3. CASE BeginDial(t)
  BY <1>1, <1>3, ClosedType DEF BeginDial, Goto, Labels
<1> QED
  BY <1>2, <1>3 DEF AfterEnsure

LEMMA AfterDialType ==
  ASSUME TypeOK, NEW t \in Socks, AfterDial(t)
  PROVE  /\ pc' \in [Tasks -> Labels]
         /\ \A u \in Tasks : pc'[u] \in {"postread", "post"} => pc[u] = pc'[u]
         /\ told' \in [Clients -> {"none", "Ready!", "error"}]
<1>1. pc \in [Tasks -> Labels] /\ t \in Tasks
  BY SocksAreTasks DEF TypeOK, Labels
<1>2. Goto(t, "done") \/ Goto(t, "read")
  BY DEF AfterDial
<1>3. told' \in [Clients -> {"none", "Ready!", "error"}]
  BY DEF AfterDial, TypeOK
<1> QED
  BY <1>1, <1>2, <1>3 DEF Goto, Labels

LEMMA PostKeyType ==
  ASSUME TypeOK, KeyInv, NEW c \in Clients, NEW l \in Labels, PostKey(c, l),
         pressed + 1 \in 1 .. MaxKeys
  PROVE  /\ pc' \in [Tasks -> Labels] /\ key' \in [Tasks -> 0 .. MaxKeys]
         /\ KeyInv'
<1>1. /\ <<c, "key">> \in Tasks
      /\ pc \in [Tasks -> Labels] /\ key \in [Tasks -> 0 .. MaxKeys]
  BY DEF Tasks, TypeOK, Labels
<1>2. /\ pc' = [pc EXCEPT ![<<c, "key">>] = l]
      /\ key' = [key EXCEPT ![<<c, "key">>] = pressed + 1]
  BY DEF PostKey, Goto
<1>3. pressed + 1 \in 0 .. MaxKeys
  OBVIOUS
<1>4. pc' \in [Tasks -> Labels] /\ key' \in [Tasks -> 0 .. MaxKeys]
  BY <1>1, <1>2, <1>3
<1>5. \A t \in Tasks : IF t = <<c, "key">> THEN key'[t] = pressed + 1
                       ELSE pc'[t] = pc[t] /\ key'[t] = key[t]
  BY <1>1, <1>2
<1>6. KeyInv'
  BY <1>5 DEF KeyInv
<1> QED
  BY <1>4, <1>6

-----------------------------------------------------------------------------
(* The steps.                                                               *)

LEMMA InitIInv == Init => IInv
<1> SUFFICES ASSUME Init PROVE IInv
  OBVIOUS
<1>1. TypeOK
  <2>1. /\ held \in [Tasks -> Seq(Chunks)] /\ shown \in [Clients -> Seq(Chunks)]
        /\ down \in [Socks -> Seq(Chunks)] /\ up \in [Socks -> Seq(0 .. MaxKeys)]
        /\ buffer \in Seq(Chunks) /\ typed \in Seq(1 .. MaxKeys)
    BY DEF Init
  <2>2. /\ key \in [Tasks -> 0 .. MaxKeys] /\ pressed \in 0 .. MaxKeys
        /\ stops \in 0 .. MaxStops /\ printed \in 0 .. MaxPrint
    BY ContainerManagerAssumption DEF Init
  <2> QED
    BY <2>1, <2>2 DEF Init, TypeOK
<1> QED
  BY <1>1 DEF Init, IInv, KeyInv, StreamUsable

LEMMA ClientStep ==
  ASSUME IInv, NEW c \in Clients, ClientEvent(c)
  PROVE  IInv'
<1> USE ContainerManagerAssumption DEF IInv, callVars, wireVars, bridgeVars, wsVars
<1>0. /\ \A k \in {"fetch", "init", "ping", "key"} : <<c, k>> \in Tasks
      /\ pressed < MaxKeys => pressed + 1 \in 1 .. MaxKeys
  BY DEF Tasks, TypeOK
<1>1. CASE Fetch(c)
  BY <1>0, <1>1 DEF Fetch, Goto, TypeOK, KeyInv, StreamUsable
<1>2. CASE InitMessage(c)
  BY <1>0, <1>2 DEF InitMessage, Goto, TypeOK, KeyInv, StreamUsable
<1>3. CASE PingMessage(c)
  BY <1>0, <1>3 DEF PingMessage, Goto, TypeOK, KeyInv, StreamUsable
<1>4. CASE ClientCloses(c)
  <2>1. CASE CloseContainerWs
    BY <1>4, <2>1, ClosedType DEF ClientCloses, TypeOK, KeyInv, StreamUsable
  <2>2. CASE UNCHANGED wsVars
    BY <1>4, <2>2 DEF ClientCloses, TypeOK, KeyInv, StreamUsable
  <2> QED
    BY <1>4, <2>1, <2>2 DEF ClientCloses
<1>5. CASE KeyToStream(c)
  <2>1. up' \in [Socks -> Seq(0 .. MaxKeys)] /\ pressed' \in 0 .. MaxKeys
    BY <1>0, <1>5 DEF KeyToStream, NewKey, TypeOK
  <2> QED
    BY <1>5, <2>1 DEF KeyToStream, TypeOK, KeyInv, StreamUsable
<1>6. CASE KeyStreamFails(c)
  <2>1. PostKey(c, "post") /\ pressed + 1 \in 1 .. MaxKeys /\ pressed' = pressed + 1
    BY <1>0, <1>6 DEF KeyStreamFails, NewKey
  <2>2. pc' \in [Tasks -> Labels] /\ key' \in [Tasks -> 0 .. MaxKeys] /\ KeyInv'
    BY <2>1, PostKeyType DEF Labels
  <2> QED
    <3>1. pressed' \in 0 .. MaxKeys
      BY <2>1
    <3>2. StreamUsable'
      BY <1>6 DEF KeyStreamFails, StreamUsable
    <3>3. TypeOK'
      BY <1>6, <2>2, <3>1 DEF KeyStreamFails, TypeOK, Labels
    <3> QED
      BY <2>2, <3>2, <3>3
<1>7. CASE KeyToHttp(c)
  <2>1. PostKey(c, "postread") /\ pressed + 1 \in 1 .. MaxKeys /\ pressed' = pressed + 1
    BY <1>0, <1>7 DEF KeyToHttp, NewKey
  <2>2. pc' \in [Tasks -> Labels] /\ key' \in [Tasks -> 0 .. MaxKeys] /\ KeyInv'
    BY <2>1, PostKeyType DEF Labels
  <2>3. pressed' \in 0 .. MaxKeys
    BY <2>1
  <2> QED
    BY <1>7, <2>2, <2>3 DEF KeyToHttp, TypeOK, Labels, StreamUsable
<1> QED
  BY <1>1, <1>2, <1>3, <1>4, <1>5, <1>6, <1>7 DEF ClientEvent

LEMMA DialStep ==
  ASSUME IInv, NEW t \in Socks, Dials(t)
  PROVE  IInv'
<1> USE DEF IInv, callVars, wireVars, bridgeVars, wsVars
<1>0. t \in Tasks /\ t[1] \in Clients
  BY DEF Tasks, Socks
<1>1. CASE Ensure(t)
  BY <1>0, <1>1 DEF Ensure, Goto, TypeOK, KeyInv, StreamUsable
<1>2. CASE AskAnswered(t) \/ (pc[t] = "pty" /\ (PtyAnswered(t) \/ PtyFails(t)))
  BY <1>2, AfterEnsureType DEF AskAnswered, PtyAnswered, MeetsPty, PtyFails, TypeOK,
     KeyInv, StreamUsable, Labels
<1>3. CASE pc[t] = "pty2" /\ (PtyAnswered(t) \/ PtyFails(t))
  <2>1. BeginDial(t)
    BY <1>3 DEF PtyAnswered, PtyFails
  <2> QED
    BY <1>0, <1>3, <2>1, ClosedType DEF PtyAnswered, MeetsPty, PtyFails, BeginDial,
       Goto, TypeOK, KeyInv, StreamUsable
<1>4. CASE AskFails(t)
  BY <1>0, <1>4 DEF AskFails, Goto, TypeOK, KeyInv, StreamUsable
<1>9. CASE Started(t)
  BY <1>0, <1>9 DEF Started, Goto, TypeOK, KeyInv, StreamUsable
<1>5. CASE StartFails(t)
  BY <1>0, <1>5 DEF StartFails, Goto, TypeOK, KeyInv, StreamUsable
<1>6. CASE DialAnswered(t)
  <2>1. /\ sock' = [sock EXCEPT ![t] = "open"] /\ sock'[t] = "open"
        /\ up' \in [Socks -> Seq(0 .. MaxKeys)]
    BY <1>6, ContainerManagerAssumption DEF DialAnswered, TypeOK
  <2> QED
    <3>1. containerWs' = t /\ sock'[containerWs'] = "open"
      BY <1>6, <2>1 DEF DialAnswered
    <3>2. sock' \in [Socks -> {"none", "open", "joined", "closing", "lost", "gone"}]
      BY <2>1 DEF TypeOK
    <3>3. /\ KeyInv' /\ pc' \in [Tasks -> Labels]
          /\ told' \in [Clients -> {"none", "Ready!", "error"}]
      BY <1>6, AfterDialType DEF DialAnswered, KeyInv
    <3>4. StreamUsable'
      BY <1>6, <3>1, ContainerManagerAssumption DEF DialAnswered, StreamUsable
    <3> QED
      BY <1>6, <2>1, <3>1, <3>2, <3>3, <3>4 DEF DialAnswered, TypeOK, Labels
<1>7. CASE DialRefused(t)
  BY <1>7, AfterDialType DEF DialRefused, TypeOK, KeyInv, StreamUsable, Labels
<1>8. CASE DialThrows(t)
  BY <1>8, AfterDialType DEF DialThrows, TypeOK, KeyInv, StreamUsable, Labels
<1> HIDE DEF IInv
<1> QED
  <2>1. PtyAnswered(t) \/ PtyFails(t) => pc[t] = "pty" \/ pc[t] = "pty2"
    BY DEF PtyAnswered, PtyFails
  <2>2. CASE PtyAnswered(t) \/ PtyFails(t)
    BY <1>2, <1>3, <2>1, <2>2
  <2>3. CASE AskAnswered(t)
    BY <1>2, <2>3
  <2>4. CASE Ensure(t) \/ AskFails(t) \/ Started(t) \/ StartFails(t)
    BY <1>1, <1>4, <1>5, <1>9, <2>4
  <2>5. CASE DialAnswered(t) \/ DialRefused(t) \/ DialThrows(t)
    BY <1>6, <1>7, <1>8, <2>5
  <2> QED
    BY <2>2, <2>3, <2>4, <2>5 DEF Dials

LEMMA CallStep ==
  ASSUME IInv, NEW t \in Tasks, Calls(t)
  PROVE  IInv'
<1> USE DEF IInv, callVars, wireVars, bridgeVars, wsVars
<1>1. CASE HttpHandled(t)
  <2>1. typed' \in Seq(1 .. MaxKeys)
    <3>1. CASE pc[t] = "read" \/ pty # "session"
      BY <1>1, <3>1 DEF HttpHandled, TypeOK
    <3>2. CASE pc[t] \in {"postread", "post"} /\ pty = "session"
      <4>1. key[t] \in 1 .. MaxKeys /\ typed' = Append(typed, key[t])
        BY <1>1, <3>2 DEF HttpHandled, KeyInv
      <4> QED
        BY <4>1 DEF TypeOK
    <3> QED
      BY <1>1, <3>1, <3>2 DEF HttpHandled, TypeOK
  <2>2. held' \in [Tasks -> Seq(Chunks)] /\ buffer' \in Seq(Chunks)
    BY <1>1 DEF HttpHandled, TypeOK
  <2> QED
    BY <1>1, <2>1, <2>2 DEF HttpHandled, Goto, TypeOK, KeyInv, StreamUsable
<1>2. CASE HttpAnswered(t)
  <2>1. shown' \in [Clients -> Seq(Chunks)]
    BY <1>2 DEF HttpAnswered, Show, TypeOK
  <2>2. held' \in [Tasks -> Seq(Chunks)]
    BY <1>2 DEF HttpAnswered, TypeOK
  <2> QED
    BY <1>2, <2>1, <2>2 DEF HttpAnswered, Over, Goto, TypeOK, KeyInv, StreamUsable
<1>3. CASE HttpFails(t)
  <2>1. held' \in [Tasks -> Seq(Chunks)]
    BY <1>3 DEF HttpFails, TypeOK
  <2> QED
    BY <1>3, <2>1 DEF HttpFails, Over, Goto, TypeOK, KeyInv, StreamUsable
<1> QED
  BY <1>1, <1>2, <1>3 DEF Calls

LEMMA SockStep ==
  ASSUME IInv, NEW s \in Socks, SockEvent(s) \/ SockBreaks(s)
  PROVE  IInv'
<1> USE DEF IInv, callVars, wireVars, bridgeVars, wsVars
<1>1. CASE SockJoins(s)
  <2>1. up' \in [Socks -> Seq(0 .. MaxKeys)]
    BY <1>1 DEF SockJoins, TypeOK
  <2> QED
    BY <1>1, <2>1 DEF SockJoins, MeetsPty, TypeOK, KeyInv, StreamUsable
<1>2. CASE SockTypes(s)
  <2>1. up' \in [Socks -> Seq(0 .. MaxKeys)] /\ typed' \in Seq(1 .. MaxKeys)
    <3>1. up[s] \in Seq(0 .. MaxKeys) /\ up[s] # << >>
      BY <1>2 DEF SockTypes, TypeOK
    <3>2. Head(up[s]) \in 1 .. MaxKeys /\ Tail(up[s]) \in Seq(0 .. MaxKeys)
      <4>1. Head(up[s]) \in 0 .. MaxKeys /\ Tail(up[s]) \in Seq(0 .. MaxKeys)
        BY <3>1, HeadTailType
      <4> QED
        BY <1>2, <4>1, ContainerManagerAssumption DEF SockTypes
    <3> QED
      BY <1>2, <3>2 DEF SockTypes, TypeOK
  <2> QED
    BY <1>2, <2>1 DEF SockTypes, TypeOK, KeyInv, StreamUsable
<1>3. CASE SockMessage(s)
  <2>1. down[s] \in Seq(Chunks) /\ down[s] # << >>
    BY <1>3 DEF SockMessage, TypeOK
  <2>2. <<Head(down[s])>> \in Seq(Chunks) /\ Tail(down[s]) \in Seq(Chunks)
    BY <2>1
  <2>3. shown' \in [Clients -> Seq(Chunks)]
    BY <1>3, <2>2 DEF SockMessage, Show, TypeOK
  <2>4. down' \in [Socks -> Seq(Chunks)]
    BY <1>3, <2>2 DEF SockMessage, TypeOK
  <2> QED
    BY <1>3, <2>3, <2>4 DEF SockMessage, TypeOK, KeyInv, StreamUsable
<1>4. CASE SockClose(s)
  <2>1. down' \in [Socks -> Seq(Chunks)]
    BY <1>4 DEF SockClose, TypeOK
  <2> QED
    BY <1>4, <2>1 DEF SockClose, TypeOK, KeyInv, StreamUsable
<1>5. CASE SockRefused(s)
  <2>1. up' \in [Socks -> Seq(0 .. MaxKeys)]
    BY <1>5 DEF SockRefused, TypeOK
  <2> QED
    BY <1>5, <2>1 DEF SockRefused, MeetsPty, TypeOK, KeyInv, StreamUsable
<1>6. CASE SockBreaks(s)
  <2>1. up' \in [Socks -> Seq(0 .. MaxKeys)]
    <3>1. up[s] \in Seq(0 .. MaxKeys)
      BY DEF TypeOK
    <3>2. PICK n \in 0 .. Len(up[s]) : up' = [up EXCEPT ![s] = SubSeq(up[s], 1, n)]
      BY <1>6 DEF SockBreaks
    <3>3. SubSeq(up[s], 1, n) \in Seq(0 .. MaxKeys)
      BY <3>1, <3>2, PrefixHolds
    <3> QED
      BY <3>2, <3>3 DEF TypeOK
  <2>2. down' \in [Socks -> Seq(Chunks)]
    <3>1. down[s] \in Seq(Chunks) /\ Len(down[s]) \in Nat
      BY DEF TypeOK
    <3>2. PICK n \in 0 .. (IF sock[s] = "closing" THEN 0 ELSE Len(down[s])) :
            down' = [down EXCEPT ![s] = SubSeq(down[s], 1, n)]
      BY <1>6 DEF SockBreaks
    <3>3. n \in 0 .. Len(down[s])
      BY <3>1, <3>2
    <3>4. SubSeq(down[s], 1, n) \in Seq(Chunks)
      BY <3>1, <3>3, PrefixHolds
    <3> QED
      BY <3>2, <3>4 DEF TypeOK
  <2> QED
    BY <1>6, <2>1, <2>2 DEF SockBreaks, TypeOK, KeyInv, StreamUsable
<1> QED
  BY <1>1, <1>2, <1>3, <1>4, <1>5, <1>6 DEF SockEvent

LEMMA ContainerStep ==
  ASSUME IInv, Prints \/ Stops \/ OnStop
  PROVE  IInv'
<1> USE DEF IInv, callVars, wireVars, bridgeVars, wsVars
<1>1. CASE Prints
  <2>1. printed' \in 0 .. MaxPrint /\ printed + 1 \in Chunks
    BY <1>1, ContainerManagerAssumption DEF Prints, TypeOK, Chunks
  <2>2. buffer' \in Seq(Chunks) /\ down' \in [Socks -> Seq(Chunks)]
    BY <1>1, <2>1 DEF Prints, TypeOK
  <2> QED
    BY <1>1, <2>1, <2>2 DEF Prints, TypeOK, KeyInv, StreamUsable
<1>2. CASE Stops
  <2>1. /\ stops' \in 0 .. MaxStops
        /\ buffer' \in Seq(Chunks) /\ up' \in [Socks -> Seq(0 .. MaxKeys)]
    BY <1>2, ContainerManagerAssumption DEF Stops, TypeOK
  <2> QED
    BY <1>2, <2>1 DEF Stops, TypeOK, KeyInv, StreamUsable
<1>3. CASE OnStop
  BY <1>3, ClosedType DEF OnStop, TypeOK, KeyInv, StreamUsable
<1> QED
  BY <1>1, <1>2, <1>3

-----------------------------------------------------------------------------
(* The invariants.                                                          *)

THEOREM Invariance == Spec => []IInv
<1>1. IInv /\ [Next]_vars => IInv'
  <2> SUFFICES ASSUME IInv, [Next]_vars PROVE IInv'
    OBVIOUS
  <2>1. CASE UNCHANGED vars
    BY <2>1 DEF vars, wsVars, callVars, wireVars, bridgeVars, IInv, TypeOK,
       KeyInv, StreamUsable
  <2> QED
    BY <2>1, ClientStep, DialStep, CallStep, SockStep, ContainerStep DEF Next
<1> QED
  BY <1>1, InitIInv, PTL DEF Spec

\* Every variable of the Durable Object keeps its type.
THEOREM TypeCorrect == Spec => []TypeOK
<1>1. IInv => TypeOK
  BY DEF IInv
<1> QED
  BY <1>1, Invariance, PTL

\* Whenever the stream is ready, this.containerWs is a socket that this object
\* has not closed: no handler sends keys into a closed one.
THEOREM StreamIsUsable == Spec => []StreamUsable
<1>1. IInv => StreamUsable
  BY DEF IInv
<1> QED
  BY <1>1, Invariance, PTL
-----------------------------------------------------------------------------
(* A key is typed once. It is in at most one place: on its way over a       *)
(* socket, with a task that has still to post it, or typed.                 *)

Pending(t) == pc[t] \in {"postread", "post"}

\* Key k is the i-th thing on its way over socket s.
OnWay(s, i, k) == i \in DOMAIN up[s] /\ up[s][i] = k /\ k # 0

Typed(k) == \E i \in DOMAIN typed : typed[i] = k

TypedPressed == \A k \in 1 .. MaxKeys : Typed(k) => k <= pressed

PostsApart ==
  \A t \in Tasks : Pending(t) =>
    /\ key[t] <= pressed
    /\ ~Typed(key[t])
    /\ \A u \in Tasks : Pending(u) /\ key[u] = key[t] => u = t

WaysApart ==
  \A s \in Socks, i \in Nat, k \in 1 .. MaxKeys : OnWay(s, i, k) =>
    /\ k <= pressed
    /\ ~Typed(k)
    /\ \A t \in Tasks : Pending(t) => key[t] # k
    /\ \A r \in Socks, j \in Nat : OnWay(r, j, k) => r = s /\ j = i

KeysApart == TypedPressed /\ PostsApart /\ WaysApart /\ KeysOnce

\* What a sequence holds after a step.
LEMMA HeadHolds ==
  ASSUME NEW S, NEW q \in Seq(S), q # << >>
  PROVE  1 \in DOMAIN q /\ q[1] = Head(q) /\ Head(q) \in S
OBVIOUS

LEMMA TailHolds ==
  ASSUME NEW S, NEW q \in Seq(S), q # << >>, NEW i \in DOMAIN Tail(q)
  PROVE  i \in Nat /\ i + 1 \in DOMAIN q /\ Tail(q)[i] = q[i + 1]
OBVIOUS

LEMMA AppendHolds ==
  ASSUME NEW S, NEW q \in Seq(S), NEW x \in S, NEW i \in DOMAIN Append(q, x)
  PROVE  \/ i \in DOMAIN q /\ Append(q, x)[i] = q[i]
         \/ i = Len(q) + 1 /\ Append(q, x)[i] = x
OBVIOUS

\* Typing a key that is not there yet adds it and leaves every key once.
LEMMA AppendedOnce ==
  ASSUME NEW S, NEW q \in Seq(S), NEW x \in S,
         \A i, j \in DOMAIN q : q[i] = q[j] => i = j,
         ~\E i \in DOMAIN q : q[i] = x
  PROVE  /\ \A i, j \in DOMAIN Append(q, x) :
              Append(q, x)[i] = Append(q, x)[j] => i = j
         /\ \A k : (\E i \in DOMAIN Append(q, x) : Append(q, x)[i] = k)
                     <=> (\E i \in DOMAIN q : q[i] = k) \/ k = x
<1>1. /\ Len(q) + 1 \in DOMAIN Append(q, x) /\ Append(q, x)[Len(q) + 1] = x
      /\ \A i \in DOMAIN q : i \in DOMAIN Append(q, x) /\ Append(q, x)[i] = q[i]
  OBVIOUS
<1> QED
  BY <1>1, AppendHolds

\* A step that types nothing, presses nothing and posts nothing new keeps keys
\* apart, if each key on its way was on its way before: at its old place, or
\* one further back on the socket that was read.
LEMMA KeysFrame ==
  ASSUME TypeOK, KeysApart, UNCHANGED <<typed, pressed>>,
         \A t \in Tasks : Pending(t)' => Pending(t) /\ key'[t] = key[t],
         NEW d \in [Socks -> 0 .. 1],
         \A s \in Socks, i \in Nat, k \in 1 .. MaxKeys :
            OnWay(s, i, k)' => OnWay(s, i + d[s], k)
  PROVE  KeysApart'
<1>1. \A k : Typed(k)' <=> Typed(k)
  BY DEF Typed
<1>2. KeysOnce'
  BY DEF KeysApart, KeysOnce
<1>3. \A t \in Tasks : Pending(t)' =>
        /\ key'[t] <= pressed'
        /\ ~Typed(key[t])'
        /\ \A u \in Tasks : Pending(u)' /\ key'[u] = key'[t] => u = t
  BY <1>1 DEF KeysApart, PostsApart
<1>4. ASSUME NEW s \in Socks, NEW i \in Nat, NEW k \in 1 .. MaxKeys, OnWay(s, i, k)'
      PROVE  /\ k <= pressed'
             /\ ~Typed(k)'
             /\ \A t \in Tasks : Pending(t)' => key'[t] # k
             /\ \A r \in Socks, j \in Nat : OnWay(r, j, k)' => r = s /\ j = i
  <2>1. OnWay(s, i + d[s], k) /\ i + d[s] \in Nat
    BY <1>4
  <2>2. ASSUME NEW r \in Socks, NEW j \in Nat, OnWay(r, j, k)'
        PROVE  r = s /\ j = i
    <3>1. OnWay(r, j + d[r], k) /\ j + d[r] \in Nat
      BY <2>2
    <3>2. r = s /\ j + d[r] = i + d[s]
      BY <2>1, <3>1 DEF KeysApart, WaysApart
    <3> QED
      BY <3>2
  <2> QED
    BY <1>1, <2>1, <2>2 DEF KeysApart, WaysApart
<1> QED
  BY <1>1, <1>2, <1>3, <1>4 DEF KeysApart, TypedPressed, PostsApart, WaysApart

\* The same when every socket keeps what is on its way, or loses all of it.
LEMMA KeysStay ==
  ASSUME TypeOK, KeysApart, UNCHANGED <<typed, pressed>>,
         \A t \in Tasks : Pending(t)' => Pending(t) /\ key'[t] = key[t],
         \A s \in Socks : up'[s] \in {up[s], << >>, << 0 >>}
  PROVE  KeysApart'
<1> DEFINE d == [s \in Socks |-> 0]
<1>1. d \in [Socks -> 0 .. 1]
  OBVIOUS
<1>2. ASSUME NEW s \in Socks, NEW i \in Nat, NEW k \in 1 .. MaxKeys, OnWay(s, i, k)'
      PROVE  OnWay(s, i + d[s], k)
  <2>1. i \in DOMAIN up'[s] /\ up'[s][i] = k /\ k # 0
    BY <1>2 DEF OnWay
  <2>2. up'[s] = up[s]
    BY <2>1
  <2> QED
    BY <2>1, <2>2 DEF OnWay
<1> HIDE DEF d
<1> QED
  BY <1>1, <1>2, KeysFrame

\* The same when the bridge reads from a socket.
LEMMA KeysRead ==
  ASSUME TypeOK, NEW s \in Socks, up[s] # << >>, up' = [up EXCEPT ![s] = Tail(@)],
         NEW r \in Socks, NEW i \in Nat, NEW k \in 1 .. MaxKeys, OnWay(r, i, k)'
  PROVE  OnWay(r, i + (IF r = s THEN 1 ELSE 0), k)
<1>1. up[s] \in Seq(0 .. MaxKeys) /\ up[r] \in Seq(0 .. MaxKeys)
  BY DEF TypeOK
<1>2. i \in DOMAIN up'[r] /\ up'[r][i] = k /\ k # 0
  BY DEF OnWay
<1>3. CASE r = s
  <2>1. up'[r] = Tail(up[s])
    BY <1>3 DEF TypeOK
  <2>2. i + 1 \in DOMAIN up[s] /\ Tail(up[s])[i] = up[s][i + 1]
    BY <1>1, <1>2, <2>1, TailHolds
  <2> QED
    BY <1>2, <1>3, <2>1, <2>2 DEF OnWay
<1>4. CASE r # s
  <2>1. up'[r] = up[r]
    BY <1>4 DEF TypeOK
  <2> QED
    BY <1>2, <1>4, <2>1 DEF OnWay
<1> QED
  BY <1>3, <1>4

\* The key that is typed next is nowhere yet.
LEMMA NextIsNew ==
  ASSUME TypeOK, KeysApart, pressed < MaxKeys
  PROVE  /\ pressed + 1 \in 1 .. MaxKeys
         /\ ~Typed(pressed + 1)
         /\ \A t \in Tasks : Pending(t) => key[t] # pressed + 1
         /\ \A s \in Socks, i \in Nat : ~OnWay(s, i, pressed + 1)
<1>1. pressed \in Nat /\ pressed + 1 \in 1 .. MaxKeys /\ ~(pressed + 1 <= pressed)
  BY ContainerManagerAssumption DEF TypeOK
<1>2. \A t \in Tasks : Pending(t) => key[t] # pressed + 1
  BY <1>1 DEF KeysApart, PostsApart
<1> QED
  BY <1>1, <1>2 DEF KeysApart, TypedPressed, WaysApart

LEMMA KeySent ==
  ASSUME IInv, KeysApart, NEW c \in Clients, KeyToStream(c)
  PROVE  KeysApart'
<1> DEFINE n == pressed + 1
<1>1. n \in 1 .. MaxKeys /\ pressed \in Nat /\ pressed' = n
  BY NextIsNew DEF KeyToStream, NewKey, IInv, TypeOK
<1>2. UNCHANGED <<typed, pc, key>>
  BY DEF KeyToStream, bridgeVars, callVars
<1>3. TypedPressed' /\ PostsApart' /\ KeysOnce'
  BY <1>1, <1>2 DEF KeysApart, TypedPressed, PostsApart, KeysOnce, Typed, Pending, IInv, TypeOK
<1>4. ASSUME NEW s \in Socks, NEW i \in Nat, NEW k \in 1 .. MaxKeys, OnWay(s, i, k)'
      PROVE  OnWay(s, i, k) \/ (k = n /\ s = containerWs /\ i = Len(up[containerWs]) + 1)
  <2>1. i \in DOMAIN up'[s] /\ up'[s][i] = k /\ k # 0
    BY <1>4 DEF OnWay
  <2>2. up[s] \in Seq(0 .. MaxKeys) /\ n \in 0 .. MaxKeys
    BY <1>1 DEF IInv, TypeOK
  <2>3. CASE up'[s] = up[s]
    BY <2>1, <2>3 DEF OnWay
  <2>4. CASE s = containerWs /\ up'[s] = Append(up[s], n)
    BY <2>1, <2>2, <2>4, AppendHolds DEF OnWay
  <2> QED
    BY <2>3, <2>4 DEF KeyToStream, IInv, TypeOK
<1>5. \A s \in Socks, i \in Nat : ~OnWay(s, i, n)
  BY NextIsNew DEF KeyToStream, NewKey, IInv
<1>6. ASSUME NEW s \in Socks, NEW i \in Nat, NEW k \in 1 .. MaxKeys, OnWay(s, i, k)'
      PROVE  /\ k <= pressed'
             /\ ~Typed(k)'
             /\ \A t \in Tasks : Pending(t)' => key'[t] # k
             /\ \A r \in Socks, j \in Nat : OnWay(r, j, k)' => r = s /\ j = i
  <2>1. \A r \in Socks, j \in Nat : OnWay(r, j, k)' => r = s /\ j = i
    BY <1>4, <1>5, <1>6 DEF KeysApart, WaysApart
  <2>2. CASE OnWay(s, i, k)
    BY <1>1, <1>2, <2>1, <2>2 DEF KeysApart, WaysApart, Typed, Pending
  <2>3. CASE k = n
    <3>1. ~Typed(n) /\ \A t \in Tasks : Pending(t) => key[t] # n
      BY NextIsNew DEF KeyToStream, NewKey, IInv
    <3> QED
      BY <1>1, <1>2, <2>1, <2>3, <3>1 DEF Typed, Pending
  <2> QED
    BY <1>4, <1>6, <2>2, <2>3
<1> QED
  BY <1>3, <1>6 DEF KeysApart, WaysApart

LEMMA KeyPosted ==
  ASSUME IInv, KeysApart, NEW c \in Clients, KeyStreamFails(c) \/ KeyToHttp(c)
  PROVE  KeysApart'
<1> DEFINE n == pressed + 1
           p == <<c, "key">>
<1>1. /\ n \in 1 .. MaxKeys /\ pressed \in Nat /\ pressed' = n
      /\ ~Typed(n)
      /\ \A t \in Tasks : Pending(t) => key[t] # n
      /\ \A s \in Socks, i \in Nat : ~OnWay(s, i, n)
  <2>1. pressed < MaxKeys /\ pressed' = n
    BY DEF KeyStreamFails, KeyToHttp, NewKey
  <2>2. TypeOK /\ pressed \in Nat
    BY DEF IInv, TypeOK
  <2> HIDE DEF n
  <2> QED
    BY <2>1, <2>2, NextIsNew DEF n
<1>2. UNCHANGED <<typed, up>> /\ p \in Tasks
  BY DEF KeyStreamFails, KeyToHttp, bridgeVars, wireVars, Tasks
<1>3. key'[p] = n /\ \A t \in Tasks : t # p => key'[t] = key[t] /\ pc'[t] = pc[t]
  BY <1>2 DEF KeyStreamFails, KeyToHttp, PostKey, Goto, IInv, TypeOK
<1>4. TypedPressed' /\ KeysOnce'
  BY <1>1, <1>2 DEF KeysApart, TypedPressed, KeysOnce, Typed
<1>5. ASSUME NEW t \in Tasks, Pending(t)'
      PROVE  /\ key'[t] <= pressed'
             /\ ~Typed(key[t])'
             /\ \A u \in Tasks : Pending(u)' /\ key'[u] = key'[t] => u = t
  <2>1. CASE t = p
    BY <1>1, <1>2, <1>3, <2>1 DEF Typed, Pending
  <2>2. CASE t # p
    <3>1. Pending(t) /\ key'[t] = key[t] /\ key[t] \in Nat
      BY <1>3, <1>5, <2>2 DEF Pending, IInv, TypeOK
    <3>2. \A u \in Tasks : Pending(u)' /\ key'[u] = key'[t] => u = t
      BY <1>1, <1>3, <3>1 DEF KeysApart, PostsApart, Pending
    <3> QED
      BY <1>1, <1>2, <3>1, <3>2 DEF KeysApart, PostsApart, Typed
  <2> QED
    BY <2>1, <2>2
<1>6. ASSUME NEW s \in Socks, NEW i \in Nat, NEW k \in 1 .. MaxKeys, OnWay(s, i, k)'
      PROVE  /\ k <= pressed'
             /\ ~Typed(k)'
             /\ \A t \in Tasks : Pending(t)' => key'[t] # k
             /\ \A r \in Socks, j \in Nat : OnWay(r, j, k)' => r = s /\ j = i
  <2>1. OnWay(s, i, k) /\ k # n
    BY <1>1, <1>2, <1>6 DEF OnWay
  <2> QED
    BY <1>1, <1>2, <1>3, <2>1 DEF KeysApart, WaysApart, Typed, Pending, OnWay
<1> QED
  BY <1>4, <1>5, <1>6 DEF KeysApart, PostsApart, WaysApart

\* The bridge handles a POST: the key leaves its task and is typed, or there is
\* no session and it is nowhere.
LEMMA KeyHandled ==
  ASSUME IInv, KeysApart, NEW t \in Tasks, HttpHandled(t)
  PROVE  KeysApart'
<1>1. UNCHANGED <<up, key, pressed>>
  BY DEF HttpHandled, wireVars
<1>2. \A u \in Tasks : Pending(u)' => Pending(u) /\ u # t /\ key'[u] = key[u]
  BY <1>1 DEF HttpHandled, Goto, Pending, IInv, TypeOK
<1>3. CASE typed' = typed
  BY <1>1, <1>2, <1>3, KeysStay DEF IInv
<1>4. CASE Pending(t) /\ typed' = Append(typed, key[t])
  <2>1. /\ key[t] \in 1 .. MaxKeys /\ typed \in Seq(1 .. MaxKeys)
        /\ key[t] <= pressed /\ ~Typed(key[t])
    BY <1>4 DEF IInv, KeyInv, TypeOK, KeysApart, PostsApart, Pending
  <2>2. KeysOnce' /\ \A k \in 1 .. MaxKeys : Typed(k)' <=> Typed(k) \/ k = key[t]
    BY <1>4, <2>1, AppendedOnce DEF KeysApart, KeysOnce, Typed
  <2>3. TypedPressed' /\ PostsApart'
    BY <1>1, <1>2, <1>4, <2>1, <2>2 DEF KeysApart, TypedPressed, PostsApart, IInv, KeyInv, Pending
  <2>4. ASSUME NEW s \in Socks, NEW i \in Nat, NEW k \in 1 .. MaxKeys, OnWay(s, i, k)'
        PROVE  /\ k <= pressed'
               /\ ~Typed(k)'
               /\ \A u \in Tasks : Pending(u)' => key'[u] # k
               /\ \A r \in Socks, j \in Nat : OnWay(r, j, k)' => r = s /\ j = i
    <3>1. OnWay(s, i, k) /\ k # key[t]
      BY <1>1, <1>4, <2>4 DEF KeysApart, WaysApart, OnWay
    <3> QED
      BY <1>1, <1>2, <2>2, <3>1 DEF KeysApart, WaysApart, OnWay
  <2> QED
    BY <2>2, <2>3, <2>4 DEF KeysApart, WaysApart
<1> QED
  BY <1>3, <1>4 DEF HttpHandled, Pending

\* The bridge types the key at the head of a socket.
LEMMA KeyRead ==
  ASSUME IInv, KeysApart, NEW s \in Socks, SockTypes(s)
  PROVE  KeysApart'
<1> DEFINE n == Head(up[s])
           Shift(r) == IF r = s THEN 1 ELSE 0
<1>1. UNCHANGED <<pc, key, pressed>> /\ typed' = Append(typed, n)
  BY DEF SockTypes, callVars
<1>2. /\ n \in 1 .. MaxKeys /\ typed \in Seq(1 .. MaxKeys)
      /\ OnWay(s, 1, n)
  <2>1. up[s] \in Seq(0 .. MaxKeys) /\ up[s] # << >> /\ n # 0
    BY DEF SockTypes, IInv, TypeOK
  <2>2. n \in 0 .. MaxKeys /\ 1 \in DOMAIN up[s] /\ up[s][1] = n
    BY <2>1, HeadHolds
  <2> QED
    BY <2>1, <2>2, ContainerManagerAssumption DEF OnWay, IInv, TypeOK
<1>3. n <= pressed /\ ~Typed(n)
  BY <1>2 DEF KeysApart, WaysApart
<1>4. KeysOnce' /\ \A k \in 1 .. MaxKeys : Typed(k)' <=> Typed(k) \/ k = n
  BY <1>1, <1>2, <1>3, AppendedOnce DEF KeysApart, KeysOnce, Typed
<1>5. TypedPressed'
  BY <1>1, <1>3, <1>4 DEF KeysApart, TypedPressed
<1>6. PostsApart'
  BY <1>1, <1>2, <1>4 DEF KeysApart, PostsApart, WaysApart, IInv, KeyInv, Pending
<1>7. ASSUME NEW r \in Socks, NEW i \in Nat, NEW k \in 1 .. MaxKeys, OnWay(r, i, k)'
      PROVE  OnWay(r, i + Shift(r), k)
  BY <1>7, KeysRead DEF SockTypes, IInv
<1>8. ASSUME NEW r \in Socks, NEW i \in Nat, NEW k \in 1 .. MaxKeys, OnWay(r, i, k)'
      PROVE  /\ k <= pressed'
             /\ ~Typed(k)'
             /\ \A t \in Tasks : Pending(t)' => key'[t] # k
             /\ \A q \in Socks, j \in Nat : OnWay(q, j, k)' => q = r /\ j = i
  <2>1. OnWay(r, i + Shift(r), k) /\ i + Shift(r) \in Nat
    BY <1>7, <1>8
  <2>2. i # 0
    <3>1. i \in DOMAIN up'[r] /\ up'[r] \in Seq(0 .. MaxKeys)
      BY <1>8, SockStep DEF OnWay, IInv, TypeOK, SockEvent
    <3> QED
      BY <3>1
  <2>3. k # n
    <3>1. r = s /\ i + Shift(r) = 1 => i = 0
      OBVIOUS
    <3> QED
      BY <1>2, <2>1, <2>2, <3>1 DEF KeysApart, WaysApart
  <2>4. ASSUME NEW q \in Socks, NEW j \in Nat, OnWay(q, j, k)'
        PROVE  q = r /\ j = i
    <3>1. OnWay(q, j + Shift(q), k) /\ j + Shift(q) \in Nat
      BY <1>7, <2>4
    <3>2. q = r /\ j + Shift(q) = i + Shift(r)
      BY <2>1, <3>1 DEF KeysApart, WaysApart
    <3> QED
      BY <3>2
  <2> QED
    BY <1>1, <1>4, <2>1, <2>3, <2>4 DEF KeysApart, WaysApart, Pending
<1> QED
  BY <1>4, <1>5, <1>6, <1>8 DEF KeysApart, WaysApart

\* A connection breaks: what is still on its way keeps its place.
LEMMA KeysCut ==
  ASSUME TypeOK, KeysApart, NEW s \in Socks, SockBreaks(s)
  PROVE  KeysApart'
<1> DEFINE d == [r \in Socks |-> 0]
<1>1. d \in [Socks -> 0 .. 1]
  OBVIOUS
<1>2. UNCHANGED <<typed, pressed, key, pc>>
  BY DEF SockBreaks, callVars, bridgeVars
<1>3. PICK n \in 0 .. Len(up[s]) : up' = [up EXCEPT ![s] = SubSeq(@, 1, n)]
  BY DEF SockBreaks
<1>4. ASSUME NEW r \in Socks, NEW i \in Nat, NEW k \in 1 .. MaxKeys, OnWay(r, i, k)'
      PROVE  OnWay(r, i + d[r], k)
  <2>1. up[r] \in Seq(0 .. MaxKeys) /\ up'[r] \in {up[r], SubSeq(up[s], 1, n)}
        /\ (r # s => up'[r] = up[r])
    BY <1>3 DEF TypeOK
  <2>2. i \in DOMAIN up'[r] /\ up'[r][i] = k /\ k # 0
    BY <1>4 DEF OnWay
  <2>3. i \in DOMAIN up[r] /\ up[r][i] = k
    BY <1>3, <2>1, <2>2, PrefixHolds
  <2> QED
    BY <2>2, <2>3 DEF OnWay
<1> HIDE DEF d
<1> QED
  BY <1>1, <1>2, <1>4, KeysFrame DEF Pending

\* No step brings a key to a second place.
LEMMA KeysNext ==
  ASSUME IInv, KeysApart, [Next]_vars
  PROVE  KeysApart'
<1> USE DEF IInv, wireVars, callVars, bridgeVars, Pending, Goto
<1>1. CASE UNCHANGED vars
  BY <1>1, KeysStay DEF vars
<1>2. ASSUME NEW c \in Clients, ClientEvent(c)
      PROVE  KeysApart'
  <2>1. CASE Fetch(c) \/ InitMessage(c) \/ PingMessage(c) \/ ClientCloses(c)
    <3>1. /\ UNCHANGED <<typed, pressed, key, up>>
          /\ \A t \in Tasks : Pending(t)' => Pending(t)
      BY <2>1 DEF Fetch, InitMessage, PingMessage, ClientCloses, TypeOK
    <3> QED
      BY <3>1, KeysStay
  <2> QED
    BY <1>2, <2>1, KeySent, KeyPosted DEF ClientEvent
<1>3. ASSUME NEW t \in Socks, Dials(t)
      PROVE  KeysApart'
  <2>1. t \in Tasks
    BY SocksAreTasks
  <2>2. UNCHANGED <<typed, pressed, key>>
    BY <1>3 DEF Dials, Ensure, AskAnswered, AskFails, Started, StartFails, PtyAnswered,
       PtyFails, DialAnswered, DialRefused, DialThrows
  <2>3. \A s \in Socks : up'[s] \in {up[s], << >>, << 0 >>}
    BY <1>3 DEF Dials, Ensure, AskAnswered, AskFails, Started, StartFails, PtyAnswered,
       PtyFails, DialAnswered, DialRefused, DialThrows, TypeOK
  <2>4. \A u \in Tasks : Pending(u)' => Pending(u)
    BY <1>3, <2>1 DEF Dials, Ensure, AskAnswered, AskFails, Started, StartFails, PtyAnswered,
       PtyFails, DialAnswered, DialRefused, DialThrows, AfterEnsure, AfterDial, BeginDial,
       TypeOK
  <2> QED
    BY <2>2, <2>3, <2>4, KeysStay
<1>4. ASSUME NEW t \in Tasks, Calls(t)
      PROVE  KeysApart'
  <2>1. CASE HttpAnswered(t) \/ HttpFails(t)
    <3>1. /\ UNCHANGED <<typed, pressed, key, up>>
          /\ \A u \in Tasks : Pending(u)' => Pending(u)
      BY <2>1 DEF HttpAnswered, HttpFails, Over, TypeOK
    <3> QED
      BY <3>1, KeysStay
  <2> QED
    BY <1>4, <2>1, KeyHandled DEF Calls
<1>5. ASSUME NEW s \in Socks, SockEvent(s) \/ SockBreaks(s)
      PROVE  KeysApart'
  <2>1. CASE SockMessage(s) \/ SockClose(s)
    <3>1. UNCHANGED <<typed, pressed, key, up, pc>>
      BY <2>1 DEF SockMessage, SockClose
    <3> QED
      BY <3>1, KeysStay
  <2>2. CASE SockJoins(s)
    <3> DEFINE d == [r \in Socks |-> IF r = s THEN 1 ELSE 0]
    <3>1. /\ UNCHANGED <<typed, pressed, key, pc>>
          /\ up[s] # << >> /\ up' = [up EXCEPT ![s] = Tail(@)]
      BY <2>2 DEF SockJoins
    <3>2. d \in [Socks -> 0 .. 1]
      OBVIOUS
    <3>3. ASSUME NEW r \in Socks, NEW i \in Nat, NEW k \in 1 .. MaxKeys, OnWay(r, i, k)'
          PROVE  OnWay(r, i + d[r], k)
      BY <3>1, <3>3, KeysRead
    <3> HIDE DEF d
    <3> QED
      BY <3>1, <3>2, <3>3, KeysFrame
  <2>3. CASE SockRefused(s)
    <3>1. /\ UNCHANGED <<typed, pressed, key, pc>>
          /\ \A r \in Socks : up'[r] \in {up[r], << >>, << 0 >>}
      BY <2>3 DEF SockRefused, TypeOK
    <3> QED
      BY <3>1, KeysStay
  <2>4. CASE SockBreaks(s)
    BY <2>4, KeysCut
  <2> QED
    BY <1>5, <2>1, <2>2, <2>3, <2>4, KeyRead DEF SockEvent
<1>6. CASE Prints \/ Stops \/ OnStop
  <2>1. /\ UNCHANGED <<typed, pressed, key, pc>>
        /\ \A s \in Socks : up'[s] \in {up[s], << >>, << 0 >>}
    BY <1>6 DEF Prints, Stops, OnStop
  <2> QED
    BY <2>1, KeysStay
<1> HIDE DEF IInv
<1> QED
  BY <1>1, <1>2, <1>3, <1>4, <1>5, <1>6 DEF Next

\* However the fallback from the stream to HTTP, aborted calls, redials and
\* container stops interleave, no key is typed twice.
THEOREM KeysTypedOnce == Spec => []KeysOnce
<1>1. Init => KeysApart
  BY DEF Init, KeysApart, TypedPressed, PostsApart, WaysApart, KeysOnce, Typed, OnWay, Pending
<1>2. IInv /\ KeysApart /\ [Next]_vars => KeysApart'
  BY KeysNext
<1>3. KeysApart => KeysOnce
  BY DEF KeysApart
<1> QED
  BY <1>1, <1>2, <1>3, Invariance, PTL DEF Spec

-----------------------------------------------------------------------------
(* The object implements KeyDelivery.                                       *)

\* A task that has dialled never dials again, and only tasks of kind "key" post.
LinkInv ==
  /\ \A s \in Socks : sock[s] # "none" => pc[s] \in {"read", "answer", "done"}
  /\ \A t \in Tasks : Pending(t) => t \in Posts

\* A socket carries nothing before it is opened.
FreshInv == \A s \in Socks : sock[s] = "none" => up[s] = << >>

LEMMA PostsAreTasks ==
  /\ Posts \subseteq Tasks
  /\ \A t \in Posts : t \notin Socks
  /\ \A t \in Posts : t[2] = "key"
  /\ \A t \in Socks : t[2] # "key" /\ t[2] # "ping"
<1>1. \A t \in Posts : t[2] = "key" /\ t \in Tasks
  BY DEF Posts, Tasks
<1>2. \A t \in Socks : t[2] # "key" /\ t[2] # "ping"
  BY DEF Socks
<1> QED
  BY <1>1, <1>2

\* What KeyDelivery sees of a step that leaves the keys where they are.
Quiet ==
  /\ UNCHANGED <<pressed, typed, up, Stream>>
  /\ \A t \in Posts : Pending(t)' = Pending(t) /\ (Pending(t) => key'[t] = key[t])

LEMMA QuietLane ==
  ASSUME UNCHANGED up,
         \A t \in Posts : Pending(t)' = Pending(t) /\ (Pending(t) => key'[t] = key[t])
  PROVE  Lane' = Lane
BY DEF Lane, Pending

LEMMA QuietStutters ==
  ASSUME Quiet
  PROVE  UNCHANGED Keys!vars
BY QuietLane DEF Quiet, Keys!vars

\* closeContainerWs shuts the stream there is, and that alone.
LEMMA CloseShuts ==
  ASSUME TypeOK, CloseContainerWs
  PROVE  \/ UNCHANGED Stream
         \/ \E s \in Socks :
              Stream[s] = "open" /\ Stream' = [Stream EXCEPT ![s] = "shut"]
<1>1. /\ sock' = [s \in Socks |->
                   IF s = containerWs /\ sock[s] \in {"open", "joined"}
                   THEN "closing" ELSE sock[s]]
      /\ sock = [s \in Socks |-> sock[s]]
  BY DEF CloseContainerWs, TypeOK
<1>2. CASE containerWs \in Socks /\ sock[containerWs] \in {"open", "joined"}
  <2>1. Stream[containerWs] = "open"
    BY <1>2 DEF Stream
  <2>2. Stream' = [Stream EXCEPT ![containerWs] = "shut"]
    BY <1>1, <1>2 DEF Stream
  <2> QED
    BY <1>2, <2>1, <2>2
<1>3. CASE ~(containerWs \in Socks /\ sock[containerWs] \in {"open", "joined"})
  <2>1. sock' = sock
    BY <1>1, <1>3
  <2> QED
    BY <2>1 DEF Stream
<1> QED
  BY <1>2, <1>3

\* A step of KeyDelivery, or none that it sees.
Delivers == Keys!Step \/ UNCHANGED Keys!vars

LEMMA CloseDelivers ==
  ASSUME TypeOK, CloseContainerWs, UNCHANGED <<pressed, typed, up>>,
         \A t \in Posts : Pending(t)' = Pending(t) /\ (Pending(t) => key'[t] = key[t])
  PROVE  Delivers
<1>1. Lane' = Lane
  BY QuietLane
<1>2. CASE UNCHANGED Stream
  BY <1>1, <1>2 DEF Delivers, Keys!vars
<1>3. ASSUME NEW s \in Socks, Stream[s] = "open", Stream' = [Stream EXCEPT ![s] = "shut"]
      PROVE  Delivers
  <2>1. Keys!Shut(s)
    BY <1>1, <1>3 DEF Keys!Shut
  <2> QED
    BY <2>1 DEF Delivers, Keys!Step
<1> QED
  BY <1>2, <1>3, CloseShuts

\* What most steps do: no socket is new, no task that has dialled goes back,
\* and no task has a key to post that it had not before.
LEMMA LinkFrame ==
  ASSUME LinkInv,
         \A s \in Socks : sock[s] = "none" => sock'[s] = "none",
         \A s \in Socks : pc[s] \in {"read", "answer", "done"}
                            => pc'[s] \in {"read", "answer", "done"},
         \A t \in Tasks : Pending(t)' => Pending(t)
  PROVE  LinkInv'
BY DEF LinkInv

\* What every step does.
Simulates == LinkInv' /\ Delivers

LEMMA SimQuiet ==
  ASSUME LinkInv, Quiet,
         \A s \in Socks : sock[s] = "none" => sock'[s] = "none",
         \A s \in Socks : pc[s] \in {"read", "answer", "done"}
                            => pc'[s] \in {"read", "answer", "done"},
         \A t \in Tasks : Pending(t)' => Pending(t)
  PROVE  Simulates
BY LinkFrame, QuietStutters DEF Simulates, Delivers

\* One task goes on and posts nothing; all else that keys depend on stays.
LEMMA SimMove ==
  ASSUME TypeOK, LinkInv, NEW t \in Tasks, NEW l, Goto(t, l),
         l \notin {"post", "postread"}, ~Pending(t),
         pc[t] \in {"read", "answer", "done"} => l \in {"read", "answer", "done"}
                                                \/ t \notin Socks,
         UNCHANGED <<pressed, typed, up, sock, key>>
  PROVE  Simulates
<1>1. \A u \in Tasks : pc'[u] = IF u = t THEN l ELSE pc[u]
  BY DEF Goto, TypeOK
<1>2. \A u \in Tasks : Pending(u)' = Pending(u)
  BY <1>1 DEF Pending
<1>3. Quiet
  BY <1>2, PostsAreTasks DEF Quiet, Stream
<1> QED
  BY <1>1, <1>2, <1>3, SimQuiet, SocksAreTasks

\* A key is pressed and posted.
LEMMA SimPost ==
  ASSUME IInv, LinkInv, NEW c \in Clients, NEW l \in {"post", "postread"},
         PostKey(c, l), pressed' = pressed + 1, UNCHANGED <<typed, up, sock>>
  PROVE  Simulates
<1> DEFINE p == <<c, "key">>
<1>1. p \in Posts /\ p \in Tasks /\ p \notin Socks
  BY PostsAreTasks DEF Posts
<1>2. /\ \A t \in Tasks : pc'[t] = IF t = p THEN l ELSE pc[t]
      /\ \A t \in Tasks : key'[t] = IF t = p THEN pressed + 1 ELSE key[t]
      /\ ~Pending(p)
  BY <1>1 DEF PostKey, Goto, IInv, TypeOK, Pending
<1> HIDE DEF p
<1>3. LinkInv'
  BY <1>1, <1>2, SocksAreTasks DEF LinkInv, Pending
<1>4. Lane[p] = << >>
  BY <1>1, <1>2 DEF Lane, Pending
<1>5. Lane' = [Lane EXCEPT ![p] = Append(@, pressed + 1)]
  <2>1. Append(Lane[p], pressed + 1) = <<pressed + 1>>
    BY <1>4
  <2>2. Lane'[p] = <<pressed + 1>>
    BY <1>1, <1>2 DEF Lane
  <2>3. \A u \in Socks \cup Posts : u # p => Lane'[u] = Lane[u]
    BY <1>1, <1>2, PostsAreTasks DEF Lane
  <2> QED
    BY <2>1, <2>2, <2>3 DEF Lane
<1>6. Keys!Send(p)
  BY <1>1, <1>4, <1>5 DEF Keys!Send, Stream
<1> QED
  BY <1>1, <1>3, <1>6 DEF Simulates, Delivers, Keys!Step, Keys!Lanes

LEMMA SimClient ==
  ASSUME IInv, LinkInv, NEW c \in Clients, ClientEvent(c)
  PROVE  Simulates
<1> USE DEF IInv, wireVars, bridgeVars, callVars, wsVars
<1>0. \A k \in {"fetch", "init", "ping", "key"} : <<c, k>> \in Tasks
  BY DEF Tasks
<1>1. CASE Fetch(c) \/ InitMessage(c) \/ PingMessage(c)
  <2>1. PICK k \in {"fetch", "init", "ping"}, l \in {"ensure", "read"} :
           pc[<<c, k>>] = "idle" /\ Goto(<<c, k>>, l)
    BY <1>1 DEF Fetch, InitMessage, PingMessage
  <2>2. UNCHANGED <<pressed, typed, up, sock, key>>
    BY <1>1 DEF Fetch, InitMessage, PingMessage
  <2>3. <<c, k>> \in Tasks /\ ~Pending(<<c, k>>)
    BY <1>0, <2>1 DEF Pending
  <2> DEFINE t == <<c, k>>
  <2>4. t \in Tasks /\ ~Pending(t) /\ pc[t] = "idle" /\ Goto(t, l)
    BY <2>1, <2>3
  <2> HIDE DEF t
  <2> QED
    BY <2>2, <2>4, SimMove
<1>2. CASE ClientCloses(c)
  <2>1. UNCHANGED <<pc, pressed, typed, up, key>>
    BY <1>2 DEF ClientCloses
  <2>2. CASE CloseContainerWs
    <3>1. \A s \in Socks : sock[s] = "none" => sock'[s] = "none"
      BY <2>2 DEF CloseContainerWs
    <3>2. LinkInv'
      BY <2>1, <3>1, LinkFrame DEF Pending
    <3>3. Delivers
      BY <2>1, <2>2, CloseDelivers DEF Pending
    <3> QED
      BY <3>2, <3>3 DEF Simulates
  <2>3. CASE UNCHANGED wsVars
    <3>1. Quiet
      BY <2>1, <2>3 DEF Quiet, Stream, Pending
    <3> QED
      BY <2>1, <2>3, <3>1, SimQuiet DEF Pending
  <2> QED
    BY <1>2, <2>2, <2>3 DEF ClientCloses
<1>3. CASE KeyToStream(c)
  <2>1. /\ containerWs \in Socks /\ sock[containerWs] \in {"open", "joined", "lost"}
        /\ UNCHANGED <<pc, typed, sock, key>> /\ pressed' = pressed + 1
    BY <1>3 DEF KeyToStream, NewKey, StreamUsable, TypeOK
  <2>2. LinkInv'
    BY <2>1 DEF LinkInv, Pending
  <2>3. UNCHANGED Stream
    BY <2>1 DEF Stream
  <2>4. CASE sock[containerWs] = "lost"
    <3>1. Lane' = Lane
      BY <1>3, <2>1, <2>4, QuietLane DEF KeyToStream, Pending
    <3>2. Keys!Vanish(containerWs)
      BY <2>1, <2>3, <2>4, <3>1 DEF Keys!Vanish, Stream
    <3> QED
      BY <2>1, <2>2, <3>2 DEF Simulates, Delivers, Keys!Step
  <2>5. CASE sock[containerWs] \in {"open", "joined"}
    <3>1. up' = [up EXCEPT ![containerWs] = Append(@, pressed + 1)]
      BY <1>3, <2>5 DEF KeyToStream
    <3>2. Lane' = [Lane EXCEPT ![containerWs] = Append(@, pressed + 1)]
      <4>1. \A l \in Socks : Lane'[l] = IF l = containerWs THEN Append(Lane[l], pressed + 1)
                                        ELSE Lane[l]
        BY <3>1 DEF Lane, TypeOK
      <4>2. \A l \in Posts : l \notin Socks /\ Lane'[l] = Lane[l]
        BY <2>1, PostsAreTasks DEF Lane
      <4> QED
        BY <2>1, <4>1, <4>2 DEF Lane
    <3>3. Keys!Send(containerWs)
      BY <2>1, <2>3, <2>5, <3>2 DEF Keys!Send, Stream
    <3> QED
      BY <2>1, <2>2, <3>3 DEF Simulates, Delivers, Keys!Step, Keys!Lanes
  <2> QED
    BY <2>1, <2>4, <2>5
<1>4. CASE KeyStreamFails(c)
  <2>1. PostKey(c, "post") /\ pressed' = pressed + 1 /\ UNCHANGED <<typed, up, sock>>
    BY <1>4 DEF KeyStreamFails, NewKey
  <2> QED
    BY <2>1, SimPost
<1>5. CASE KeyToHttp(c)
  <2>1. PostKey(c, "postread") /\ pressed' = pressed + 1 /\ UNCHANGED <<typed, up, sock>>
    BY <1>5 DEF KeyToHttp, NewKey
  <2> QED
    BY <2>1, SimPost
<1> QED
  BY <1>1, <1>2, <1>3, <1>4, <1>5 DEF ClientEvent

\* What follows ensureContainerReady and connectContainerWebSocket.
LEMMA SimAfterEnsure ==
  ASSUME IInv, LinkInv, NEW t \in Socks, pc[t] \in {"ask", "pty"}, AfterEnsure(t),
         UNCHANGED <<pressed, typed, up, key>>
  PROVE  Simulates
<1>1. t \in Tasks /\ ~Pending(t) /\ TypeOK
  BY SocksAreTasks DEF Pending, IInv
<1>2. CASE UNCHANGED wsVars
  <2>1. PICK l \in {"pty2", "dial", "read"} : Goto(t, l)
    BY <1>2 DEF AfterEnsure, BeginDial
  <2> QED
    BY <1>1, <1>2, <2>1, SimMove DEF wsVars
<1>3. CASE BeginDial(t)
  <2>1. \A u \in Tasks : pc'[u] = IF u = t THEN "dial" ELSE pc[u]
    BY <1>1, <1>3 DEF BeginDial, Goto, TypeOK
  <2>2. \A u \in Tasks : Pending(u)' = Pending(u)
    BY <1>1, <2>1 DEF Pending
  <2>3. \A s \in Socks : sock[s] = "none" => sock'[s] = "none"
    BY <1>3 DEF BeginDial, CloseContainerWs
  <2>4. LinkInv'
    BY <2>1, <2>2, <2>3, LinkFrame, SocksAreTasks
  <2>5. Delivers
    BY <1>1, <1>3, <2>2, CloseDelivers, PostsAreTasks DEF BeginDial
  <2> QED
    BY <2>4, <2>5 DEF Simulates
<1> QED
  BY <1>2, <1>3 DEF AfterEnsure

LEMMA SimDials ==
  ASSUME IInv, LinkInv, NEW t \in Socks, Dials(t)
  PROVE  Simulates
<1> USE DEF wireVars, bridgeVars, callVars, wsVars
<1>0. t \in Tasks /\ TypeOK
  BY SocksAreTasks DEF IInv
<1>1. ASSUME NEW l \in Labels, pc[t] \in {"ensure", "ask", "start", "dial"},
             l \notin {"post", "postread"}, Goto(t, l),
             UNCHANGED <<pressed, typed, up, sock, key>>
      PROVE  Simulates
  BY <1>0, <1>1, SimMove DEF Pending
<1>2. CASE Ensure(t)
  BY <1>1, <1>2 DEF Ensure, Labels
<1>3. CASE AskFails(t)
  BY <1>1, <1>3 DEF AskFails, Labels
<1>4. CASE Started(t)
  BY <1>1, <1>4 DEF Started, Labels
<1>5. CASE StartFails(t)
  BY <1>1, <1>5 DEF StartFails, Labels
<1>6. CASE DialRefused(t) \/ DialThrows(t)
  <2>1. PICK l \in {"done", "read"} : Goto(t, l)
    BY <1>6 DEF DialRefused, DialThrows, AfterDial
  <2> QED
    BY <1>1, <1>6, <2>1 DEF DialRefused, DialThrows, Labels
<1>7. CASE AskAnswered(t)
  BY <1>7, SimAfterEnsure DEF AskAnswered
<1>8. CASE (PtyAnswered(t) \/ PtyFails(t)) /\ pc[t] = "pty"
  BY <1>8, SimAfterEnsure DEF PtyAnswered, PtyFails
<1>9. CASE (PtyAnswered(t) \/ PtyFails(t)) /\ pc[t] = "pty2"
  <2>1. BeginDial(t) /\ UNCHANGED <<pressed, typed, up, key>>
    BY <1>9 DEF PtyAnswered, PtyFails
  <2>2. \A u \in Tasks : pc'[u] = IF u = t THEN "dial" ELSE pc[u]
    BY <1>0, <2>1 DEF BeginDial, Goto, TypeOK
  <2>3. \A u \in Tasks : Pending(u)' = Pending(u)
    BY <1>9, <2>2 DEF Pending
  <2>4. \A s \in Socks : sock[s] = "none" => sock'[s] = "none"
    BY <2>1 DEF BeginDial, CloseContainerWs
  <2>5. LinkInv'
    BY <1>9, <2>2, <2>3, <2>4, LinkFrame, SocksAreTasks
  <2>6. Delivers
    BY <1>0, <2>1, <2>3, CloseDelivers, PostsAreTasks DEF BeginDial
  <2> QED
    BY <2>5, <2>6 DEF Simulates
<1>10. CASE DialAnswered(t)
  <2>1. /\ sock' = [sock EXCEPT ![t] = "open"] /\ up' = [up EXCEPT ![t] = << 0 >>]
        /\ UNCHANGED <<pressed, typed, key>>
        /\ pc[t] = "dial"
    BY <1>10 DEF DialAnswered
  <2>2. PICK l \in {"done", "read"} : Goto(t, l)
    BY <1>10 DEF DialAnswered, AfterDial
  <2>3. \A u \in Tasks : pc'[u] = IF u = t THEN l ELSE pc[u]
    BY <1>0, <2>2 DEF Goto, TypeOK
  <2>4. \A u \in Tasks : Pending(u)' = Pending(u)
    BY <2>1, <2>3 DEF Pending
  <2>5. LinkInv'
    BY <2>1, <2>3, <2>4, SocksAreTasks DEF LinkInv
  <2>6. sock[t] = "none"
    BY <2>1 DEF LinkInv
  <2>7. Stream[t] = "new" /\ Stream' = [Stream EXCEPT ![t] = "open"]
    BY <1>0, <2>1, <2>6 DEF Stream, TypeOK
  <2>8. Lane' = [Lane EXCEPT ![t] = << 0 >>]
    <3>1. \A s \in Socks : Lane'[s] = IF s = t THEN << 0 >> ELSE Lane[s]
      BY <1>0, <2>1 DEF Lane, TypeOK
    <3>2. \A p \in Posts : p # t /\ Lane'[p] = Lane[p]
      BY <2>1, <2>4, PostsAreTasks DEF Lane, Pending
    <3> QED
      BY <3>1, <3>2 DEF Lane
  <2>9. Keys!Open(t)
    BY <2>1, <2>7, <2>8 DEF Keys!Open, Keys!Greeting
  <2> QED
    BY <2>5, <2>9 DEF Simulates, Delivers, Keys!Step
<1>11. PtyAnswered(t) \/ PtyFails(t) => pc[t] = "pty" \/ pc[t] = "pty2"
  BY DEF PtyAnswered, PtyFails
<1>12. CASE PtyAnswered(t) \/ PtyFails(t)
  BY <1>8, <1>9, <1>11, <1>12
<1> QED
  BY <1>2, <1>3, <1>4, <1>5, <1>6, <1>7, <1>10, <1>12 DEF Dials

\* A lane changes, and no other one.
LEMMA OneLane ==
  ASSUME NEW l \in Socks \cup Posts, NEW q, Lane'[l] = q,
         \A k \in Socks \cup Posts : k # l => Lane'[k] = Lane[k]
  PROVE  Lane' = [Lane EXCEPT ![l] = q]
BY DEF Lane

LEMMA SimCalls ==
  ASSUME IInv, LinkInv, NEW t \in Tasks, Calls(t)
  PROVE  Simulates
<1> USE DEF wireVars, bridgeVars, callVars, wsVars
<1>0. TypeOK
  BY DEF IInv
<1>1. ASSUME ~Pending(t), NEW l \in {"answer", "idle", "done"}, Goto(t, l),
             l = "idle" => t \notin Socks, UNCHANGED <<pressed, typed, up, sock, key>>
      PROVE  Simulates
  BY <1>0, <1>1, SimMove
<1>2. ASSUME Pending(t), NEW l \in {"answer", "idle", "done"}, Goto(t, l),
             UNCHANGED <<pressed, up, sock, key>>,
             \/ UNCHANGED typed
             \/ typed' = Append(typed, key[t])
      PROVE  Simulates
  <2>1. t \in Posts /\ t \notin Socks
    BY <1>2, PostsAreTasks DEF LinkInv
  <2>2. \A u \in Tasks : pc'[u] = IF u = t THEN l ELSE pc[u]
    BY <1>0, <1>2 DEF Goto, TypeOK
  <2>3. LinkInv'
    BY <1>2, <2>1, <2>2, SocksAreTasks DEF LinkInv, Pending
  <2>4. key[t] \in 1 .. MaxKeys
    BY <1>2 DEF IInv, KeyInv, Pending
  <2>5. Lane[t] = <<key[t]>> /\ Lane'[t] = << >>
    BY <1>2, <2>1, <2>2 DEF Lane, Pending
  <2>6. \A k \in Socks \cup Posts : k # t => Lane'[k] = Lane[k]
    BY <1>2, <2>2, PostsAreTasks DEF Lane
  <2>7. Lane' = [Lane EXCEPT ![t] = << >>]
    BY <2>1, <2>5, <2>6, OneLane
  <2>8. UNCHANGED Stream
    BY <1>2 DEF Stream
  <2>9. CASE UNCHANGED typed
    <3>1. Keys!Lose(t)
      BY <1>2, <2>7, <2>8, <2>9 DEF Keys!Lose
    <3> QED
      BY <2>1, <2>3, <3>1 DEF Simulates, Delivers, Keys!Step
  <2>10. CASE typed' = Append(typed, key[t])
    <3>1. Lane[t] # << >> /\ Head(Lane[t]) = key[t] /\ Tail(Lane[t]) = << >> /\ key[t] # 0
      BY <2>4, <2>5, ContainerManagerAssumption
    <3>2. Keys!Arrive(t)
      BY <1>2, <2>7, <2>8, <2>10, <3>1 DEF Keys!Arrive, Keys!Greeting
    <3> QED
      BY <2>1, <2>3, <3>2 DEF Simulates, Delivers, Keys!Step, Keys!Lanes
  <2> QED
    BY <1>2, <2>9, <2>10
<1>3. CASE HttpHandled(t)
  <2>1. Goto(t, "answer") /\ UNCHANGED <<pressed, up, sock, key>>
    BY <1>3 DEF HttpHandled
  <2>2. CASE Pending(t)
    <3>1. UNCHANGED typed \/ typed' = Append(typed, key[t])
      BY <1>3 DEF HttpHandled
    <3> QED
      BY <1>2, <2>1, <2>2, <3>1
  <2>3. CASE ~Pending(t)
    <3>1. UNCHANGED typed
      BY <1>3, <2>3 DEF HttpHandled, Pending
    <3> QED
      BY <1>1, <2>1, <2>3, <3>1
  <2> QED
    BY <2>2, <2>3
<1>4. CASE HttpAnswered(t) \/ HttpFails(t)
  <2>1. PICK l \in {"idle", "done"} : Goto(t, l) /\ (l = "idle" => t \notin Socks)
    BY <1>4, PostsAreTasks DEF HttpAnswered, HttpFails, Over
  <2>2. UNCHANGED <<pressed, typed, up, sock, key>>
    BY <1>4 DEF HttpAnswered, HttpFails
  <2> QED
    BY <1>1, <1>2, <2>1, <2>2
<1> QED
  BY <1>3, <1>4 DEF Calls

LEMMA SimSocks ==
  ASSUME IInv, LinkInv, FreshInv, NEW s \in Socks, SockEvent(s) \/ SockBreaks(s)
  PROVE  Simulates
<1> USE DEF wireVars, bridgeVars, callVars, wsVars
<1>0. TypeOK
  BY DEF IInv
<1>1. /\ UNCHANGED <<pc, key, pressed>>
      /\ \A r \in Socks : sock[r] = "none" => sock'[r] = "none"
  BY <1>0 DEF SockEvent, SockJoins, SockRefused, SockTypes, SockMessage, SockClose,
     SockBreaks, Drained, TypeOK
<1>2. LinkInv' /\ \A t \in Tasks : Pending(t)' = Pending(t)
  BY <1>1, LinkFrame DEF Pending
<1>3. ASSUME SockJoins(s) \/ SockTypes(s) \/ SockMessage(s) \/ SockClose(s)
      PROVE  UNCHANGED Stream
  <2>1. CASE SockJoins(s)
    BY <1>0, <2>1 DEF SockJoins, Stream, TypeOK
  <2>2. CASE SockTypes(s) \/ SockMessage(s)
    BY <2>2 DEF SockTypes, SockMessage, Stream
  <2>3. CASE SockClose(s)
    BY <1>0, <2>3 DEF SockClose, Drained, Stream, TypeOK
  <2> QED
    BY <1>3, <2>1, <2>2, <2>3
<1>4. CASE SockMessage(s) \/ SockClose(s)
  <2>1. Quiet
    BY <1>1, <1>2, <1>3, <1>4, PostsAreTasks DEF Quiet, SockMessage, SockClose
  <2> QED
    BY <1>2, <2>1, QuietStutters DEF Simulates, Delivers
<1>5. ASSUME NEW q, up' = [up EXCEPT ![s] = q]
      PROVE  Lane[s] = up[s] /\ Lane' = [Lane EXCEPT ![s] = q]
  <2>1. Lane[s] = up[s] /\ Lane'[s] = q
    BY <1>0, <1>5 DEF Lane, TypeOK
  <2>2. \A k \in Socks \cup Posts : k # s => Lane'[k] = Lane[k]
    BY <1>0, <1>1, <1>5 DEF Lane, TypeOK
  <2> QED
    BY <2>1, <2>2, OneLane
<1>6. CASE SockJoins(s) \/ SockTypes(s)
  <2>1. up[s] # << >> /\ up' = [up EXCEPT ![s] = Tail(up[s])]
    BY <1>6 DEF SockJoins, SockTypes
  <2>2. Lane[s] = up[s] /\ Lane' = [Lane EXCEPT ![s] = Tail(up[s])]
    BY <1>5, <2>1
  <2>3. typed' = IF Head(up[s]) = 0 THEN typed ELSE Append(typed, Head(up[s]))
    BY <1>6 DEF SockJoins, SockTypes
  <2>4. Keys!Arrive(s)
    BY <1>1, <1>3, <1>6, <2>1, <2>2, <2>3 DEF Keys!Arrive, Keys!Greeting
  <2> QED
    BY <1>2, <2>4 DEF Simulates, Delivers, Keys!Step, Keys!Lanes
<1>7. CASE SockRefused(s) \/ SockBreaks(s)
  <2>1. sock[s] # "none" /\ UNCHANGED typed
    BY <1>7 DEF SockRefused, SockBreaks, FreshInv
  <2>2. PICK n \in 0 .. Len(up[s]) : up' = [up EXCEPT ![s] = SubSeq(up[s], 1, n)]
    <3>1. up[s] \in Seq(0 .. MaxKeys) /\ Len(up[s]) \in Nat
      BY <1>0 DEF TypeOK
    <3>2. CASE SockBreaks(s)
      BY <3>2 DEF SockBreaks
    <3>3. CASE SockRefused(s)
      <4>1. 0 \in 0 .. Len(up[s]) /\ SubSeq(up[s], 1, 0) = << >>
        BY <3>1
      <4> QED
        BY <3>3, <4>1 DEF SockRefused
    <3> QED
      BY <1>7, <3>2, <3>3
  <2>3. Lane[s] = up[s] /\ Lane' = [Lane EXCEPT ![s] = SubSeq(up[s], 1, n)]
    BY <1>5, <2>2
  <2>4. Stream[s] # "new" /\ Stream' = [Stream EXCEPT ![s] = "shut"]
    <3>1. /\ sock'[s] \notin {"none", "open", "joined"}
          /\ \A r \in Socks : r # s => sock'[r] = sock[r]
      BY <1>0, <1>7, <2>1 DEF SockRefused, SockBreaks, TypeOK
    <3> QED
      BY <2>1, <3>1 DEF Stream
  <2>5. Keys!Cut(s)
    BY <1>1, <2>1, <2>2, <2>3, <2>4 DEF Keys!Cut
  <2> QED
    BY <1>2, <2>5 DEF Simulates, Delivers, Keys!Step
<1> QED
  BY <1>4, <1>6, <1>7 DEF SockEvent

LEMMA SimContainer ==
  ASSUME IInv, LinkInv, Prints \/ Stops \/ OnStop
  PROVE  Simulates
<1> USE DEF wireVars, bridgeVars, callVars, wsVars
<1>0. TypeOK
  BY DEF IInv
<1>1. /\ UNCHANGED <<pc, key, pressed, typed>>
      /\ \A r \in Socks : sock[r] = "none" => sock'[r] = "none"
  BY DEF Prints, Stops, OnStop, CloseContainerWs
<1>2. LinkInv' /\ \A t \in Tasks : Pending(t)' = Pending(t)
  BY <1>1, LinkFrame DEF Pending
<1>3. CASE Prints
  <2>1. Quiet
    BY <1>1, <1>2, <1>3, PostsAreTasks DEF Quiet, Prints, Stream
  <2> QED
    BY <1>2, <2>1, QuietStutters DEF Simulates, Delivers
<1>4. CASE Stops
  <2>1. Stream' = [s \in Socks |-> IF Stream[s] = "open" THEN "shut" ELSE Stream[s]]
    BY <1>0, <1>4 DEF Stops, Stream, TypeOK
  <2>2. Lane' = [l \in Socks \cup Posts |-> IF l \in Socks THEN << >> ELSE Lane[l]]
    BY <1>1, <1>4 DEF Stops, Lane
  <2>3. Keys!Break
    BY <1>1, <2>1, <2>2 DEF Keys!Break, Keys!Lanes
  <2> QED
    BY <1>2, <2>3 DEF Simulates, Delivers, Keys!Step
<1>5. CASE OnStop
  <2>1. CloseContainerWs /\ UNCHANGED up
    BY <1>5 DEF OnStop
  <2>2. Delivers
    BY <1>0, <1>1, <1>2, <2>1, CloseDelivers, PostsAreTasks
  <2> QED
    BY <1>2, <2>2 DEF Simulates
<1> QED
  BY <1>3, <1>4, <1>5

LEMMA FreshNext ==
  ASSUME IInv, FreshInv, [Next]_vars
  PROVE  FreshInv'
<1> USE DEF wireVars, bridgeVars, callVars, wsVars
<1>0. TypeOK /\ StreamUsable
  BY DEF IInv
<1>1. ASSUME \A s \in Socks : sock'[s] = "none" =>
               sock[s] = "none" /\ up'[s] \in {up[s], << >>}
      PROVE  FreshInv'
  BY <1>1 DEF FreshInv
<1>2. CASE UNCHANGED vars
  BY <1>2 DEF vars, FreshInv
<1>3. ASSUME NEW c \in Clients, ClientEvent(c)
      PROVE  FreshInv'
  <2>1. CASE KeyToStream(c)
    <3>1. sock[containerWs] # "none" /\ UNCHANGED sock
      BY <1>0, <2>1 DEF KeyToStream, StreamUsable
    <3>2. \A s \in Socks : s # containerWs => up'[s] = up[s]
      BY <1>0, <2>1 DEF KeyToStream, TypeOK
    <3> QED
      BY <3>1, <3>2, <1>1
  <2>2. CASE ~KeyToStream(c)
    <3>1. UNCHANGED up /\ \A s \in Socks : sock'[s] = "none" => sock[s] = "none"
      BY <1>3, <2>2 DEF ClientEvent, Fetch, InitMessage, PingMessage, ClientCloses,
         KeyStreamFails, KeyToHttp, CloseContainerWs
    <3> QED
      BY <3>1, <1>1
  <2> QED
    BY <2>1, <2>2
<1>4. ASSUME NEW t \in Socks, Dials(t)
      PROVE  FreshInv'
  <2>1. CASE DialAnswered(t)
    <3>1. /\ sock'[t] = "open"
          /\ \A s \in Socks : s # t => sock'[s] = sock[s] /\ up'[s] = up[s]
      BY <1>0, <2>1 DEF DialAnswered, TypeOK
    <3> QED
      BY <3>1, <1>1
  <2>2. CASE ~DialAnswered(t)
    <3>1. UNCHANGED up /\ \A s \in Socks : sock'[s] = "none" => sock[s] = "none"
      BY <1>4, <2>2 DEF Dials, Ensure, AskAnswered, AskFails, Started, StartFails, PtyAnswered,
         PtyFails, DialRefused, DialThrows, AfterEnsure, BeginDial, CloseContainerWs
    <3> QED
      BY <3>1, <1>1
  <2> QED
    BY <2>1, <2>2
<1>5. ASSUME NEW t \in Tasks, Calls(t)
      PROVE  FreshInv'
  <2>1. UNCHANGED <<up, sock>>
    BY <1>5 DEF Calls, HttpHandled, HttpAnswered, HttpFails
  <2> QED
    BY <2>1, <1>1
<1>6. ASSUME NEW s \in Socks, SockEvent(s) \/ SockBreaks(s)
      PROVE  FreshInv'
  <2>1. \A r \in Socks : r # s => sock'[r] = sock[r] /\ up'[r] = up[r]
    BY <1>0, <1>6 DEF SockEvent, SockJoins, SockRefused, SockTypes, SockMessage, SockClose,
       SockBreaks, TypeOK
  <2>2. sock'[s] = "none" => sock[s] = "none" /\ up'[s] \in {up[s], << >>}
    <3>1. CASE SockBreaks(s) \/ SockClose(s)
      BY <1>0, <3>1 DEF SockBreaks, SockClose, TypeOK
    <3>2. CASE SockMessage(s)
      BY <3>2 DEF SockMessage
    <3>3. CASE SockJoins(s) \/ SockRefused(s) \/ SockTypes(s)
      BY <1>0, <3>3 DEF SockJoins, SockRefused, SockTypes, FreshInv, TypeOK
    <3> QED
      BY <1>6, <3>1, <3>2, <3>3 DEF SockEvent
  <2> QED
    BY <2>1, <2>2, <1>1
<1>7. CASE Prints \/ Stops \/ OnStop
  <2>1. \A s \in Socks : /\ sock'[s] = "none" => sock[s] = "none"
                        /\ up'[s] \in {up[s], << >>}
    BY <1>7 DEF Prints, Stops, OnStop, CloseContainerWs
  <2> QED
    BY <2>1, <1>1
<1> QED
  BY <1>2, <1>3, <1>4, <1>5, <1>6, <1>7 DEF Next

LEMMA SimNext ==
  ASSUME IInv, LinkInv, FreshInv, [Next]_vars
  PROVE  LinkInv' /\ [Keys!Step]_(Keys!vars)
<1>1. CASE UNCHANGED vars
  <2>1. UNCHANGED <<pc, key, pressed, typed, up, sock>>
    BY <1>1 DEF vars, wsVars, callVars, wireVars, bridgeVars
  <2>2. Quiet /\ LinkInv'
    BY <2>1 DEF Quiet, Stream, Pending, LinkInv
  <2> QED
    BY <2>2, QuietStutters
<1>2. CASE Next
  BY <1>2, SimClient, SimDials, SimCalls, SimSocks, SimContainer
  DEF Next, Simulates, Delivers
<1> QED
  BY <1>1, <1>2

\* The object with its tasks, dials, fallbacks and stops implements KeyDelivery,
\* though starts fail and single connections break: a stream begins with init,
\* types its keys in order up to where it breaks and takes none once this object
\* has shut it, and a key travels once, over one stream or in one POST.
THEOREM KeysDelivered == Spec => DeliversKeys
<1>1. Init => LinkInv /\ FreshInv /\ Keys!InitDelivery
  <2> SUFFICES ASSUME Init PROVE LinkInv /\ FreshInv /\ Keys!InitDelivery
    OBVIOUS
  <2>1. LinkInv /\ FreshInv
    BY DEF Init, LinkInv, FreshInv, Pending
  <2>2. /\ Stream = [s \in Socks |-> "new"]
        /\ Lane = [l \in Socks \cup Posts |-> << >>]
    BY PostsAreTasks DEF Init, Stream, Lane
  <2> QED
    BY <2>1, <2>2 DEF Init, Keys!InitDelivery, Keys!Lanes
<1>2. IInv /\ LinkInv /\ FreshInv /\ [Next]_vars
        => LinkInv' /\ FreshInv' /\ [Keys!Step]_(Keys!vars)
  BY SimNext, FreshNext
<1> QED
  BY <1>1, <1>2, Invariance, PTL DEF Spec, DeliversKeys, Keys!Delivery
=============================================================================
