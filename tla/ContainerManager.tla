-------------------------- MODULE ContainerManager --------------------------
(***************************************************************************)
(* The Durable Object of one user (packages/worker/src/container-manager   *)
(* .ts): it starts the user's container, streams the output of the PTY     *)
(* bridge in it to every client of the session and sends it their keys,    *)
(* over one WebSocket to the bridge or, without one, over HTTP.            *)
(*                                                                         *)
(* The object runs one event at a time; a task is a handler call, and its  *)
(* steps are what it does between two awaits of the container. Awaits of   *)
(* the object's own storage let no other event in and are no steps. A      *)
(* socket to the bridge is named after the task that dials it. Output is   *)
(* abstracted to the numbers of its chunks, keys to theirs.                *)
(***************************************************************************)
EXTENDS Integers, Sequences, FiniteSets

CONSTANTS Clients,    \* the relay connections of this session
          NoSock,     \* a value that is no socket: null
          Aborts,     \* TRUE: reads and writes may be aborted by a timeout
          Fails,      \* TRUE: starts, calls and connections may fail although
                      \* the container runs
          MaxPrint,   \* bound: chunks OpenCode prints
          MaxKeys,    \* bound: keys the clients type
          MaxStops    \* bound: how often the container stops

Tasks == Clients \X {"fetch", "init", "ping", "key"}
Socks == Clients \X {"fetch", "init"}     \* the tasks that dial

ASSUME ContainerManagerAssumption ==
  /\ NoSock \notin Socks
  /\ Aborts \in BOOLEAN /\ Fails \in BOOLEAN
  /\ MaxPrint \in Nat /\ MaxKeys \in Nat /\ MaxStops \in Nat

VARIABLES
  clients,      \* ctx.getWebSockets()
  containerWs,  \* this.containerWs
  ready,        \* this.containerWsReady
  pc,           \* what each task waits for
  held,         \* the output in the HTTP response a task waits for
  told,         \* the last word of each client's fetch: "Ready!" or an error
  sock,         \* each socket: "none", "open" (its init under way), "joined",
                \* "closing" (closed here), "lost" (closed there), "gone"
  down,         \* output on its way over each socket
  up,           \* keys on their way over each socket, and 0 for init
  container,    \* "stopped", "running"
  pty,          \* the bridge's Once: "none" so far, "session", "failed" for good
  buffer,       \* the bridge's output buffer for HTTP reads
  typed,        \* the keys the bridge has written to the PTY
  printed,      \* how many chunks OpenCode has printed
  pressed,      \* how many keys the clients have typed
  key,          \* the key a task of kind "key" carries
  stops,        \* how often the container has stopped
  stopDue,      \* onStop has not been called yet
  shown         \* the output sent to each client

wsVars == <<containerWs, ready, sock>>
wireVars == <<down, up>>
callVars == <<held, told, key>>
bridgeVars == <<container, pty, buffer, typed, printed, stops, stopDue>>
vars == <<clients, wsVars, pc, callVars, wireVars, bridgeVars, pressed, shown>>

Init ==
  /\ clients = {}
  /\ containerWs = NoSock /\ ready = FALSE
  /\ pc = [t \in Tasks |-> "idle"]
  /\ held = [t \in Tasks |-> << >>]
  /\ told = [c \in Clients |-> "none"]
  /\ key = [t \in Tasks |-> 0]
  /\ sock = [s \in Socks |-> "none"]
  /\ down = [s \in Socks |-> << >>] /\ up = [s \in Socks |-> << >>]
  /\ container = "stopped" /\ pty = "none" /\ stops = 0 /\ stopDue = FALSE
  /\ buffer = << >> /\ typed = << >>
  /\ printed = 0 /\ pressed = 0
  /\ shown = [c \in Clients |-> << >>]

-----------------------------------------------------------------------------
(* Helpers of the object.                                                   *)

Goto(t, l) == pc' = [pc EXCEPT ![t] = l]

\* broadcastToWebSockets, once for each chunk of out.
Show(out) ==
  shown' = [c \in Clients |-> IF c \in clients THEN shown[c] \o out ELSE shown[c]]

\* Seeded fault: the socket is closed and still kept.
CloseContainerWsKeeps ==
  /\ sock' = [s \in Socks |->
                IF s = containerWs /\ sock[s] \in {"open", "joined"}
                THEN "closing" ELSE sock[s]]
  /\ UNCHANGED <<containerWs, ready>>

\* closeContainerWs
CloseContainerWs ==
  /\ sock' = [s \in Socks |->
                IF s = containerWs /\ sock[s] \in {"open", "joined"}
                THEN "closing" ELSE sock[s]]
  /\ containerWs' = NoSock
  /\ ready' = IF containerWs = NoSock THEN ready ELSE FALSE

\* connectContainerWebSocket, up to its await: close the socket there is.
BeginDial(t) == CloseContainerWs /\ Goto(t, "dial")

\* What follows ensureContainerReady: a fetch initializes the PTY once more, an
\* init message dials if there is no stream, and reads otherwise.
AfterEnsure(t) ==
  IF t[2] = "fetch" THEN Goto(t, "pty2") /\ UNCHANGED wsVars
  ELSE IF ready THEN Goto(t, "read") /\ UNCHANGED wsVars
  ELSE BeginDial(t)

\* What follows connectContainerWebSocket, however it ended.
AfterDial(t) ==
  IF t[2] = "fetch"
  THEN Goto(t, "done") /\ told' = [told EXCEPT ![t[1]] = "Ready!"]
  ELSE Goto(t, "read") /\ UNCHANGED told

-----------------------------------------------------------------------------
(* Events from the clients.                                                 *)

\* fetch: accept the connection, answer it and go on in the background.
Fetch(c) ==
  /\ pc[<<c, "fetch">>] = "idle"
  /\ clients' = clients \cup {c}
  /\ Goto(<<c, "fetch">>, "ensure")
  /\ UNCHANGED <<wsVars, callVars, wireVars, bridgeVars, pressed, shown>>

\* webSocketMessage: init, which the relay sends as soon as it is connected.
InitMessage(c) ==
  /\ c \in clients /\ pc[<<c, "init">>] = "idle"
  /\ Goto(<<c, "init">>, "ensure")
  /\ UNCHANGED <<clients, wsVars, callVars, wireVars, bridgeVars, pressed, shown>>

\* ping: poll the bridge unless there is a stream.
PingMessage(c) ==
  /\ c \in clients /\ pc[<<c, "ping">>] = "idle"
  /\ ~ready
  /\ Goto(<<c, "ping">>, "read")
  /\ UNCHANGED <<clients, wsVars, callVars, wireVars, bridgeVars, pressed, shown>>

NewKey(c) == c \in clients /\ pressed < MaxKeys /\ pressed' = pressed + 1

\* Bound: a client waits for the answer to one POST at a time.
PostKey(c, l) ==
  /\ pc[<<c, "key">>] = "idle"
  /\ key' = [key EXCEPT ![<<c, "key">>] = pressed + 1]
  /\ Goto(<<c, "key">>, l)

\* Seeded fault: no return after the send, so the HTTP call is made too.
KeyToStreamTwice(c) ==
  /\ NewKey(c)
  /\ ready /\ containerWs # NoSock
  /\ up' = IF sock[containerWs] = "lost" THEN up
           ELSE [up EXCEPT ![containerWs] = Append(@, pressed + 1)]
  /\ PostKey(c, "post")
  /\ UNCHANGED <<clients, wsVars, held, told, down, bridgeVars, shown>>

\* data with a stream: sendToContainerWs. If the other side is gone and the
\* close event is still to come, the key goes nowhere ...
KeyToStream(c) ==
  /\ NewKey(c)
  /\ ready /\ containerWs # NoSock
  /\ up' = IF sock[containerWs] = "lost" THEN up
           ELSE [up EXCEPT ![containerWs] = Append(@, pressed + 1)]
  /\ UNCHANGED <<clients, wsVars, pc, callVars, down, bridgeVars, shown>>

\* ... or the send throws: no stream from now on, and POST /write instead.
KeyStreamFails(c) ==
  /\ NewKey(c)
  /\ ready /\ containerWs # NoSock /\ sock[containerWs] = "lost"
  /\ ready' = FALSE
  /\ PostKey(c, "post")
  /\ UNCHANGED <<clients, containerWs, sock, held, told, wireVars, bridgeVars, shown>>

\* data without a stream: writeAndReadHttp.
KeyToHttp(c) ==
  /\ NewKey(c)
  /\ ~(ready /\ containerWs # NoSock)
  /\ PostKey(c, "postread")
  /\ UNCHANGED <<clients, wsVars, held, told, wireVars, bridgeVars, shown>>

\* webSocketClose: the last client takes the stream with it. A client leaves,
\* or StartFails has closed its connection.
ClientCloses(c) ==
  /\ c \in clients
  /\ clients' = clients \ {c}
  /\ IF clients' = {} THEN CloseContainerWs ELSE UNCHANGED wsVars
  /\ UNCHANGED <<pc, callVars, wireVars, bridgeVars, pressed, shown>>

-----------------------------------------------------------------------------
(* The tasks' awaits.                                                       *)

MayFail == Fails \/ container = "stopped"
MayAbort == Aborts \/ container = "stopped"

\* ensureContainerReady: ask a running container, start any other.
Ensure(t) ==
  /\ pc[t] = "ensure"
  /\ Goto(t, IF container = "running" THEN "ask" ELSE "start")
  /\ UNCHANGED <<clients, wsVars, callVars, wireVars, bridgeVars, pressed, shown>>

AskAnswered(t) ==
  /\ pc[t] = "ask" /\ container = "running"
  /\ AfterEnsure(t)
  /\ UNCHANGED <<clients, callVars, wireVars, bridgeVars, pressed, shown>>

\* GET /ping fails or is not answered within three seconds.
AskFails(t) ==
  /\ pc[t] = "ask" /\ MayFail
  /\ Goto(t, "start")
  /\ UNCHANGED <<clients, wsVars, callVars, wireVars, bridgeVars, pressed, shown>>

\* startAndWaitForPorts
Started(t) ==
  /\ pc[t] = "start" /\ ~stopDue
  /\ container' = "running"
  /\ Goto(t, "pty")
  /\ UNCHANGED <<clients, wsVars, callVars, wireVars, pty, buffer, typed,
                 printed, stops, stopDue, pressed, shown>>

\* It throws: a fetch tells its client and closes it; in an init message
\* nobody catches it.
StartFails(t) ==
  /\ pc[t] = "start" /\ Fails
  /\ Goto(t, "done")
  /\ told' = IF t[2] = "fetch" THEN [told EXCEPT ![t[1]] = "error"] ELSE told
  /\ UNCHANGED <<clients, wsVars, held, key, wireVars, bridgeVars, pressed, shown>>

\* initializeSession in the bridge: the first init of all starts OpenCode, or
\* fails to, and a later one meets what the first has left.
MeetsPty ==
  IF pty # "none" THEN UNCHANGED pty
  ELSE pty' = "session" \/ (Fails /\ pty' = "failed")

\* initializePTY: the bridge handles POST /init. Whatever comes back, success,
\* an error or nothing at all from a handler that panics, the task goes on.
PtyAnswered(t) ==
  /\ pc[t] \in {"pty", "pty2"} /\ container = "running"
  /\ MeetsPty
  /\ IF pc[t] = "pty" THEN AfterEnsure(t) ELSE BeginDial(t)
  /\ UNCHANGED <<clients, callVars, wireVars, container, buffer, typed,
                 printed, stops, stopDue, pressed, shown>>

PtyFails(t) ==
  /\ pc[t] \in {"pty", "pty2"} /\ MayFail
  /\ IF pc[t] = "pty" THEN AfterEnsure(t) ELSE BeginDial(t)
  /\ UNCHANGED <<clients, callVars, wireVars, bridgeVars, pressed, shown>>

\* The bridge upgrades the connection: keep it, send init, listen, be ready.
DialAnswered(t) ==
  /\ pc[t] = "dial" /\ container = "running"
  /\ sock' = [sock EXCEPT ![t] = "open"]
  /\ up' = [up EXCEPT ![t] = <<0>>]
  /\ containerWs' = t
  /\ ready' = TRUE
  /\ AfterDial(t)
  /\ UNCHANGED <<clients, held, key, down, bridgeVars, pressed, shown>>

\* No WebSocket in the response: return and leave everything as it is ...
DialRefused(t) ==
  /\ pc[t] = "dial" /\ MayFail
  /\ AfterDial(t)
  /\ UNCHANGED <<clients, wsVars, held, key, wireVars, bridgeVars, pressed, shown>>

\* ... or no response: forget any socket there may be by now.
DialThrows(t) ==
  /\ pc[t] = "dial" /\ MayFail
  /\ containerWs' = NoSock /\ ready' = FALSE
  /\ AfterDial(t)
  /\ UNCHANGED <<clients, sock, held, key, wireVars, bridgeVars, pressed, shown>>

\* The bridge handles GET /read, POST /writeread or POST /write ...
HttpHandled(t) ==
  /\ pc[t] \in {"read", "postread", "post"} /\ container = "running"
  /\ typed' = IF pc[t] = "read" \/ pty # "session" THEN typed ELSE Append(typed, key[t])
  /\ held' = [held EXCEPT ![t] = IF pc[t] = "post" THEN << >> ELSE buffer]
  /\ buffer' = IF pc[t] = "post" THEN buffer ELSE << >>
  /\ Goto(t, "answer")
  /\ UNCHANGED <<clients, wsVars, told, key, wireVars, container, pty, printed,
                 stops, stopDue, pressed, shown>>

\* Pings and keys come again, a fetch and an init do not.
Over(t) == IF t[2] \in {"ping", "key"} THEN "idle" ELSE "done"

\* ... and the answer arrives and goes to every client.
HttpAnswered(t) ==
  /\ pc[t] = "answer"
  /\ Show(held[t])
  /\ held' = [held EXCEPT ![t] = << >>]
  /\ Goto(t, Over(t))
  /\ UNCHANGED <<clients, wsVars, told, key, wireVars, bridgeVars, pressed>>

\* No container answers, or the call is aborted, before or after the bridge
\* has handled it.
HttpFails(t) ==
  /\ pc[t] \in {"read", "postread", "post", "answer"} /\ MayAbort
  /\ held' = [held EXCEPT ![t] = << >>]
  /\ Goto(t, Over(t))
  /\ UNCHANGED <<clients, wsVars, told, key, wireVars, bridgeVars, pressed, shown>>

-----------------------------------------------------------------------------
(* The sockets.                                                             *)

\* The bridge reads init, finds or starts a session and registers the client ...
SockJoins(s) ==
  /\ up[s] # << >> /\ Head(up[s]) = 0
  /\ MeetsPty /\ pty' = "session"
  /\ sock' = [sock EXCEPT ![s] = IF @ = "open" THEN "joined" ELSE @]
  /\ up' = [up EXCEPT ![s] = Tail(@)]
  /\ UNCHANGED <<clients, containerWs, ready, pc, callVars, down, container,
                 buffer, typed, printed, stops, stopDue, pressed, shown>>

\* ... or has none: the start fails, or has failed before and the handler panics
\* on the nil session. The handler closes its connection and reads no key.
SockRefused(s) ==
  /\ up[s] # << >> /\ Head(up[s]) = 0
  /\ MeetsPty /\ pty' = "failed"
  /\ sock' = [sock EXCEPT ![s] = IF @ \in {"open", "joined"} THEN "lost" ELSE @]
  /\ up' = [up EXCEPT ![s] = << >>]
  /\ UNCHANGED <<clients, containerWs, ready, pc, callVars, down, container,
                 buffer, typed, printed, stops, stopDue, pressed, shown>>

\* Seeded fault: init is written to the PTY like a key.
SockTypesInit(s) ==
  /\ up[s] # << >>
  /\ typed' = Append(typed, Head(up[s]))
  /\ up' = [up EXCEPT ![s] = Tail(@)]
  /\ UNCHANGED <<clients, wsVars, pc, callVars, down, container, pty, buffer,
                 printed, stops, stopDue, pressed, shown>>

\* ... and a key, all that was sent before a close.
SockTypes(s) ==
  /\ up[s] # << >> /\ Head(up[s]) # 0
  /\ typed' = Append(typed, Head(up[s]))
  /\ up' = [up EXCEPT ![s] = Tail(@)]
  /\ UNCHANGED <<clients, wsVars, pc, callVars, down, container, pty, buffer,
                 printed, stops, stopDue, pressed, shown>>

\* The message listener, on every socket that was not closed here.
SockMessage(s) ==
  /\ sock[s] \in {"joined", "lost"} /\ down[s] # << >>
  /\ Show(<<Head(down[s])>>)
  /\ down' = [down EXCEPT ![s] = Tail(@)]
  /\ UNCHANGED <<clients, wsVars, pc, callVars, up, bridgeVars, pressed>>

\* One connection breaks while the container runs: what is on its way, in either
\* direction, arrives up to some point, and nothing on a socket closed here.
SockBreaks(s) ==
  /\ Fails /\ sock[s] \in {"open", "joined", "closing"}
  /\ sock' = [sock EXCEPT ![s] = "lost"]
  /\ \E n \in 0 .. Len(up[s]) : up' = [up EXCEPT ![s] = SubSeq(@, 1, n)]
  /\ \E n \in 0 .. (IF sock[s] = "closing" THEN 0 ELSE Len(down[s])) :
       down' = [down EXCEPT ![s] = SubSeq(@, 1, n)]
  /\ UNCHANGED <<clients, containerWs, ready, pc, callVars, bridgeVars, pressed, shown>>

\* Neither side has anything left to deliver on a closed socket.
Drained(s) ==
  \/ sock[s] = "closing" /\ up[s] = << >>
  \/ sock[s] = "lost" /\ down[s] = << >>

\* Seeded fault: the listener forgets the flag.
SockCloseKeepsReady(s) ==
  /\ Drained(s)
  /\ sock' = [sock EXCEPT ![s] = "gone"]
  /\ down' = [down EXCEPT ![s] = << >>]
  /\ containerWs' = NoSock /\ UNCHANGED ready
  /\ UNCHANGED <<clients, pc, callVars, up, bridgeVars, pressed, shown>>

\* The close listener. It does not look whose socket this.containerWs is.
SockClose(s) ==
  /\ Drained(s)
  /\ sock' = [sock EXCEPT ![s] = "gone"]
  /\ down' = [down EXCEPT ![s] = << >>]
  /\ containerWs' = NoSock /\ ready' = FALSE
  /\ UNCHANGED <<clients, pc, callVars, up, bridgeVars, pressed, shown>>

-----------------------------------------------------------------------------
(* The container: what OpenCode prints goes into the buffer and to every    *)
(* registered socket; when it exits, everything in the container ends.      *)

Prints ==
  /\ container = "running" /\ pty = "session" /\ printed < MaxPrint
  /\ printed' = printed + 1
  /\ buffer' = Append(buffer, printed + 1)
  /\ down' = [s \in Socks |-> IF sock[s] = "joined"
                              THEN Append(down[s], printed + 1) ELSE down[s]]
  /\ UNCHANGED <<clients, wsVars, pc, callVars, up, container, pty, typed,
                 stops, stopDue, pressed, shown>>

Stops ==
  /\ container = "running" /\ stops < MaxStops
  /\ container' = "stopped" /\ pty' = "none" /\ buffer' = << >>
  /\ stops' = stops + 1 /\ stopDue' = TRUE
  /\ sock' = [s \in Socks |-> IF sock[s] \in {"open", "joined"} THEN "lost" ELSE sock[s]]
  /\ up' = [s \in Socks |-> << >>]
  /\ UNCHANGED <<clients, containerWs, ready, pc, callVars, down, typed,
                 printed, pressed, shown>>

\* onStop
OnStop ==
  /\ stopDue
  /\ stopDue' = FALSE
  /\ CloseContainerWs
  /\ UNCHANGED <<clients, pc, callVars, wireVars, container, pty, buffer,
                 typed, printed, stops, pressed, shown>>

-----------------------------------------------------------------------------
ClientEvent(c) ==
  \/ Fetch(c) \/ InitMessage(c) \/ PingMessage(c) \/ ClientCloses(c)
  \/ KeyToStream(c) \/ KeyStreamFails(c) \/ KeyToHttp(c)

Dials(t) ==
  \/ Ensure(t) \/ AskAnswered(t) \/ AskFails(t) \/ Started(t) \/ StartFails(t)
  \/ PtyAnswered(t) \/ PtyFails(t)
  \/ DialAnswered(t) \/ DialRefused(t) \/ DialThrows(t)

Calls(t) == HttpHandled(t) \/ HttpAnswered(t) \/ HttpFails(t)

SockEvent(s) ==
  SockJoins(s) \/ SockRefused(s) \/ SockTypes(s) \/ SockMessage(s) \/ SockClose(s)

Next ==
  \/ \E c \in Clients : ClientEvent(c)
  \/ \E t \in Socks : Dials(t)
  \/ \E t \in Tasks : Calls(t)
  \/ \E s \in Socks : SockEvent(s) \/ SockBreaks(s)
  \/ Prints \/ Stops \/ OnStop

Spec == Init /\ [][Next]_vars

\* Every call is answered or fails, sockets deliver what they hold, the
\* runtime reports a stop and the end of a connection closed here, and the
\* relay pings every 100 ms.
FairSpec ==
  /\ Spec
  /\ \A c \in Clients : /\ WF_vars(PingMessage(c))
                        /\ WF_vars(told[c] = "error" /\ ClientCloses(c))
  /\ \A t \in Socks : WF_vars(Dials(t))
  /\ \A t \in Tasks : WF_vars(Calls(t))
  /\ \A s \in Socks : WF_vars(SockEvent(s))
  /\ WF_vars(OnStop)

-----------------------------------------------------------------------------
Chunks == 1 .. MaxPrint

\* Every variable has its type.
TypeOK ==
  /\ clients \subseteq Clients
  /\ containerWs \in Socks \cup {NoSock} /\ ready \in BOOLEAN
  /\ pc \in [Tasks -> {"idle", "ensure", "ask", "start", "pty", "pty2", "dial",
                       "read", "postread", "post", "answer", "done"}]
  /\ held \in [Tasks -> Seq(Chunks)] /\ key \in [Tasks -> 0 .. MaxKeys]
  /\ told \in [Clients -> {"none", "Ready!", "error"}]
  /\ sock \in [Socks -> {"none", "open", "joined", "closing", "lost", "gone"}]
  /\ down \in [Socks -> Seq(Chunks)] /\ up \in [Socks -> Seq(0 .. MaxKeys)]
  /\ container \in {"stopped", "running"} /\ pty \in {"none", "session", "failed"}
  /\ stops \in 0 .. MaxStops /\ stopDue \in BOOLEAN
  /\ buffer \in Seq(Chunks) /\ printed \in 0 .. MaxPrint
  /\ typed \in Seq(1 .. MaxKeys) /\ pressed \in 0 .. MaxKeys
  /\ shown \in [Clients -> Seq(Chunks)]

\* A handler that finds the stream ready (lines 279, 410, 423, 444) has a
\* socket, and one this object has not closed: however dials, close events and
\* stops interleave, no key goes into a socket that is closed already.
StreamUsable ==
  /\ ready => containerWs # NoSock
  /\ containerWs # NoSock => sock[containerWs] \in {"open", "joined", "lost"}

\* Falling back from the stream to HTTP, and a POST that is aborted after the
\* bridge handled it, never type a key twice (sendToContainerWs, 278-291).
KeysOnce == \A i, j \in DOMAIN typed : typed[i] = typed[j] => i = j

\* Client c is connected to a running container without a stream.
Polling(c) == c \in clients /\ containerWs = NoSock /\ container = "running"

\* The "fallback" of lines 269 and 443: without a stream, what is in the
\* bridge's buffer reaches each client by the polls that pings make, as long
\* as no call is aborted. ready must be down whenever the socket is gone.
PollDelivers ==
  \A c \in Clients, n \in Chunks :
    (Polling(c) /\ \E i \in DOMAIN buffer : buffer[i] = n)
      ~> (~Polling(c) \/ \E i \in DOMAIN shown[c] : shown[c][i] = n)

\* What OpenCode prints while a client is connected is shown to it, over the
\* stream or by the initial read, "container WS may not have data yet" (417),
\* unless the container stops.
OutputShown ==
  \A c \in Clients, n \in Chunks :
    (c \in clients /\ \E i \in DOMAIN buffer : buffer[i] = n)
      ~> (c \notin clients \/ container = "stopped"
          \/ \E i \in DOMAIN shown[c] : shown[c][i] = n)

-----------------------------------------------------------------------------
(* What the keys are promised: KeyDelivery, with nothing of tasks and calls.*)

Posts == Clients \X {"key"}

Stream ==
  [s \in Socks |-> IF sock[s] = "none" THEN "new"
                   ELSE IF sock[s] \in {"open", "joined"} THEN "open" ELSE "shut"]

Lane ==
  [l \in Socks \cup Posts |->
     IF l \in Socks THEN up[l]
     ELSE IF pc[l] \in {"postread", "post"} THEN <<key[l]>> ELSE << >>]

Keys == INSTANCE KeyDelivery
  WITH Streams <- Socks, pressed <- pressed, stream <- Stream, lane <- Lane,
       typed <- typed

\* Keys that a client types go over a stream or with a POST of their own, each
\* over one way and once: a stream begins with init, is used until it is shut
\* and never again, and types its keys in the order they were pressed, while a
\* POST may be overtaken (sendToContainerWs, webSocketMessage, 278-291, 421).
DeliversKeys == Keys!Delivery
=============================================================================
