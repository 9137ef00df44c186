----------------------------- MODULE PtyBridge -----------------------------
(***************************************************************************)
(* The PTY bridge (packages/container/pty-bridge/main.go): one process per *)
(* container that starts OpenCode on a PTY once, and lets WebSocket        *)
(* clients and HTTP pollers read its output and type into it.              *)
(*                                                                         *)
(* Every goroutine of the process has an entry in pc: one handler per      *)
(* WebSocket connection and per HTTP request, the PTY reader and the       *)
(* waiter on the child process. A step is what a goroutine does between    *)
(* two points where another one can be seen: an unlock, a blocking call,   *)
(* an unprotected read of shared state. The output is abstracted to the    *)
(* numbers 1, 2, ... of the chunks ptmx.Read returns, and the keystrokes   *)
(* to how many of them OpenCode has not read yet. Requests that do not     *)
(* decode are answered with an error, touch nothing and are left out.      *)
(***************************************************************************)
EXTENDS Integers, Sequences, FiniteSets, OutputBuffer

CONSTANTS Conns,      \* WebSocket connections that may be dialled
          Requests,   \* HTTP requests that may be made
          Kinds,      \* which endpoints the requests go to
          Messages,   \* which messages the WebSocket clients send after init
          NoOne,      \* a value that is no connection
          MaxOutput,  \* bound: chunks OpenCode prints
          KeyCap      \* bound: keystrokes the PTY queues before a write blocks

AllKinds == {"init", "write", "read", "writeread", "resize", "status"}

AllMessages == {"data", "resize", "ping"}

ASSUME PtyBridgeAssumption ==
  /\ Kinds \subseteq AllKinds
  /\ Messages \subseteq AllMessages
  /\ Conns \cap Requests = {}
  /\ (Conns \cup Requests) \cap {"reader", "waiter"} = {}
  /\ NoOne \notin Conns
  /\ MaxOutput \in Nat
  /\ KeyCap \in Nat \ {0}

Handlers == Conns \cup Requests
Casters == {"reader", "waiter"}     \* the two goroutines that call Broadcast
Goroutines == Handlers \cup Casters

VARIABLES
  alive,        \* the process runs: no os.Exit, no unrecovered panic
  pc,           \* where each goroutine is
  sessionOnce,  \* sync.Once: "idle", "busy" (f runs), "done"
  session,      \* the package variable session is not nil
  starts,       \* how often pty.StartWithSize started OpenCode
  isRunning,    \* session.isRunning
  doneClosed,   \* session.done is closed
  clients,      \* session.clients
  buffer,       \* session.output.data
  drained,      \* the chunks the HTTP reads have returned, in that order
  kind,         \* the endpoint each request went to
  answer,       \* how each handler's call ended
  todo,         \* clients a Broadcast has still to write to
  at,           \* the client a Broadcast is writing to
  wire,         \* the data chunks each connection has been sent
  toldExit,     \* the connections that have been sent the exit message
  conn,         \* each connection: "none"; "up"; "stalled", the peer does not
                \* read; "dead", a write failed and so will the next; "down"
  deadline,     \* each connection's write deadline: "none", "ahead", "past"
  child,        \* OpenCode: "none", "running", "exited"
  produced,     \* chunks OpenCode has written to its terminal
  taken,        \* chunks ptmx.Read has returned
  keys          \* keystrokes written to the PTY and not yet read by OpenCode

onceVars == <<sessionOnce, session, starts>>
exitVars == <<isRunning, doneClosed>>
outVars == <<buffer, drained>>
callVars == <<kind, answer>>
castVars == <<todo, at, wire, toldExit>>
connVars == <<conn, deadline>>
ptyVars == <<child, produced, taken, keys>>
vars == <<alive, pc, onceVars, exitVars, clients, outVars, callVars, castVars,
          connVars, ptyVars>>

Init ==
  /\ alive = TRUE
  /\ pc = [g \in Goroutines |-> "idle"]
  /\ sessionOnce = "idle" /\ session = FALSE /\ starts = 0
  /\ isRunning = FALSE /\ doneClosed = FALSE
  /\ clients = {}
  /\ buffer = << >> /\ drained = << >>
  /\ kind = [r \in Requests |-> "none"]
  /\ answer = [h \in Handlers |-> "none"]
  /\ todo = [g \in Casters |-> {}] /\ at = [g \in Casters |-> NoOne]
  /\ wire = [c \in Conns |-> << >>] /\ toldExit = {}
  /\ conn = [c \in Conns |-> "none"] /\ deadline = [c \in Conns |-> "none"]
  /\ child = "none" /\ produced = 0 /\ taken = 0 /\ keys = 0

-----------------------------------------------------------------------------
(* Locks. session.mu is held across a step by a PTY write that waits for    *)
(* room and, as a reader, by /status; clientsMu only by a Broadcast, as a   *)
(* reader. A reader does not overtake a writer that waits (RWMutex).        *)

MuRFree == \A h \in Handlers : pc[h] # "write"
MuFree == MuRFree /\ \A h \in Handlers : pc[h] # "count"
ClientsMuFree == \A g \in Casters : pc[g] # "cast"

Goto(g, l) == pc' = [pc EXCEPT ![g] = l]

\* Goroutine g goes on to l and changes nothing that others can see.
Move(g, l) ==
  /\ Goto(g, l)
  /\ UNCHANGED <<alive, onceVars, exitVars, clients, outVars, callVars,
                 castVars, connVars, ptyVars>>

\* Handler h returns, and its caller sees a. A WebSocket handler closes its
\* connection on every return (defer conn.Close()).
Return(h, a) ==
  /\ Goto(h, "done")
  /\ answer' = [answer EXCEPT ![h] = a]
  /\ conn' = [c \in Conns |-> IF c = h THEN "down" ELSE conn[c]]
  /\ UNCHANGED <<alive, exitVars, outVars, kind, castVars, deadline>>

Finish(h, a) == Return(h, a) /\ UNCHANGED <<onceVars, clients, ptyVars>>

\* The process ends: its goroutines stop, and the kernel closes its sockets
\* and the terminal, which ends OpenCode if it still runs.
Halt ==
  /\ alive' = FALSE
  /\ pc' = [g \in Goroutines |-> "halted"]
  /\ at' = [g \in Casters |-> NoOne]
  /\ conn' = [c \in Conns |-> "down"]
  /\ child' = "exited"
  /\ UNCHANGED <<onceVars, exitVars, clients, outVars, callVars, todo, wire,
                 toldExit, deadline, produced, taken, keys>>

\* The goroutines inside a write of connection c.
Writers(c) == {g \in Casters : at[g] = c} \cup {h \in {c} : pc[h] = "reply"}

Open == {"up", "stalled", "dead"}

-----------------------------------------------------------------------------
(* Calls that arrive, and what peers and clocks do.                         *)

Connection(c, s) ==
  /\ conn' = [conn EXCEPT ![c] = s]
  /\ UNCHANGED <<alive, onceVars, exitVars, clients, outVars, callVars,
                 castVars, deadline, ptyVars>>

Dial(c) == pc[c] = "idle" /\ Goto(c, "await") /\ Connection(c, "up")

\* The peer closes or is lost; the handler finds out when it next reads.
PeerClose(c) == conn[c] \in Open /\ Connection(c, "down") /\ UNCHANGED pc

\* The peer stops reading until the next write cannot go through.
PeerStalls(c) == conn[c] = "up" /\ Connection(c, "stalled") /\ UNCHANGED pc

\* Five seconds go by since the last Broadcast wrote to the connection.
DeadlinePasses(c) ==
  /\ deadline[c] = "ahead" /\ conn[c] \in Open
  /\ \A g \in Casters : at[g] # c
  /\ deadline' = [deadline EXCEPT ![c] = "past"]
  /\ UNCHANGED <<alive, pc, onceVars, exitVars, clients, outVars, callVars,
                 castVars, conn, ptyVars>>

Request(r, k) ==
  /\ pc[r] = "idle"
  /\ kind' = [kind EXCEPT ![r] = k]
  /\ Goto(r, IF k = "init" THEN "once" ELSE "check")
  /\ UNCHANGED <<alive, onceVars, exitVars, clients, outVars, answer,
                 castVars, connVars, ptyVars>>

-----------------------------------------------------------------------------
(* Starting the session: /init and the first message on /ws.                *)

\* The first message on a connection asks for the session ...
AwaitInit(c) == pc[c] = "await" /\ conn[c] = "up" /\ Move(c, "once")

\* ... or never comes, does not parse, or is of another type.
AwaitFails(c) == pc[c] = "await" /\ Finish(c, "error")

\* Seeded fault: a plain flag that is set after the call, not a sync.Once.
OnceEnterPlainFlag(h) ==
  /\ pc[h] = "once" /\ sessionOnce # "done"
  /\ sessionOnce' = "busy"
  /\ Goto(h, "init")
  /\ UNCHANGED <<alive, session, starts, exitVars, clients, outVars, callVars,
                 castVars, connVars, ptyVars>>

\* sessionOnce.Do: the first caller runs initializeSession ...
OnceEnter(h) ==
  /\ pc[h] = "once" /\ sessionOnce = "idle"
  /\ sessionOnce' = "busy"
  /\ Goto(h, "init")
  /\ UNCHANGED <<alive, session, starts, exitVars, clients, outVars, callVars,
                 castVars, connVars, ptyVars>>

\* ... and every other one waits until it has returned, whatever it returned.
OnceSkip(h) == pc[h] = "once" /\ sessionOnce = "done" /\ Move(h, "post")

\* Seeded fault: the new session does not say that it runs.
InitializeSessionNotRunning(h) ==
  /\ pc[h] = "init"
  /\ sessionOnce' = "done" /\ session' = TRUE /\ starts' = starts + 1
  /\ child' = "running"
  /\ pc' = [pc EXCEPT ![h] = "post", !["reader"] = "poll", !["waiter"] = "wait"]
  /\ UNCHANGED <<alive, exitVars, clients, outVars, callVars, castVars,
                 connVars, produced, taken, keys>>

\* initializeSession starts OpenCode, publishes the session and starts the
\* reader and the waiter.
InitializeSession(h) ==
  /\ pc[h] = "init"
  /\ sessionOnce' = "done" /\ session' = TRUE /\ starts' = starts + 1
  /\ isRunning' = TRUE
  /\ child' = "running"
  /\ pc' = [pc EXCEPT ![h] = "post", !["reader"] = "poll", !["waiter"] = "wait"]
  /\ UNCHANGED <<alive, doneClosed, clients, outVars, callVars, castVars,
                 connVars, produced, taken, keys>>

\* pty.StartWithSize fails (no opencode, no working directory): this caller
\* gets the error, session stays nil and the Once is used up.
InitializeSessionFails(h) ==
  /\ pc[h] = "init"
  /\ sessionOnce' = "done"
  /\ Return(h, "error")
  /\ UNCHANGED <<session, starts, clients, ptyVars>>

\* After the Once: resize a running session; session.workDir (in /init) and
\* session.AddClient (in /ws) dereference the pointer, nil or not.
Post(h) ==
  /\ pc[h] = "post" /\ session
  /\ isRunning => MuFree
  /\ IF h \in Conns THEN Move(h, "join") ELSE Finish(h, "ok")

PostNil(h) == pc[h] = "post" /\ ~session /\ Finish(h, "panic")

-----------------------------------------------------------------------------
(* The WebSocket handler's loop.                                            *)

AddClient(c) ==
  /\ pc[c] = "join"
  /\ ClientsMuFree
  /\ clients' = clients \cup {c}
  /\ Goto(c, "hello")
  /\ UNCHANGED <<alive, onceVars, exitVars, outVars, callVars, castVars,
                 connVars, ptyVars>>

\* conn.WriteJSON(pong): the greeting, and the answer to a ping. No lock.
BeginReply(c) ==
  /\ \/ pc[c] = "hello"
     \/ pc[c] = "serve" /\ "ping" \in Messages /\ conn[c] \in Open
  /\ Move(c, "reply")

\* The reply sets no deadline of its own. The one an earlier Broadcast left
\* on the connection still counts, and once it is past the write fails at once
\* and for good; without one, a write to a peer that does not read waits.
EndReply(c) ==
  /\ pc[c] = "reply"
  /\ conn[c] = "stalled" => deadline[c] = "past"
  /\ Goto(c, "serve")
  /\ Connection(c, IF conn[c] \in {"up", "stalled"} /\ deadline[c] = "past"
                   THEN "dead" ELSE conn[c])

\* A data or a resize message arrives.
WsData(c) ==
  /\ pc[c] = "serve" /\ conn[c] \in Open
  /\ Messages \cap {"data", "resize"} # {}
  /\ Move(c, "lock")

\* conn.ReadMessage fails: leave the loop ...
WsReadFails(c) == pc[c] = "serve" /\ conn[c] = "down" /\ Move(c, "leave")

\* Seeded fault: no deferred RemoveClient.
RemoveClientForgotten(c) == pc[c] = "leave" /\ Finish(c, "ok")

\* ... unregister and close, in the order of the deferred calls.
RemoveClient(c) ==
  /\ pc[c] = "leave"
  /\ ClientsMuFree
  /\ clients' = clients \ {c}
  /\ Return(c, "ok")
  /\ UNCHANGED <<onceVars, ptyVars>>

-----------------------------------------------------------------------------
(* Typing: WebSocket messages, /write, /writeread and /resize.              *)

\* session == nil || !session.isRunning, read without the lock.
Check(r) ==
  /\ pc[r] = "check" /\ kind[r] \in {"write", "writeread", "resize"}
  /\ IF session /\ isRunning THEN Move(r, "lock") ELSE Finish(r, "error")

\* session.mu.Lock(): a resize is over at once, a write may have to wait.
Lock(h) ==
  /\ pc[h] = "lock"
  /\ MuFree
  /\ IF h \in Requests /\ kind[h] = "resize"
     THEN Finish(h, "ok")
     ELSE (h \in Conns => "data" \in Messages) /\ Move(h, "write")

WsResize(c) ==
  pc[c] = "lock" /\ MuFree /\ "resize" \in Messages /\ Move(c, "serve")

\* session.ptmx.Write goes through once the terminal has room ...
PtyWrite(h) ==
  /\ pc[h] = "write"
  /\ child = "running" /\ keys < KeyCap
  /\ keys' = keys + 1
  /\ IF h \in Requests /\ kind[h] = "write"
     THEN Return(h, "ok")
     ELSE /\ Goto(h, IF h \in Conns THEN "serve" ELSE "flags")
          /\ UNCHANGED <<alive, exitVars, outVars, callVars, castVars, connVars>>
  /\ UNCHANGED <<onceVars, clients, child, produced, taken>>

\* Seeded fault: a failed write is tried again, with the lock held.
PtyWriteFailsRetries(h) ==
  pc[h] = "write" /\ child = "exited" /\ Move(h, "write")

\* ... and fails once the other end of the terminal is gone.
PtyWriteFails(h) ==
  /\ pc[h] = "write"
  /\ child = "exited"
  /\ IF h \in Conns THEN Move(h, "serve") ELSE Finish(h, "error")

-----------------------------------------------------------------------------
(* Polling: /read, the second half of /writeread, and /status.              *)

ReadCheck(r) ==
  /\ pc[r] = "check" /\ kind[r] = "read"
  /\ IF session THEN Move(r, "flags") ELSE Finish(r, "error")

\* isRunning and exitCode are read under mu.RLock, before the buffer ...
ReadFlags(r) ==
  /\ pc[r] = "flags"
  /\ MuRFree
  /\ answer' = [answer EXCEPT ![r] = IF isRunning THEN "ok" ELSE "exit"]
  /\ Goto(r, "drain")
  /\ UNCHANGED <<alive, onceVars, exitVars, clients, outVars, kind, castVars,
                 connVars, ptyVars>>

\* Seeded fault: what was returned stays in the buffer.
DrainKeeps(r) ==
  /\ pc[r] = "drain"
  /\ drained' = drained \o buffer
  /\ Goto(r, "done")
  /\ UNCHANGED <<alive, onceVars, exitVars, clients, buffer, callVars,
                 castVars, connVars, ptyVars>>

\* ... whose content goes to this request and to no other.
Drain(r) ==
  /\ pc[r] = "drain"
  /\ drained' = drained \o buffer
  /\ buffer' = BufAfterRead
  /\ Goto(r, "done")
  /\ UNCHANGED <<alive, onceVars, exitVars, clients, callVars, castVars,
                 connVars, ptyVars>>

\* /status takes clientsMu while it holds session.mu, both as a reader.
StatusLocks(r) ==
  /\ pc[r] = "check" /\ kind[r] = "status"
  /\ IF session THEN MuRFree /\ Move(r, "count") ELSE Finish(r, "ok")

StatusCounts(r) ==
  /\ pc[r] = "count"
  /\ ClientsMuFree \/ \A c \in Conns : pc[c] \notin {"join", "leave"}
  /\ Finish(r, "ok")

-----------------------------------------------------------------------------
(* readPTYOutput.                                                           *)

\* select: return when done is closed, else go and read.
ReaderPoll ==
  /\ pc["reader"] = "poll"
  /\ Move("reader", IF doneClosed THEN "stopped" ELSE "read")

\* Seeded fault: what Read returns is taken for output even when it is none.
ReaderReadUnchecked ==
  /\ pc["reader"] = "read"
  /\ taken' = taken + 1
  /\ Goto("reader", "store")
  /\ UNCHANGED <<alive, onceVars, exitVars, clients, outVars, callVars,
                 castVars, connVars, child, produced, keys>>

ReaderRead ==
  /\ pc["reader"] = "read"
  /\ taken < produced
  /\ taken' = taken + 1
  /\ Goto("reader", "store")
  /\ UNCHANGED <<alive, onceVars, exitVars, clients, outVars, callVars,
                 castVars, connVars, child, produced, keys>>

\* Nothing is left and the terminal's other end is closed: EIO.
ReaderReadFails ==
  /\ pc["reader"] = "read"
  /\ taken = produced /\ child = "exited"
  /\ Move("reader", "stopped")

\* Seeded fault: output that is streamed to somebody is not kept.
ReaderStoreUnwatched ==
  /\ pc["reader"] = "store"
  /\ buffer' = IF clients = {} THEN BufWrite(buffer, <<taken>>) ELSE buffer
  /\ Goto("reader", "bcast")
  /\ UNCHANGED <<alive, onceVars, exitVars, clients, drained, callVars,
                 castVars, connVars, ptyVars>>

ReaderStore ==
  /\ pc["reader"] = "store"
  /\ buffer' = BufWrite(buffer, <<taken>>)
  /\ Goto("reader", "bcast")
  /\ UNCHANGED <<alive, onceVars, exitVars, clients, drained, callVars,
                 castVars, connVars, ptyVars>>

-----------------------------------------------------------------------------
(* Broadcast, called by the reader and by the waiter.                       *)

\* clientsMu.RLock
CastBegin(g) ==
  /\ pc[g] = "bcast"
  /\ todo' = [todo EXCEPT ![g] = clients]
  /\ Goto(g, "cast")
  /\ UNCHANGED <<alive, onceVars, exitVars, clients, outVars, callVars, at,
                 wire, toldExit, connVars, ptyVars>>

\* SetWriteDeadline and enter WriteMessage, in the map's order: any.
CastSend(g, c) ==
  /\ pc[g] = "cast" /\ at[g] = NoOne /\ c \in todo[g]
  /\ at' = [at EXCEPT ![g] = c]
  /\ todo' = [todo EXCEPT ![g] = @ \ {c}]
  /\ deadline' = [deadline EXCEPT ![c] = "ahead"]
  /\ UNCHANGED <<alive, pc, onceVars, exitVars, clients, outVars, callVars,
                 wire, toldExit, conn, ptyVars>>

\* The message reaches the client ...
CastSent(g) ==
  /\ pc[g] = "cast" /\ at[g] # NoOne /\ conn[at[g]] = "up"
  /\ IF g = "reader"
     THEN /\ wire' = [wire EXCEPT ![at[g]] = Append(@, taken)]
          /\ UNCHANGED toldExit
     ELSE toldExit' = toldExit \cup {at[g]} /\ UNCHANGED wire
  /\ at' = [at EXCEPT ![g] = NoOne]
  /\ UNCHANGED <<alive, pc, onceVars, exitVars, clients, outVars, callVars,
                 todo, connVars, ptyVars>>

\* Seeded fault: the first client whose write fails ends the loop.
CastSendFailsReturns(g) ==
  /\ pc[g] = "cast" /\ at[g] # NoOne /\ conn[at[g]] # "up"
  /\ conn' = [conn EXCEPT ![at[g]] = IF @ = "stalled" THEN "dead" ELSE @]
  /\ at' = [at EXCEPT ![g] = NoOne]
  /\ todo' = [todo EXCEPT ![g] = {}]
  /\ UNCHANGED <<alive, pc, onceVars, exitVars, clients, outVars, callVars,
                 wire, toldExit, deadline, ptyVars>>

\* Seeded fault: no write deadline, so only a closed connection fails a write.
CastSendFailsNoDeadline(g) ==
  /\ pc[g] = "cast" /\ at[g] # NoOne /\ conn[at[g]] \in {"dead", "down"}
  /\ at' = [at EXCEPT ![g] = NoOne]
  /\ UNCHANGED <<alive, pc, onceVars, exitVars, clients, outVars, callVars,
                 todo, wire, toldExit, connVars, ptyVars>>

\* ... or the write fails, at the latest when its deadline passes. The error
\* is logged; a connection that failed a write fails every later one.
CastSendFails(g) ==
  /\ pc[g] = "cast" /\ at[g] # NoOne /\ conn[at[g]] # "up"
  /\ conn' = [conn EXCEPT ![at[g]] = IF @ = "stalled" THEN "dead" ELSE @]
  /\ at' = [at EXCEPT ![g] = NoOne]
  /\ UNCHANGED <<alive, pc, onceVars, exitVars, clients, outVars, callVars,
                 todo, wire, toldExit, deadline, ptyVars>>

\* clientsMu.RUnlock
CastEnd(g) ==
  /\ pc[g] = "cast" /\ at[g] = NoOne /\ todo[g] = {}
  /\ Move(g, IF g = "reader" THEN "poll" ELSE "sleep")

Broadcast(g) ==
  \/ CastBegin(g)
  \/ \E c \in Conns : CastSend(g, c)
  \/ CastSent(g)
  \/ CastSendFails(g)
  \/ CastEnd(g)

\* gorilla/websocket panics in a goroutine that finds another one writing to
\* the same connection. net/http recovers a handler's panic and its deferred
\* calls run; in the reader or the waiter it ends the process.
ConcurrentWrite(g, c) ==
  /\ g \in Writers(c) /\ Writers(c) # {g}
  /\ IF g = c THEN Move(c, "leave") ELSE Halt

\* Or nobody notices, and the frames of the two mix into nothing readable.
Garble(c) ==
  /\ Cardinality(Writers(c)) > 1 /\ conn[c] = "up"
  /\ Connection(c, "dead") /\ UNCHANGED pc

-----------------------------------------------------------------------------
(* The waiter: cmd.Wait, record the exit, tell the clients, end the process.*)

WaiterWakes ==
  pc["waiter"] = "wait" /\ child = "exited" /\ Move("waiter", "flag")

\* Seeded fault: the exit is broadcast before it is recorded.
WaiterFlagsLate == pc["waiter"] = "flag" /\ MuFree /\ Move("waiter", "signal")

WaiterFlags ==
  /\ pc["waiter"] = "flag"
  /\ MuFree
  /\ isRunning' = FALSE
  /\ Goto("waiter", "signal")
  /\ UNCHANGED <<alive, onceVars, doneClosed, clients, outVars, callVars,
                 castVars, connVars, ptyVars>>

WaiterSignals ==
  /\ pc["waiter"] = "signal"
  /\ doneClosed' = TRUE
  /\ Goto("waiter", "bcast")
  /\ UNCHANGED <<alive, onceVars, isRunning, clients, outVars, callVars,
                 castVars, connVars, ptyVars>>

\* Half a second after the broadcast: os.Exit.
WaiterExits == pc["waiter"] = "sleep" /\ Halt

-----------------------------------------------------------------------------
(* OpenCode itself: it prints, reads its keyboard, and may end any time.    *)

OpenCode(c, p, k) ==
  /\ child = "running"
  /\ child' = c /\ produced' = p /\ keys' = k
  /\ UNCHANGED <<alive, pc, onceVars, exitVars, clients, outVars, callVars,
                 castVars, connVars, taken>>

ChildPrints == produced < MaxOutput /\ OpenCode(child, produced + 1, keys)
ChildReadsKey == keys > 0 /\ OpenCode(child, produced, keys - 1)
ChildExits == OpenCode("exited", produced, keys)

-----------------------------------------------------------------------------
Environment ==
  \/ \E c \in Conns :
       \/ Dial(c) \/ PeerClose(c) \/ PeerStalls(c) \/ DeadlinePasses(c)
       \/ AwaitInit(c) \/ AwaitFails(c) \/ WsData(c)
  \/ \E r \in Requests, k \in Kinds : Request(r, k)
  \/ ChildPrints \/ ChildReadsKey \/ ChildExits

Start(h) ==
  \/ OnceEnter(h) \/ OnceSkip(h)
  \/ InitializeSession(h) \/ InitializeSessionFails(h)
  \/ Post(h) \/ PostNil(h)

Type(h) == Lock(h) \/ PtyWrite(h) \/ PtyWriteFails(h)

Serve(c) ==
  \/ AddClient(c) \/ BeginReply(c) \/ EndReply(c) \/ WsResize(c)
  \/ WsReadFails(c) \/ RemoveClient(c)

Poll(r) ==
  \/ Check(r) \/ ReadCheck(r) \/ ReadFlags(r) \/ Drain(r)
  \/ StatusLocks(r) \/ StatusCounts(r)

Reader == ReaderPoll \/ ReaderRead \/ ReaderReadFails \/ ReaderStore

Waiter == WaiterWakes \/ WaiterFlags \/ WaiterSignals \/ WaiterExits

Bridge ==
  \/ \E h \in Handlers : Start(h) \/ Type(h)
  \/ \E c \in Conns : Serve(c) \/ Garble(c)
  \/ \E r \in Requests : Poll(r)
  \/ Reader
  \/ Waiter
  \/ \E g \in Casters : Broadcast(g)
  \/ \E g \in Goroutines, c \in Conns : ConcurrentWrite(g, c)

Next == Environment \/ Bridge

Spec == Init /\ [][Next]_vars

-----------------------------------------------------------------------------
(* Fairness. The Go scheduler runs every goroutine that can run, and a      *)
(* mutex that keeps being released is handed to whoever has waited for      *)
(* longest (starvation mode), hence strong fairness on the lock steps. The  *)
(* deadline ends a write to a peer that does not read. Of OpenCode only     *)
(* this much is assumed: it reads its keyboard while it runs. Nothing makes *)
(* peers call, type or leave, or OpenCode print or end.                     *)

TakesLock(h) ==
  \/ Post(h) \/ Lock(h) \/ ReadFlags(h)
  \/ h \in Requests /\ (StatusLocks(h) \/ StatusCounts(h))
  \/ h \in Conns /\ (WsResize(h) \/ AddClient(h) \/ RemoveClient(h))

Fairness ==
  /\ \A h \in Handlers :
       WF_vars(Start(h) \/ Type(h)) /\ SF_vars(TakesLock(h))
  /\ \A r \in Requests : WF_vars(Poll(r))
  /\ \A c \in Conns :
       /\ WF_vars(EndReply(c) \/ WsReadFails(c))
       /\ WF_vars(pc[c] = "hello" /\ BeginReply(c))
  /\ WF_vars(Reader)
  /\ WF_vars(Waiter) /\ SF_vars(WaiterFlags)
  /\ \A g \in Casters : WF_vars(Broadcast(g))
  /\ WF_vars(ChildReadsKey)

FairSpec == Spec /\ Fairness

-----------------------------------------------------------------------------
(* Properties.                                                              *)

Labels ==
  {"idle", "await", "once", "init", "post", "join", "hello", "serve", "reply",
   "leave", "check", "lock", "write", "flags", "drain", "count", "done", "poll",
   "read", "store", "bcast", "cast", "stopped", "wait", "flag", "signal",
   "sleep", "halted"}

\* Every variable holds what its declaration says.
TypeOK ==
  /\ alive \in BOOLEAN
  /\ pc \in [Goroutines -> Labels]
  /\ sessionOnce \in {"idle", "busy", "done"}
  /\ session \in BOOLEAN /\ starts \in Nat
  /\ isRunning \in BOOLEAN /\ doneClosed \in BOOLEAN
  /\ clients \in SUBSET Conns
  /\ buffer \in Seq(1..MaxOutput) /\ drained \in Seq(1..MaxOutput)
  /\ kind \in [Requests -> Kinds \cup {"none"}]
  /\ answer \in [Handlers -> {"none", "ok", "error", "exit", "panic"}]
  /\ todo \in [Casters -> SUBSET Conns]
  /\ at \in [Casters -> Conns \cup {NoOne}]
  /\ wire \in [Conns -> Seq(1..MaxOutput)] /\ toldExit \in SUBSET Conns
  /\ conn \in [Conns -> {"none", "up", "stalled", "dead", "down"}]
  /\ deadline \in [Conns -> {"none", "ahead", "past"}]
  /\ child \in {"none", "running", "exited"}
  /\ produced \in 0..MaxOutput /\ taken \in 0..produced /\ keys \in 0..KeyCap

\* However many /init requests and /ws connections race, OpenCode is started
\* at most once, by the one goroutine inside the Once, and until the session is
\* there nobody is registered, types or polls (sessionOnce.Do and the nil
\* checks of the handlers).
OneSession ==
  /\ starts = IF session THEN 1 ELSE 0
  /\ child # "none" <=> session
  /\ session => sessionOnce = "done"
  /\ \A h, k \in Handlers : pc[h] = "init" /\ pc[k] = "init" => h = k
  /\ ~session => /\ clients = {}
                 /\ \A g \in Casters : pc[g] = "idle"
                 /\ \A h \in Handlers : pc[h] \notin {"join", "lock", "write", "flags"}

\* The chunks put into the output buffer so far.
Stored == IF pc["reader"] = "store" THEN taken - 1 ELSE taken

\* Chunk m will not be returned by a read, now or later.
Lost(m) ==
  \A s \in {buffer, drained} : \A i \in 1..Len(s) : s[i] # m

\* The pollers together get every chunk at most once and in the order it was
\* printed, and a chunk is lost only to BufCap newer ones (OutputBuffer.Write
\* and Read, called by the reader and by any number of handlers).
BufferIsTail ==
  LET all == drained \o buffer
  IN  /\ \A i, j \in 1..Len(all) : i < j => all[i] < all[j]
      /\ alive => \A m \in 1..Stored : Lost(m) => m + BufCap <= Stored

\* The newest chunk that Broadcast is done with as far as client c goes.
CastTo(c) ==
  IF \/ pc["reader"] \in {"store", "bcast"}
     \/ pc["reader"] = "cast" /\ (at["reader"] = c \/ c \in todo["reader"])
  THEN taken - 1 ELSE taken

\* A registered client that reads what it is sent has, from the first chunk it
\* was sent, all of them in order, whatever happens to the other clients, to
\* the pollers and to the exit message (Broadcast, AddClient, RemoveClient).
StreamComplete ==
  \A c \in clients : conn[c] = "up" /\ wire[c] # << >> =>
    \A i \in 1..Len(wire[c]) : wire[c][i] = CastTo(c) - Len(wire[c]) + i

\* Whoever is told that the session ended, by the broadcast or by a poll, is
\* told the truth and can rely on it: OpenCode is gone, and a call that comes
\* after is refused (the waiter, handleRead, handleWriteRead).
ExitIsTrue ==
  toldExit # {} \/ (\E r \in Requests : answer[r] = "exit")
    => child = "exited" /\ ~isRunning

\* Once OpenCode has ended the bridge ends too, with the container, whatever
\* the clients do: a write that waits for the terminal is released, and a
\* client that does not read holds the broadcast up only until its deadline.
ExitEndsBridge == (child = "exited") ~> ~alive

\* Every request is answered unless the process ends first: no goroutine keeps
\* a lock that another one needs for ever.
RequestsAnswered ==
  \A r \in Requests : (pc[r] # "idle") ~> (pc[r] = "done" \/ ~alive)

\* A client whose connection is gone is unregistered.
GoneClientsLeave ==
  \A c \in Conns : (conn[c] = "down") ~> (c \notin clients \/ ~alive)

-----------------------------------------------------------------------------
(* What all this is for: TerminalSession, with nothing of the goroutines.   *)

Phase ==
  IF ~session THEN "none"
  ELSE IF ~alive THEN "over"
  ELSE IF child = "exited" THEN "exited" ELSE "running"

Told == toldExit \cup {r \in Requests : answer[r] = "exit"}

Terminal == INSTANCE TerminalSession
  WITH Clients <- Conns, Callers <- Requests, Keep <- BufCap,
       phase <- Phase, pending <- buffer, polled <- drained, seen <- wire,
       told <- Told

\* The bridge implements the session: whatever the goroutines do, what pollers
\* take and clients see is the one output of the one program, and each step of
\* the bridge is one of the session or none.
Implements == Terminal!Session
=============================================================================
