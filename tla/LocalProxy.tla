----------------------------- MODULE LocalProxy -----------------------------
(***************************************************************************)
(* The development proxy (packages/local-proxy/main.go): one process that  *)
(* gives every WebSocket of the relay a session on the one local           *)
(* container. A session has a handler, which initializes the container and *)
(* then waits for two goroutines: one polls GET /read and forwards each    *)
(* line, the other takes messages from the relay. Each may close the       *)
(* session's done channel.                                                 *)
(*                                                                         *)
(* Output is the sequence 1, 2, ... of chunks OpenCode prints. A line of a *)
(* response is what it shows: the chunks of a data message, 0 for an exit, *)
(* nothing for an error. data, resize and init messages all end in one     *)
(* POST /write whose outcome is ignored.                                   *)
(***************************************************************************)
EXTENDS Integers, Sequences

CONSTANTS Sessions,     \* WebSockets the relay may open
          Slow,         \* those whose relay may stop reading for a while
          MaxEvents     \* bound: chunks OpenCode prints and restarts of the
                        \* container, together

ASSUME LocalProxyAssumption ==
  Slow \subseteq Sessions /\ MaxEvents \in Nat

VARIABLES
  main,       \* each handler: "idle", "init", "wait", "ended"
  poll,       \* each output goroutine: "off", "check", "get", "write", "over"
  input,      \* each input goroutine: "off", "read", "post", "pong", "over"
  doneClosed, \* the sessions whose done is closed
  alive,      \* the process has not panicked
  lines,      \* what is left of the response each poller is forwarding
  conn,       \* each WebSocket: "none", "up", "stalled" (the relay does not
              \* read), "lost" (reads fail, writes may not), "down"
  wire,       \* the chunks each relay has been sent, and 0 for an exit
  took,       \* the chunks each session has taken from the container
  late,       \* responses each session took after its done was closed
  bridge,     \* the container: "fresh" (no session), "running", "exited", "down"
  buffer,     \* its output buffer
  printed,    \* chunks printed
  restarts    \* how often the container was restarted

procVars == <<main, poll, input, doneClosed, alive>>
lineVars == <<lines, wire, took, late>>
bridgeVars == <<bridge, buffer, printed, restarts>>
vars == <<procVars, lineVars, conn, bridgeVars>>

Exit == <<0>>
Error == << >>

Init ==
  /\ main = [s \in Sessions |-> "idle"]
  /\ poll = [s \in Sessions |-> "off"] /\ input = [s \in Sessions |-> "off"]
  /\ doneClosed = {} /\ alive = TRUE
  /\ lines = [s \in Sessions |-> << >>] /\ wire = [s \in Sessions |-> << >>]
  /\ took = [s \in Sessions |-> << >>] /\ late = [s \in Sessions |-> 0]
  /\ conn = [s \in Sessions |-> "none"]
  /\ bridge = "fresh" /\ buffer = << >> /\ printed = 0 /\ restarts = 0

-----------------------------------------------------------------------------
(* Steps of one goroutine that change nothing else.                         *)

PollGoto(s, l) ==
  /\ poll' = [poll EXCEPT ![s] = l]
  /\ UNCHANGED <<main, input, doneClosed, alive>>

InputGoto(s, l) ==
  /\ input' = [input EXCEPT ![s] = l]
  /\ UNCHANGED <<main, poll, doneClosed, alive>>

\* A panic in a goroutine ends the process, with all its sessions.
Panic ==
  /\ alive' = FALSE
  /\ main' = [s \in Sessions |-> "ended"]
  /\ poll' = [s \in Sessions |-> "over"] /\ input' = [s \in Sessions |-> "over"]
  /\ UNCHANGED doneClosed

\* close(done), and the goroutine returns. A second close panics.
PollCloses(s) ==
  IF s \in doneClosed THEN Panic
  ELSE /\ doneClosed' = doneClosed \cup {s}
       /\ poll' = [poll EXCEPT ![s] = "over"]
       /\ UNCHANGED <<main, input, alive>>

InputCloses(s) ==
  IF s \in doneClosed THEN Panic
  ELSE /\ doneClosed' = doneClosed \cup {s}
       /\ input' = [input EXCEPT ![s] = "over"]
       /\ UNCHANGED <<main, poll, alive>>

-----------------------------------------------------------------------------
(* The handler.                                                             *)

Connect(s) ==
  /\ alive /\ main[s] = "idle"
  /\ main' = [main EXCEPT ![s] = "init"]
  /\ conn' = [conn EXCEPT ![s] = "up"]
  /\ UNCHANGED <<poll, input, doneClosed, alive, lineVars, bridgeVars>>

\* POST /init succeeds, which starts OpenCode if it does not run.
InitAnswered(s) ==
  /\ main[s] = "init" /\ bridge # "down"
  /\ bridge' = IF bridge = "fresh" THEN "running" ELSE bridge
  /\ main' = [main EXCEPT ![s] = "wait"]
  /\ poll' = [poll EXCEPT ![s] = "check"]
  /\ input' = [input EXCEPT ![s] = "read"]
  /\ UNCHANGED <<doneClosed, alive, lineVars, conn, buffer, printed, restarts>>

\* The handler returns and its connection is closed.
Return(s) ==
  /\ main' = [main EXCEPT ![s] = "ended"]
  /\ conn' = [conn EXCEPT ![s] = "down"]
  /\ UNCHANGED <<poll, input, doneClosed, alive, lineVars, bridgeVars>>

\* No answer, or another status than 200: sendError.
InitFails(s) == main[s] = "init" /\ bridge \in {"fresh", "down"} /\ Return(s)

\* Seeded fault: the input goroutine is not added to the WaitGroup.
WaitEndsForOne(s) == main[s] = "wait" /\ poll[s] = "over" /\ Return(s)

\* wg.Wait
WaitEnds(s) ==
  main[s] = "wait" /\ poll[s] = "over" /\ input[s] = "over" /\ Return(s)

-----------------------------------------------------------------------------
(* The output goroutine.                                                    *)

\* Seeded fault: only the input goroutine looks at done.
PollCheckNever(s) ==
  poll[s] = "check" /\ PollGoto(s, "get") /\ UNCHANGED <<lineVars, conn, bridgeVars>>

PollCheck(s) ==
  /\ poll[s] = "check"
  /\ PollGoto(s, IF s \in doneClosed THEN "over" ELSE "get")
  /\ UNCHANGED <<lineVars, conn, bridgeVars>>

\* The body of GET /read: all the output there is and the exit, or an error.
Response ==
  IF bridge = "fresh" THEN <<Error>>
  ELSE (IF buffer = << >> THEN << >> ELSE <<buffer>>)
         \o (IF bridge = "exited" THEN <<Exit>> ELSE << >>)

\* WriteMessage comes next, or a sleep of 50 ms after the last line.
Following(ls) == IF ls = << >> THEN "check" ELSE "write"

PollAnswered(s) ==
  /\ poll[s] = "get" /\ bridge # "down"
  /\ lines' = [lines EXCEPT ![s] = Response]
  /\ took' = [took EXCEPT ![s] = @ \o buffer]
  /\ late' = [late EXCEPT ![s] = IF s \in doneClosed THEN @ + 1 ELSE @]
  /\ buffer' = << >>
  /\ PollGoto(s, Following(Response))
  /\ UNCHANGED <<wire, conn, bridge, printed, restarts>>

\* http.Get fails: try again after 100 ms.
PollFails(s) ==
  /\ poll[s] = "get" /\ bridge = "down"
  /\ PollGoto(s, "check")
  /\ UNCHANGED <<lineVars, conn, bridgeVars>>

\* The next line reaches a relay that reads.
Sent(s) ==
  wire' = IF conn[s] = "up" THEN [wire EXCEPT ![s] = @ \o Head(lines[s])] ELSE wire

\* Seeded fault: a write that takes long is given up and the next line sent.
PollWritesInTime(s) ==
  /\ poll[s] = "write" /\ conn[s] # "down"
  /\ lines' = [lines EXCEPT ![s] = Tail(@)]
  /\ Sent(s)
  /\ IF Head(lines[s]) = Exit THEN PollCloses(s) ELSE PollGoto(s, Following(lines'[s]))
  /\ UNCHANGED <<took, late, conn, bridgeVars>>

\* Seeded fault: a break leaves the loop over the lines and not the goroutine.
PollWritesBreak(s) ==
  /\ poll[s] = "write" /\ conn[s] \in {"up", "lost"}
  /\ lines' = [lines EXCEPT ![s] = Tail(@)]
  /\ Sent(s)
  /\ PollGoto(s, Following(lines'[s]))
  /\ UNCHANGED <<took, late, conn, bridgeVars>>

\* WriteMessage returns without an error; on a lost connection for nothing.
\* After an exit the goroutine closes done and returns.
PollWrites(s) ==
  /\ poll[s] = "write" /\ conn[s] \in {"up", "lost"}
  /\ lines' = [lines EXCEPT ![s] = Tail(@)]
  /\ Sent(s)
  /\ IF Head(lines[s]) = Exit THEN PollCloses(s) ELSE PollGoto(s, Following(lines'[s]))
  /\ UNCHANGED <<took, late, conn, bridgeVars>>

\* WriteMessage fails: return, and done stays as it is.
PollWriteFails(s) ==
  /\ poll[s] = "write" /\ conn[s] \in {"lost", "down"}
  /\ PollGoto(s, "over")
  /\ UNCHANGED <<lineVars, conn, bridgeVars>>

-----------------------------------------------------------------------------
(* The input goroutine.                                                     *)

\* A message: data, resize and init go to /write and a ping is answered. One
\* that is dropped is a /write that takes no time.
InputReads(s) ==
  /\ input[s] = "read" /\ conn[s] \in {"up", "stalled"}
  /\ \E l \in {"post", "pong"} : InputGoto(s, l)
  /\ UNCHANGED <<lineVars, conn, bridgeVars>>

\* POST /write ends in whatever way, or the pong is written or its error
\* ignored; then select looks at done.
InputGoesOn(s) ==
  /\ input[s] \in {"post", "pong"}
  /\ input[s] = "pong" => conn[s] # "stalled"
  /\ InputGoto(s, IF s \in doneClosed THEN "over" ELSE "read")
  /\ UNCHANGED <<lineVars, conn, bridgeVars>>

\* Seeded fault: the goroutine returns and leaves done open.
InputFailsQuietly(s) ==
  /\ input[s] = "read" /\ conn[s] \in {"lost", "down"}
  /\ InputGoto(s, "over")
  /\ UNCHANGED <<lineVars, conn, bridgeVars>>

\* ReadMessage fails: the relay is gone.
InputFails(s) ==
  /\ input[s] = "read" /\ conn[s] \in {"lost", "down"}
  /\ InputCloses(s)
  /\ UNCHANGED <<lineVars, conn, bridgeVars>>

\* Two goroutines in WriteMessage of one connection: gorilla/websocket panics
\* when it notices, and otherwise the relay cannot read what arrives.
Writing(s) == poll[s] = "write" /\ input[s] = "pong"

ConcurrentWrite(s) ==
  Writing(s) /\ Panic /\ UNCHANGED <<lineVars, conn, bridgeVars>>

Conn(s, c) ==
  conn' = [conn EXCEPT ![s] = c] /\ UNCHANGED <<procVars, lineVars, bridgeVars>>

Garble(s) == Writing(s) /\ conn[s] = "up" /\ Conn(s, "lost")

-----------------------------------------------------------------------------
(* The relay, and the container.                                            *)

RelayStalls(s) == s \in Slow /\ conn[s] = "up" /\ Conn(s, "stalled")
RelayReads(s) == conn[s] = "stalled" /\ Conn(s, "up")
RelayLeaves(s) ==
  conn[s] \in {"up", "stalled"} /\ \E c \in {"lost", "down"} : Conn(s, c)

Bridge(b, buf, p, r) ==
  /\ bridge' = b /\ buffer' = buf /\ printed' = p /\ restarts' = r
  /\ UNCHANGED <<procVars, lineVars, conn>>

Prints ==
  /\ bridge = "running" /\ printed + restarts < MaxEvents
  /\ Bridge(bridge, Append(buffer, printed + 1), printed + 1, restarts)
Exits == bridge = "running" /\ Bridge("exited", buffer, printed, restarts)
GoesDown == bridge \in {"running", "exited"} /\ Bridge("down", << >>, printed, restarts)
Restarts ==
  /\ bridge = "down" /\ printed + restarts < MaxEvents
  /\ Bridge("fresh", << >>, printed, restarts + 1)

-----------------------------------------------------------------------------
Handler(s) == InitAnswered(s) \/ InitFails(s) \/ WaitEnds(s)

Poller(s) ==
  \/ PollCheck(s) \/ PollAnswered(s) \/ PollFails(s)
  \/ PollWrites(s) \/ PollWriteFails(s)

Input(s) == InputGoesOn(s) \/ InputFails(s)

Races(s) == ConcurrentWrite(s) \/ Garble(s)

Relay(s) ==
  Connect(s) \/ InputReads(s) \/ RelayStalls(s) \/ RelayReads(s) \/ RelayLeaves(s)

Container == Prints \/ Exits \/ GoesDown \/ Restarts

Next ==
  \/ \E s \in Sessions : Handler(s) \/ Poller(s) \/ Input(s) \/ Races(s) \/ Relay(s)
  \/ Container

Spec == Init /\ [][Next]_vars

\* Goroutines run, and calls of the container end: http.Get and http.Post
\* have no timeout, so this is a promise of the bridge, not of the proxy.
FairSpec ==
  /\ Spec
  /\ \A s \in Sessions :
       WF_vars(Handler(s)) /\ WF_vars(Poller(s)) /\ WF_vars(Input(s))

-----------------------------------------------------------------------------
Chunks == 1 .. MaxEvents
Lines == Seq(0 .. MaxEvents)

\* A goroutine of the session runs.
Running(s) == poll[s] \notin {"off", "over"} \/ input[s] \notin {"off", "over"}

\* Every variable has its type, and goroutines run only under a handler that
\* waits for them: nobody writes to a connection the handler has closed.
TypeOK ==
  /\ main \in [Sessions -> {"idle", "init", "wait", "ended"}]
  /\ poll \in [Sessions -> {"off", "check", "get", "write", "over"}]
  /\ input \in [Sessions -> {"off", "read", "post", "pong", "over"}]
  /\ doneClosed \subseteq Sessions /\ alive \in BOOLEAN
  /\ lines \in [Sessions -> Seq(Lines)] /\ wire \in [Sessions -> Lines]
  /\ took \in [Sessions -> Seq(Chunks)] /\ late \in [Sessions -> Nat]
  /\ conn \in [Sessions -> {"none", "up", "stalled", "lost", "down"}]
  /\ \A s \in Sessions : Running(s) => main[s] = "wait" /\ conn[s] # "none"
  /\ bridge \in {"fresh", "running", "exited", "down"}
  /\ buffer \in Seq(Chunks)
  /\ printed \in Nat /\ restarts \in Nat /\ printed + restarts \in 0 .. MaxEvents

\* The chunks in what was sent, without the exit that ends it, and in what is
\* left of a response, of which they are the first line.
Shown(q) == IF q # << >> /\ q[Len(q)] = 0 THEN SubSeq(q, 1, Len(q) - 1) ELSE q
Left(ls) == IF ls = << >> THEN << >> ELSE Shown(Head(ls))

\* A read empties the container's buffer, so what a session took must reach
\* its relay: while the relay is connected, slow or not, every chunk taken was
\* sent or is about to be, in the order it was printed (main.go 103-133).
TakenIsForwarded ==
  \A s \in Sessions : alive /\ conn[s] \in {"up", "stalled"} =>
    took[s] = Shown(wire[s]) \o Left(lines[s])

\* The exit is the last that a session's output goroutine sends: output behind
\* it would be for a relay that has closed its own done (main.go 124-131). Pongs,
\* which the input goroutine sends, may still follow.
ExitIsLast ==
  \A s \in Sessions : \A i \in DOMAIN wire[s] :
    wire[s][i] = 0 => i = Len(wire[s]) /\ s \in doneClosed

\* All sessions read one container, so one that is ending takes output away from
\* the others: once its done is closed, by whichever goroutine, it does so at most
\* once more (main.go 97-114, 154). Between the relay's leaving and that the input
\* goroutine may sit in a POST, and the poller takes on.
LateTakesOnce == \A s \in Sessions : late[s] <= 1

\* When the relay is gone the session ends: neither goroutine is left behind
\* polling or reading, and the handler returns (wg.Wait, main.go 206).
SessionEnds ==
  \A s \in Sessions :
    (main[s] = "wait" /\ conn[s] \in {"lost", "down"}) ~> (main[s] = "ended")

-----------------------------------------------------------------------------
(* What the sessions promise each other: SharedOutput.                      *)

Ended == {s \in Sessions : wire[s] # << >> /\ wire[s][Len(wire[s])] = 0}
Gone == {s \in Sessions : conn[s] \in {"lost", "down"}}

Output == INSTANCE SharedOutput
  WITH Readers <- Sessions, printed <- printed, pending <- buffer, taken <- took,
       shown <- [s \in Sessions |-> Shown(wire[s])], gone <- Gone, ended <- Ended

\* The sessions share one container and its output: each chunk goes to one
\* session, which sends it on before it asks for more; its exit comes after
\* all it took, nothing comes after its exit, and a session whose relay has
\* left hands nothing back (main.go 103-133).
SharesOutput == Output!Sharing

-----------------------------------------------------------------------------
(* What the repository says and the code does not do.                       *)

\* main.go:1: the proxy "simulates the Cloudflare Worker", where each session
\* has an object of its own. When the relay hangs up, which it does after every
\* exit, that session ends and the process goes on with the others.
HangUpEndsOneSession == [][\A s \in Sessions : InputFails(s) => alive']_vars
=============================================================================
