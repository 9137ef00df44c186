---------------------------- MODULE RelaySession ----------------------------
(***************************************************************************)
(* One SSH session in the relay (packages/ssh-relay/internal/session       *)
(* /handler.go): main dials the worker, sends init and starts four         *)
(* goroutines, which ping, forward keys, show output and forward window    *)
(* changes until "done" is closed or their own peer is gone. All write to  *)
(* one WebSocket through safeConn's mutex; main waits for all of them.     *)
(*                                                                         *)
(* Messages from the worker are "data" (and all else that is only shown)   *)
(* and "exit".                                                             *)
(***************************************************************************)
EXTENDS Naturals, Sequences, FiniteSets

CONSTANTS Pings,      \* cfg.PingInterval > 0
          Free,       \* nobody holds the mutex
          MaxKeys,    \* bound: reads of keystrokes
          MaxWins,    \* bound: window changes
          MaxIn       \* bound: messages the worker sends

Senders == {"ping", "input", "resize"}
Routines == Senders \cup {"output"}

ASSUME RelaySessionAssumption ==
  /\ Pings \in BOOLEAN /\ Free \notin Routines
  /\ MaxKeys \in Nat /\ MaxWins \in Nat /\ MaxIn \in Nat

VARIABLES
  main,     \* "start", "init", "wait", "ended"
  pc,       \* what each goroutine waits for
  done,     \* the channel is closed
  mu,       \* who holds safeConn.mu
  ws,       \* the WebSocket: "none", "up", "broken" (there), "closed" (here)
  inbox,    \* the worker's messages that wait to be read
  received, \* how many the worker has sent
  stdin,    \* reads of keystrokes that wait
  keys,     \* how many there have been
  winch,    \* window changes in the channel, which holds one
  wins,     \* how many there have been
  hungup    \* the SSH client is gone: s.Read and s.Write fail, winCh is closed

wireVars == <<ws, inbox, received>>
sshVars == <<stdin, keys, winch, wins, hungup>>
vars == <<main, pc, done, mu, wireVars, sshVars>>

Init ==
  /\ main = "start" /\ pc = [g \in Routines |-> "none"]
  /\ done = FALSE /\ mu = Free
  /\ ws = "none" /\ inbox = << >> /\ received = 0
  /\ stdin = 0 /\ keys = 0 /\ winch = 0 /\ wins = 0 /\ hungup = FALSE

Goto(g, l) == pc' = [pc EXCEPT ![g] = l]

-----------------------------------------------------------------------------
(* main                                                                     *)

\* No key, no PTY, no worker or no init message sent: tell, Exit(1), close.
GivesUp ==
  /\ main \in {"start", "init"}
  /\ main = "init" => ws = "broken"
  /\ main' = "ended"
  /\ ws' = IF main = "init" THEN "closed" ELSE ws
  /\ UNCHANGED <<pc, done, mu, inbox, received, sshVars>>

Dials ==
  /\ main = "start"
  /\ main' = "init" /\ ws' = "up"
  /\ UNCHANGED <<pc, done, mu, inbox, received, sshVars>>

\* Send init and start the goroutines.
Begins ==
  /\ main = "init"
  /\ main' = "wait"
  /\ pc' = [ping |-> IF Pings THEN "select" ELSE "over", input |-> "select",
            resize |-> "select", output |-> "read"]
  /\ UNCHANGED <<done, mu, wireVars, sshVars>>

\* Seeded fault: wait for done instead of the goroutines.
EndsOnDone ==
  /\ main = "wait" /\ done
  /\ main' = "ended" /\ ws' = "closed"
  /\ UNCHANGED <<pc, done, mu, inbox, received, sshVars>>

\* wg.Wait, then Exit(0) and the deferred Close.
Ends ==
  /\ main = "wait" /\ \A g \in Routines : pc[g] = "over"
  /\ main' = "ended" /\ ws' = "closed"
  /\ UNCHANGED <<pc, done, mu, inbox, received, sshVars>>

-----------------------------------------------------------------------------
(* safeConn.WriteMessage: closed is set only after all goroutines are over. *)

\* Seeded fault: no mutex.
LocksNothing(g) ==
  /\ pc[g] = "lock"
  /\ mu' = g /\ Goto(g, "write")
  /\ UNCHANGED <<main, done, wireVars, sshVars>>

Locks(g) ==
  /\ pc[g] = "lock" /\ mu = Free
  /\ mu' = g /\ Goto(g, "write")
  /\ UNCHANGED <<main, done, wireVars, sshVars>>

\* The write succeeds, into the kernel's buffer if nowhere else ...
Writes(g) ==
  /\ pc[g] = "write"
  /\ mu' = Free /\ Goto(g, "select")
  /\ UNCHANGED <<main, done, wireVars, sshVars>>

\* ... or fails, and the goroutine returns.
WriteFails(g) ==
  /\ pc[g] = "write" /\ ws = "broken"
  /\ mu' = Free /\ Goto(g, "over")
  /\ UNCHANGED <<main, done, wireVars, sshVars>>

-----------------------------------------------------------------------------
(* The goroutines. A select takes any of its cases that is ready.           *)

\* case <-done, in each of the loops that send
SeesDone(g) ==
  /\ pc[g] = "select" /\ done
  /\ Goto(g, "over")
  /\ UNCHANGED <<main, done, mu, wireVars, sshVars>>

\* case <-ticker.C
Ticks ==
  /\ pc["ping"] = "select"
  /\ Goto("ping", "lock")
  /\ UNCHANGED <<main, done, mu, wireVars, sshVars>>

\* default: go into s.Read, whatever done does from here on ...
InputWaits ==
  /\ pc["input"] = "select" /\ ~done
  /\ Goto("input", "read")
  /\ UNCHANGED <<main, done, mu, wireVars, sshVars>>

\* Seeded fault: the read returns without keys.
InputReadsNothing ==
  /\ pc["input"] = "read"
  /\ stdin' = stdin - 1
  /\ Goto("input", "lock")
  /\ UNCHANGED <<main, done, mu, wireVars, keys, winch, wins, hungup>>

\* ... until there are keys, or none to come.
InputReads ==
  /\ pc["input"] = "read" /\ stdin > 0
  /\ stdin' = stdin - 1
  /\ Goto("input", "lock")
  /\ UNCHANGED <<main, done, mu, wireVars, keys, winch, wins, hungup>>

InputEnds ==
  /\ pc["input"] = "read" /\ stdin = 0 /\ hungup
  /\ Goto("input", "over")
  /\ UNCHANGED <<main, done, mu, wireVars, sshVars>>

\* case win, ok := <-winCh
ResizeReads ==
  /\ pc["resize"] = "select" /\ winch > 0
  /\ winch' = 0
  /\ Goto("resize", "lock")
  /\ UNCHANGED <<main, done, mu, wireVars, stdin, keys, wins, hungup>>

ResizeEnds ==
  /\ pc["resize"] = "select" /\ winch = 0 /\ hungup
  /\ Goto("resize", "over")
  /\ UNCHANGED <<main, done, mu, wireVars, sshVars>>

OutputReads ==
  /\ pc["output"] = "read" /\ inbox # << >> /\ Head(inbox) = "data"
  /\ inbox' = Tail(inbox)
  /\ Goto("output", "show")
  /\ UNCHANGED <<main, done, mu, ws, received, sshVars>>

\* s.Write, whose error nobody looks at
OutputShows ==
  /\ pc["output"] = "show"
  /\ Goto("output", "read")
  /\ UNCHANGED <<main, done, mu, wireVars, sshVars>>

\* Seeded fault: close(done), and the loop goes on.
OutputExitsGoesOn ==
  /\ pc["output"] = "read" /\ inbox # << >> /\ Head(inbox) = "exit"
  /\ inbox' = Tail(inbox)
  /\ done' = TRUE
  /\ UNCHANGED <<main, pc, mu, ws, received, sshVars>>

OutputExits ==
  /\ pc["output"] = "read" /\ inbox # << >> /\ Head(inbox) = "exit"
  /\ inbox' = Tail(inbox)
  /\ done' = TRUE
  /\ Goto("output", "over")
  /\ UNCHANGED <<main, mu, ws, received, sshVars>>

\* Seeded fault: return without close(done).
OutputFailsSilently ==
  /\ pc["output"] = "read" /\ ws = "broken"
  /\ Goto("output", "over")
  /\ UNCHANGED <<main, done, mu, wireVars, sshVars>>

\* ReadMessage fails, with or without what the worker sent before.
OutputFails ==
  /\ pc["output"] = "read" /\ ws = "broken"
  /\ done' = TRUE
  /\ Goto("output", "over")
  /\ UNCHANGED <<main, mu, wireVars, sshVars>>

-----------------------------------------------------------------------------
(* The worker and the SSH client.                                           *)

WorkerSends(m) ==
  /\ ws = "up" /\ received < MaxIn
  /\ inbox' = Append(inbox, m) /\ received' = received + 1
  /\ UNCHANGED <<main, pc, done, mu, ws, sshVars>>

WorkerBreaks ==
  /\ ws = "up"
  /\ ws' = "broken"
  /\ UNCHANGED <<main, pc, done, mu, inbox, received, sshVars>>

UserTypes ==
  /\ main # "ended" /\ ~hungup /\ keys < MaxKeys
  /\ stdin' = stdin + 1 /\ keys' = keys + 1
  /\ UNCHANGED <<main, pc, done, mu, wireVars, winch, wins, hungup>>

\* The SSH library waits while the channel is full.
UserResizes ==
  /\ main # "ended" /\ ~hungup /\ wins < MaxWins /\ winch = 0
  /\ winch' = 1 /\ wins' = wins + 1
  /\ UNCHANGED <<main, pc, done, mu, wireVars, stdin, keys, hungup>>

UserHangsUp ==
  /\ main # "ended" /\ ~hungup
  /\ hungup' = TRUE
  /\ UNCHANGED <<main, pc, done, mu, wireVars, stdin, keys, winch, wins>>

-----------------------------------------------------------------------------
Main == GivesUp \/ Dials \/ Begins \/ Ends

Sends(g) == Locks(g) \/ Writes(g) \/ WriteFails(g) \/ SeesDone(g)

Input == InputWaits \/ InputReads \/ InputEnds
Resize == ResizeReads \/ ResizeEnds
Output == OutputReads \/ OutputShows \/ OutputExits \/ OutputFails

Peers ==
  \/ \E m \in {"data", "exit"} : WorkerSends(m)
  \/ WorkerBreaks
  \/ UserTypes \/ UserResizes \/ UserHangsUp

Next ==
  \/ Main \/ Ticks \/ Input \/ Resize \/ Output \/ Peers
  \/ \E g \in Senders : Sends(g)

Spec == Init /\ [][Next]_vars

\* The Go scheduler runs every goroutine, the ticker ticks, writes end, and a
\* select that finds done closed again and again takes it (it chooses at
\* random); nothing is assumed of the peers.
FairSpec ==
  /\ Spec
  /\ WF_vars(Main) /\ WF_vars(Ticks)
  /\ WF_vars(Input) /\ WF_vars(Resize) /\ WF_vars(Output)
  /\ \A g \in Senders : WF_vars(Sends(g))
  /\ SF_vars(SeesDone("ping"))

-----------------------------------------------------------------------------
\* Every variable has its type.
TypeOK ==
  /\ main \in {"start", "init", "wait", "ended"}
  /\ pc \in [Routines -> {"none", "select", "read", "lock", "write", "show", "over"}]
  /\ done \in BOOLEAN /\ mu \in Senders \cup {Free}
  /\ ws \in {"none", "up", "broken", "closed"}
  /\ inbox \in Seq({"data", "exit"}) /\ received \in 0 .. MaxIn
  /\ keys \in 0 .. MaxKeys /\ stdin \in 0 .. keys
  /\ winch \in 0 .. 1 /\ wins \in 0 .. MaxWins /\ hungup \in BOOLEAN

\* gorilla/websocket allows one writer at a time: pings, keys and window
\* changes never write at once (safeConn, lines 28-45).
OneWriter ==
  \A g, h \in Senders : pc[g] = "write" /\ pc[h] = "write" => g = h

\* After Exit(0) and Close nothing reads or writes the session or the
\* WebSocket any more (256-259).
NothingAfterEnd ==
  main = "ended" =>
    /\ \A g \in Routines : pc[g] \in {"none", "over"}
    /\ ws \in {"none", "closed"} /\ mu = Free

\* done is closed once: a second close would panic, and with one session's
\* goroutine the whole relay would end. An exit, a message after it, and a
\* connection that breaks come in any order (194, 216).
DoneClosedOnce == [][OutputExits \/ OutputFails => ~done]_vars

\* A session whose worker said exit or went away, and whose user hangs up, ends:
\* no goroutine is left waiting for another (131-257).
SessionEnds == (pc["output"] = "over" /\ hungup) ~> (main = "ended")

\* A session whose user is gone ends, so that its pings stop and the container
\* may sleep: README.md:41, "Containers sleep after 30 min idle".
HangupEnds == hungup ~> (main = "ended")
=============================================================================
