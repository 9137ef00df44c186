----------------------------- MODULE Workspace -----------------------------
(***************************************************************************)
(* From "ssh host user/repo" to OpenCode in a clone of that repository,    *)
(* across the parts that carry the name: the relay reads it (ParseRepo),   *)
(* the worker keeps it in sessionState and in two tasks per connection,    *)
(* the bridge gets it in whichever init comes first, finds the directory   *)
(* and clones or pulls, and the disk may outlive the container.            *)
(* ContainerManager and PtyBridge have what else these tasks do.           *)
(***************************************************************************)
EXTENDS Integers, FiniteSets

CONSTANTS Conns,      \* the connections of one user
          Repos,      \* user/repo on GitHub
          BaseName,   \* the part of a repository after the slash
          Args,       \* what may be typed after the host, for each connection
          NoRepo,     \* no repository
          Home,       \* the directory of all, /root/dev
          NoDir,      \* no directory
          NoCall,     \* nobody
          MaxLost,    \* bounds the POSTs that a running container does not answer
          MaxStops    \* bounds the stops of the container

Forms == {"https", "ssh", "short", "bare", "none"}
Names == [repo : Repos, git : BOOLEAN]
Dirs == [name : {BaseName[r] : r \in Repos}, git : BOOLEAN]
Tasks == Conns \X {"fetch", "init"}
Posts == {"post1", "post2"}

\* An init of a task: a POST /init, or the first message of a socket.
Calls == [task : Tasks, step : Posts \cup {"dial"}, name : Names \cup {NoRepo}]

ASSUME WorkspaceAssumption ==
  /\ NoRepo \notin Names /\ NoRepo \notin Repos /\ NoCall \notin Calls
  /\ Home # NoDir /\ {Home, NoDir} \cap Dirs = {}
  /\ Args \in [Conns -> SUBSET [form : Forms, git : BOOLEAN, slash : BOOLEAN, repo : Repos]]
  /\ MaxLost \in Nat /\ MaxStops \in Nat

VARIABLES
  task,          \* where fetch and the init message of each connection are
  want,          \* the repository each connection asked for
  ask,           \* the one in the init that a task sends
  unanswered,    \* whose own POST /init a running container did not answer
  lost,          \* how many POSTs it did not answer
  sessionState,  \* the worker's repository: the last connection's
  container,     \* "down", "up"
  late,          \* the inits that nobody waits for, before the Once is over
  once,          \* its start: "idle", "clone", "start", "done"
  runner,        \* the init that runs it, or has in vain
  session,       \* the directory OpenCode was started in, NoDir if it was not
  failed,        \* git clone, or the start in a directory that is there, failed
  panicked,      \* a handler used the nil session
  disk,          \* what is in each directory of /root/dev
  mounted,       \* /data/dev is there, and /root/dev a link to it
  stops

workerVars == <<task, want, ask, unanswered, lost, sessionState>>
onceVars == <<once, runner, session, failed, panicked>>
vars == <<workerVars, late, onceVars, container, disk, mounted, stops>>

\* "torn" is a ".git" without the rest: a clone under way, or one that was killed.
Nothing == [repo |-> NoRepo, state |-> "none"]
Files == [repo |-> NoRepo, state |-> "files"]
Clone(r, s) == [repo |-> r, state |-> s]
Contents == [repo : Repos, state : {"torn", "whole"}] \cup {Nothing, Files}

\* Fresh, as each start of the container finds it.
FreshBridge ==
  /\ late' = {} /\ once' = "idle" /\ runner' = NoCall /\ session' = NoDir
  /\ failed' = FALSE /\ panicked' = FALSE

Init ==
  /\ task = [t \in Tasks |-> "none"]
  /\ want = [c \in Conns |-> NoRepo] /\ ask = [t \in Tasks |-> NoRepo]
  /\ unanswered = {} /\ lost = 0 /\ sessionState = NoRepo
  /\ container = "down" /\ stops = 0
  /\ late = {} /\ once = "idle" /\ runner = NoCall /\ session = NoDir
  /\ failed = FALSE /\ panicked = FALSE
  /\ disk = [d \in Dirs |-> Nothing] /\ mounted \in BOOLEAN

-----------------------------------------------------------------------------
(* The name on its way.                                                     *)

\* Nothing is typed, or one of the forms. The patterns take ".git" and a slash off a URL, except that the ssh and the
\* bare form match no trailing slash and the bare one keeps ".git".
ParseRepo(a) ==
  IF a.form = "none" \/ (a.slash /\ a.form \in {"ssh", "bare"}) THEN NoRepo
  ELSE [repo |-> a.repo, git |-> a.git /\ a.form = "bare"]

\* Seeded fault: ".git" stays in the directory's name.
WorkDirAsTyped(n) ==
  IF n = NoRepo THEN Home ELSE [name |-> BaseName[n.repo], git |-> n.git]

\* The last part of the name, without ".git".
WorkDir(n) ==
  IF n = NoRepo THEN Home ELSE [name |-> BaseName[n.repo], git |-> FALSE]

-----------------------------------------------------------------------------
(* The worker: fetch and webSocketMessage, from ensureContainerReady to the *)
(* dial. Every init it sends ends in the same Once.                         *)

Labels == Posts \cup {"none", "ensure", "dial", "over", "error"}
Connected(c) == task[<<c, "fetch">>] # "none"
Goto(t, l, n) == task' = [task EXCEPT ![t] = l] /\ ask' = [ask EXCEPT ![t] = n]
WorkerStep == UNCHANGED <<want, sessionState, once, runner, session, failed, disk, mounted, stops>>

\* Where a task goes on, and with which name, when its step l is over: the
\* connection's own in fetch, sessionState's in the init message. The end of
\* fetch's dial is "Ready!".
After(t, l) ==
  IF l = "dial" THEN <<"over", NoRepo>>
  ELSE IF t[2] = "init" THEN <<"dial", sessionState>>
  ELSE <<IF l = "post2" THEN "dial" ELSE "post2", want[t[1]]>>

\* The init message does not dial when a stream is ready.
GoOn(t) ==
  \/ LET next == After(t, task[t]) IN Goto(t, next[1], next[2])
  \/ t[2] = "init" /\ task[t] # "dial" /\ Goto(t, "over", NoRepo)

\* The init that a task has sent, or dials with, and all that the bridge may have.
Its(t) == [task |-> t, step |-> task[t], name |-> ask[t]]
Sent == late \cup {Its(t) : t \in {u \in Tasks : task[u] \in Posts}}

\* What a handler does after the Once. Who ran a failed start is told; every
\* other one uses the nil session.
PastOnce(i) == panicked' = (panicked \/ (session = NoDir /\ i # runner))

\* Nobody waits for init i: it is lost, or handled all the same.
Leaves(i) ==
  \/ i # runner /\ UNCHANGED <<late, panicked>>
  \/ container = "up" /\ once # "done" /\ late' = late \cup {i} /\ UNCHANGED panicked
  \/ container = "up" /\ once = "done" /\ PastOnce(i) /\ UNCHANGED late

\* The relay's headers reach fetch, and its init message webSocketMessage at
\* some time later.
Connect(c, n) ==
  /\ ~Connected(c)
  /\ task' = [t \in Tasks |-> IF t[1] = c THEN "ensure" ELSE task[t]]
  /\ want' = [want EXCEPT ![c] = n] /\ sessionState' = n
  /\ UNCHANGED <<ask, unanswered, lost, late, onceVars, container, disk, mounted, stops>>

\* The container answers a ping.
IsUp(t) ==
  /\ task[t] = "ensure" /\ container = "up" /\ GoOn(t)
  /\ UNCHANGED <<unanswered, lost, late, panicked, container>> /\ WorkerStep

\* Seeded fault: the init after a start forgets the repository.
StartsBare(t) ==
  /\ task[t] = "ensure"
  /\ container' = "up" /\ Goto(t, "post1", NoRepo)
  /\ UNCHANGED <<unanswered, lost, late, panicked>> /\ WorkerStep

\* It does not, or is not there: startAndWaitForPorts returns, and only now is
\* sessionState read.
Starts(t) ==
  /\ task[t] = "ensure"
  /\ container' = "up" /\ Goto(t, "post1", sessionState)
  /\ UNCHANGED <<unanswered, lost, late, panicked>> /\ WorkerStep

\* It throws: fetch tells an error and closes, the init message just ends.
StartFails(t) ==
  /\ task[t] = "ensure" /\ Goto(t, IF t[2] = "fetch" THEN "error" ELSE "over", NoRepo)
  /\ UNCHANGED <<unanswered, lost, late, panicked, container>> /\ WorkerStep

\* A POST without an answer, at any time: the error is logged.
PostFails(t) ==
  /\ task[t] \in Posts
  /\ IF container = "up"
     THEN /\ lost < MaxLost /\ lost' = lost + 1
          /\ unanswered' = IF task[t] = "post2" THEN unanswered \cup {t[1]} ELSE unanswered
     ELSE UNCHANGED <<lost, unanswered>>
  /\ GoOn(t) /\ Leaves(Its(t))
  /\ UNCHANGED container /\ WorkerStep

\* The bridge upgrades the connection: init is sent, and nobody waits for it.
DialAnswered(t) ==
  /\ task[t] = "dial" /\ container = "up"
  /\ GoOn(t) /\ Leaves(Its(t))
  /\ UNCHANGED <<unanswered, lost, container>> /\ WorkerStep

\* No WebSocket in the response, or no response.
DialFails(t) ==
  /\ task[t] = "dial" /\ GoOn(t)
  /\ UNCHANGED <<unanswered, lost, late, panicked, container>> /\ WorkerStep

-----------------------------------------------------------------------------
(* The bridge: initializeSession inside the Once.                           *)

BridgeStep == UNCHANGED <<workerVars, container, mounted, stops>>

\* Seeded fault: what is in the way of a clone is removed.
OnceEntersClearing(i) ==
  /\ container = "up" /\ once = "idle"
  /\ runner' = i
  /\ LET d == WorkDir(i.name)
     IN  IF i.name = NoRepo \/ disk[d].repo = i.name.repo
         THEN once' = "start" /\ UNCHANGED disk
         ELSE once' = "clone" /\ disk' = [disk EXCEPT ![d] = Clone(i.name.repo, "torn")]
  /\ UNCHANGED <<late, session, failed, panicked>> /\ BridgeStep

\* A ".git" is pulled, and files without one make git clone refuse: what is
\* there stays, whosever it is. A clone makes its ".git" first.
OnceEnters(i) ==
  /\ container = "up" /\ once = "idle"
  /\ runner' = i
  /\ LET d == WorkDir(i.name)
     IN  IF i.name = NoRepo \/ disk[d] # Nothing
         THEN once' = "start" /\ UNCHANGED disk
         ELSE once' = "clone" /\ disk' = [disk EXCEPT ![d] = Clone(i.name.repo, "torn")]
  /\ UNCHANGED <<late, session, failed, panicked>> /\ BridgeStep

Cloned ==
  /\ once = "clone" /\ once' = "start"
  /\ disk' = [disk EXCEPT ![WorkDir(runner.name)].state = "whole"]
  /\ UNCHANGED <<late, runner, session, failed, panicked>> /\ BridgeStep

\* git removes the directory it has made; "Continue anyway".
CloneFails ==
  /\ once = "clone" /\ once' = "start" /\ failed' = TRUE
  /\ disk' = [disk EXCEPT ![WorkDir(runner.name)] = Nothing]
  /\ UNCHANGED <<late, runner, session, panicked>> /\ BridgeStep

OnceOver == once = "start" /\ once' = "done" /\ late' = {} /\ UNCHANGED disk

\* StartWithSize finds the directory and starts OpenCode.
OpenCodeStarts ==
  /\ OnceOver /\ session' = WorkDir(runner.name) /\ runner' = NoCall
  /\ WorkDir(runner.name) \in Dirs => disk[WorkDir(runner.name)] # Nothing
  /\ UNCHANGED <<failed, panicked>> /\ BridgeStep

\* It does not, or fails with it; who has waited for the Once meets the nil
\* session.
OpenCodeFails ==
  /\ OnceOver /\ UNCHANGED <<session, runner>>
  /\ failed' = (failed \/ (WorkDir(runner.name) \in Dirs => disk[WorkDir(runner.name)] # Nothing))
  /\ panicked' = (panicked \/ late \ {runner} # {})
  /\ BridgeStep

\* Seeded fault: who finds the Once taken does not wait for it.
AnswersAtOnce(t) ==
  /\ task[t] \in Posts /\ container = "up" /\ once # "idle"
  /\ GoOn(t) /\ PastOnce(Its(t))
  /\ UNCHANGED <<unanswered, lost, late, container>> /\ WorkerStep

\* A POST is answered once the Once is over, a later one after a resize.
Answers(t) ==
  /\ task[t] \in Posts /\ container = "up" /\ once = "done"
  /\ GoOn(t) /\ PastOnce(Its(t))
  /\ UNCHANGED <<unanswered, lost, late, container>> /\ WorkerStep

\* The user's own work, where a clone may want to go later.
UserMakes(d) ==
  /\ session # NoDir /\ disk[d] = Nothing /\ ~d.git
  /\ disk' = [disk EXCEPT ![d] = Files]
  /\ UNCHANGED <<late, onceVars>> /\ BridgeStep

\* OpenCode ends, the container idles or is killed: what it was asked breaks
\* off, and unless it is mounted the disk goes.
Stops ==
  /\ container = "up" /\ stops < MaxStops
  /\ container' = "down" /\ stops' = stops + 1
  /\ FreshBridge
  /\ disk' = IF mounted THEN disk ELSE [d \in Dirs |-> Nothing]
  /\ LET broken == {t \in Tasks : task[t] \in Posts \cup {"dial"}}
     IN  /\ task' = [t \in Tasks |-> IF t \in broken THEN After(t, task[t])[1] ELSE task[t]]
         /\ ask' = [t \in Tasks |-> IF t \in broken THEN After(t, task[t])[2] ELSE ask[t]]
  /\ UNCHANGED <<want, unanswered, lost, sessionState, mounted>>

-----------------------------------------------------------------------------

Task(t) ==
  \/ IsUp(t) \/ Starts(t) \/ StartFails(t)
  \/ PostFails(t) \/ Answers(t) \/ DialAnswered(t) \/ DialFails(t)

Bridge ==
  \/ \E i \in Sent : OnceEnters(i)
  \/ Cloned \/ CloneFails \/ OpenCodeStarts \/ OpenCodeFails

Next ==
  \/ \E c \in Conns : \E a \in Args[c] : Connect(c, ParseRepo(a))
  \/ \E t \in Tasks : Task(t)
  \/ Bridge \/ Stops
  \/ \E d \in Dirs : UserMakes(d)

Spec == Init /\ [][Next]_vars

-----------------------------------------------------------------------------

TypeOK ==
  /\ task \in [Tasks -> Labels]
  /\ want \in [Conns -> Names \cup {NoRepo}] /\ ask \in [Tasks -> Names \cup {NoRepo}]
  /\ unanswered \subseteq Conns /\ lost \in 0 .. MaxLost
  /\ sessionState \in Names \cup {NoRepo} /\ container \in {"down", "up"}
  /\ late \subseteq Calls /\ runner \in Calls \cup {NoCall}
  /\ once \in {"idle", "clone", "start", "done"}
  /\ session \in Dirs \cup {Home, NoDir}
  /\ failed \in BOOLEAN /\ panicked \in BOOLEAN
  /\ disk \in [Dirs -> Contents]
  /\ mounted \in BOOLEAN /\ stops \in 0 .. MaxStops
  /\ once \in {"clone", "start"} => runner \in Sent

Asked == {want[c] : c \in {c \in Conns : Connected(c)}}

\* fetch has told this connection "Ready!", and its POST /init was answered.
Ready(c) == task[<<c, "fetch">>] = "over" /\ c \notin unanswered

\* While everybody asks for one repository, however each spells it and whichever
\* of their inits is first, OpenCode works in its directory; and who is told
\* "Ready!" after an answered POST has an OpenCode, unless the container was
\* stopped, or git clone or the start itself failed (fetch, ensureContainerReady,
\* sessionOnce; README.md:40).
OpensRepo ==
  Cardinality({WorkDir(n) : n \in Asked}) = 1 =>
    /\ session # NoDir => session \in {WorkDir(n) : n \in Asked}
    /\ \A c \in Conns : Ready(c) /\ stops = 0 /\ ~failed => session # NoDir

\* A repository is cloned into one directory, however it is spelled and however
\* often the container starts on the disk that is left (getWorkDir, ensureRepo).
OneClone ==
  \A d, e \in Dirs : disk[d].repo # NoRepo /\ disk[d].repo = disk[e].repo => d = e

\* The bridge's handlers meet a nil session only when the start is over and the
\* Once used up, and only if git clone or the start itself failed: never while
\* another init is still starting OpenCode (main.go:184-201, 298-317, 329-350).
PanicsOnlyAfterFailure ==
  panicked => failed /\ once = "done" /\ session = NoDir

\* A whole clone and the user's own files stay as they are through every init,
\* failed clone, kill and restart, as long as the disk does (README.md:39).
WorkStays ==
  [][\A d \in Dirs :
       disk[d].state \in {"files", "whole"} =>
         disk'[d] = disk[d] \/ (~mounted /\ container' = "down")]_vars
=============================================================================
