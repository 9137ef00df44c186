-------------------------- MODULE WorkspaceProofs --------------------------
(* Proofs about Workspace, for every set of connections and repositories.    *)
EXTENDS Workspace, TLAPS

\* A clone is where its repository's name says, with ".git" taken off.
PlaceInv ==
  \A d \in Dirs : disk[d].repo # NoRepo =>
    ~d.git /\ d.name = BaseName[disk[d].repo]

\* Only who has connected has tasks.
TasksInv == \A t \in Tasks : task[t] # "none" => Connected(t[1])

\* What the Once does is for its runner, in a container that runs.
OnceInv ==
  /\ container = "down" => once = "idle"
  /\ once # "done" => session = NoDir /\ ~panicked
  /\ once = "clone" =>
       runner.name # NoRepo /\ disk[WorkDir(runner.name)].state = "torn"

\* Until something failed the directory that OpenCode needs is there.
StartInv ==
  /\ once = "start" /\ ~failed =>
       runner.name = NoRepo \/ disk[WorkDir(runner.name)] # Nothing
  /\ once = "done" /\ ~failed => session # NoDir
  /\ panicked => session = NoDir

IInv == TypeOK /\ PlaceInv /\ TasksInv /\ OnceInv /\ StartInv

-----------------------------------------------------------------------------
(* The names, the tasks and their inits.                                    *)

LEMMA WorkDirType ==
  ASSUME NEW n \in Names
  PROVE  /\ n # NoRepo /\ n.repo \in Repos /\ n.repo # NoRepo
         /\ WorkDir(n) \in Dirs
         /\ ~WorkDir(n).git /\ WorkDir(n).name = BaseName[n.repo]
<1>1. n # NoRepo /\ n.repo \in Repos /\ n.repo # NoRepo
  BY WorkspaceAssumption DEF Names
<1>2. WorkDir(n) = [name |-> BaseName[n.repo], git |-> FALSE]
  BY <1>1 DEF WorkDir
<1> QED
  BY <1>1, <1>2 DEF Dirs

LEMMA ParseType ==
  ASSUME NEW c \in Conns, NEW a \in Args[c]
  PROVE  ParseRepo(a) \in Names \cup {NoRepo}
<1>1. a \in [form : Forms, git : BOOLEAN, slash : BOOLEAN, repo : Repos]
  BY WorkspaceAssumption
<1>2. a.repo \in Repos /\ (a.git /\ a.form = "bare") \in BOOLEAN
  BY <1>1
<1> QED
  BY <1>2 DEF ParseRepo, Names

LEMMA ContentTypes ==
  ASSUME NEW r \in Repos, NEW s \in {"torn", "whole"}
  PROVE  /\ Clone(r, s) \in Contents /\ Clone(r, s) # Nothing /\ Clone(r, s).state = s
         /\ Clone(r, s).repo = r
         /\ Nothing \in Contents /\ Files \in Contents
         /\ Nothing.repo = NoRepo /\ Files.repo = NoRepo /\ Nothing.state = "none"
BY DEF Clone, Contents, Nothing, Files

LEMMA TaskTypes ==
  ASSUME NEW t \in Tasks
  PROVE  t[1] \in Conns /\ t[2] \in {"fetch", "init"}
BY DEF Tasks

LEMMA AfterType ==
  ASSUME TypeOK, NEW t \in Tasks, NEW l \in Labels
  PROVE  After(t, l)[1] \in Labels /\ After(t, l)[2] \in Names \cup {NoRepo}
<1>1. want[t[1]] \in Names \cup {NoRepo} /\ sessionState \in Names \cup {NoRepo}
  BY TaskTypes DEF TypeOK
<1>2. CASE l = "dial"
  BY <1>2 DEF After, Labels
<1>3. CASE l # "dial" /\ t[2] = "init"
  BY <1>1, <1>3 DEF After, Labels, Posts
<1>4. CASE l # "dial" /\ t[2] # "init"
  BY <1>1, <1>4 DEF After, Labels, Posts
<1> QED
  BY <1>2, <1>3, <1>4

LEMMA CallTypes ==
  ASSUME TypeOK
  PROVE  /\ \A t \in Tasks : task[t] \in Posts \cup {"dial"} => Its(t) \in Calls
         /\ Sent \subseteq Calls
         /\ \A i \in Calls : i # NoCall /\ i.name \in Names \cup {NoRepo}
<1>1. ASSUME NEW t \in Tasks, task[t] \in Posts \cup {"dial"} PROVE Its(t) \in Calls
  BY <1>1 DEF Its, Calls, TypeOK
<1>2. \A i \in Calls : i # NoCall /\ i.name \in Names \cup {NoRepo}
  BY WorkspaceAssumption DEF Calls
<1> QED
  BY <1>1, <1>2 DEF Sent, TypeOK

LEMMA InitIInv == Init => IInv
<1> SUFFICES ASSUME Init PROVE IInv
  OBVIOUS
<1>1. TypeOK
  <2>1. disk \in [Dirs -> Contents]
    BY DEF Init, Contents
  <2>2. "none" \in Labels /\ 0 \in 0 .. MaxStops /\ 0 \in 0 .. MaxLost
    BY WorkspaceAssumption DEF Labels
  <2> QED
    BY <2>1, <2>2 DEF Init, TypeOK
<1>2. PlaceInv
  BY DEF Init, PlaceInv, Nothing
<1>3. TasksInv
  BY DEF Init, TasksInv
<1> QED
  BY <1>1, <1>2, <1>3 DEF Init, IInv, OnceInv, StartInv

-----------------------------------------------------------------------------
(* The worker's steps.                                                      *)

\* The init that the Once runs is not lost when its task goes on.
LEMMA LeavesDoes ==
  ASSUME TypeOK, NEW i \in Calls, Leaves(i)
  PROVE  /\ late' \subseteq Calls /\ late \subseteq late' /\ late' \subseteq late \cup {i}
         /\ once \in {"clone", "start"} /\ runner = i => i \in late'
         /\ panicked' \in BOOLEAN
         /\ panicked' => panicked \/ (once = "done" /\ session = NoDir)
<1>1. CASE UNCHANGED <<late, panicked>> /\ i # runner
  BY <1>1 DEF TypeOK
<1>2. CASE once # "done" /\ late' = late \cup {i} /\ panicked' = panicked
  BY <1>2 DEF TypeOK
<1>3. CASE once = "done" /\ PastOnce(i) /\ late' = late
  BY <1>3 DEF PastOnce, TypeOK
<1> QED
  BY <1>1, <1>2, <1>3 DEF Leaves

\* A task goes somewhere else, and perhaps leaves its init with the bridge.
LEMMA TaskMoves ==
  ASSUME IInv, NEW t \in Tasks, NEW l \in Labels, NEW n \in Names \cup {NoRepo},
         Goto(t, l, n), task[t] # "none", l # "none",
         UNCHANGED <<want, sessionState, once, runner, session, failed, disk, mounted, stops>>,
         unanswered' \subseteq Conns, lost' \in 0 .. MaxLost,
         late' \subseteq Calls, late \subseteq late',
         once \in {"clone", "start"} /\ task[t] \in Posts /\ runner = Its(t) => runner \in late',
         panicked' \in BOOLEAN,
         panicked' => panicked \/ (once = "done" /\ session = NoDir),
         container' \in {"down", "up"}, container = "up" => container' = "up"
  PROVE  IInv'
<1> USE DEF IInv
<1>1. \A u \in Tasks : u # t => task'[u] = task[u] /\ ask'[u] = ask[u]
  BY DEF TypeOK, Goto
<1>2. once' \in {"clone", "start"} => runner' \in Sent'
  <2> SUFFICES ASSUME once \in {"clone", "start"} PROVE runner \in Sent'
    OBVIOUS
  <2>1. runner \in Sent
    BY DEF TypeOK
  <2>2. CASE runner \in late
    BY <2>2 DEF Sent
  <2>3. ASSUME NEW u \in Tasks, task[u] \in Posts, runner = Its(u) PROVE runner \in Sent'
    <3>1. CASE u = t
      BY <2>3, <3>1 DEF Sent
    <3>2. CASE u # t
      BY <1>1, <2>3, <3>2 DEF Sent, Its
    <3> QED
      BY <3>1, <3>2
  <2> QED
    BY <2>1, <2>2, <2>3 DEF Sent
<1>3. TypeOK'
  BY <1>2 DEF TypeOK, Goto
<1>4. PlaceInv'
  BY DEF PlaceInv
<1>5. TasksInv'
  <2>1. \A c \in Conns : Connected(c) => Connected(c)'
    <3>1. \A c \in Conns : <<c, "fetch">> \in Tasks
      BY DEF Tasks
    <3>2. task'[t] = l
      BY DEF TypeOK, Goto
    <3> QED
      BY <1>1, <3>1, <3>2 DEF Connected
  <2>2. \A u \in Tasks : u[1] \in Conns
    BY DEF Tasks
  <2> QED
    BY <1>1, <2>1, <2>2 DEF TasksInv
<1>6. OnceInv'
  BY DEF OnceInv, WorkDir, TypeOK
<1>7. StartInv'
  BY DEF StartInv, OnceInv, WorkDir
<1> QED
  BY <1>3, <1>4, <1>5, <1>6, <1>7

\* Where a task goes when its step is over.
LEMMA GoOnMoves ==
  ASSUME TypeOK, NEW t \in Tasks, task[t] # "none", GoOn(t)
  PROVE  \E l \in Labels, n \in Names \cup {NoRepo} : Goto(t, l, n) /\ l # "none"
<1>1. want[t[1]] \in Names \cup {NoRepo} /\ sessionState \in Names \cup {NoRepo}
  BY DEF TypeOK, Tasks
<1>2. {"over", "dial", "post2"} \subseteq Labels
  BY DEF Labels, Posts
<1>3. \/ \E n \in {NoRepo, sessionState, want[t[1]]} : Goto(t, "over", n) \/ Goto(t, "dial", n)
      \/ Goto(t, "post2", want[t[1]])
  BY DEF GoOn, After
<1> QED
  BY <1>1, <1>2, <1>3

LEMMA WorkerSteps ==
  ASSUME IInv, NEW t \in Tasks, Task(t)
  PROVE  IInv'
<1> USE DEF IInv
<1>1. ASSUME task[t] = "ensure", NEW l \in Labels, NEW n \in Names \cup {NoRepo}, Goto(t, l, n),
             l # "none", UNCHANGED <<unanswered, lost, late, panicked>>, WorkerStep,
             container' = "up" \/ container' = container
      PROVE  IInv'
  BY <1>1, TaskMoves DEF WorkerStep, TypeOK, Posts
<1>2. CASE IsUp(t)
  BY <1>1, <1>2, GoOnMoves DEF IsUp
<1>3. CASE Starts(t)
  <2>1. "post1" \in Labels /\ "post1" # "none" /\ sessionState \in Names \cup {NoRepo}
    BY DEF Labels, Posts, TypeOK
  <2> QED
    BY <1>1, <1>3, <2>1 DEF Starts
<1>4. CASE StartFails(t)
  <2>1. PICK l \in {"error", "over"} : Goto(t, l, NoRepo)
    BY <1>4 DEF StartFails
  <2>2. l \in Labels /\ l # "none"
    BY DEF Labels
  <2> QED
    BY <1>1, <1>4, <2>1, <2>2 DEF StartFails
<1>5. CASE PostFails(t) \/ DialAnswered(t)
  <2>1. /\ task[t] \in Posts \cup {"dial"} /\ task[t] # "none" /\ GoOn(t) /\ Leaves(Its(t))
        /\ WorkerStep /\ UNCHANGED container
    BY <1>5 DEF PostFails, DialAnswered, Posts
  <2>2. unanswered' \subseteq Conns /\ lost' \in 0 .. MaxLost
    BY <1>5, TaskTypes, WorkspaceAssumption DEF PostFails, DialAnswered, TypeOK
  <2>3. Its(t) \in Calls
    BY <2>1, CallTypes
  <2>4. PICK l \in Labels, n \in Names \cup {NoRepo} : Goto(t, l, n) /\ l # "none"
    BY <2>1, GoOnMoves
  <2>5. /\ late' \subseteq Calls /\ late \subseteq late'
        /\ once \in {"clone", "start"} /\ runner = Its(t) => runner \in late'
        /\ panicked' \in BOOLEAN
        /\ panicked' => panicked \/ (once = "done" /\ session = NoDir)
    BY <2>1, <2>3, LeavesDoes
  <2> QED
    BY <2>1, <2>2, <2>4, <2>5, TaskMoves DEF WorkerStep, TypeOK
<1>6. CASE DialFails(t)
  <2>1. PICK l \in Labels, n \in Names \cup {NoRepo} : Goto(t, l, n) /\ l # "none"
    BY <1>6, GoOnMoves DEF DialFails
  <2> QED
    BY <1>6, <2>1, TaskMoves DEF DialFails, WorkerStep, TypeOK, Posts
<1>7. CASE Answers(t)
  <2>1. PICK l \in Labels, n \in Names \cup {NoRepo} : Goto(t, l, n) /\ l # "none"
    BY <1>7, GoOnMoves DEF Answers, Posts
  <2>2. /\ once = "done" /\ task[t] # "none" /\ WorkerStep
        /\ UNCHANGED <<unanswered, lost, late, container>>
        /\ panicked' \in BOOLEAN
        /\ panicked' => panicked \/ session = NoDir
    BY <1>7 DEF Answers, PastOnce, TypeOK, Posts
  <2> QED
    BY <2>1, <2>2, TaskMoves DEF WorkerStep, TypeOK
<1> QED
  BY <1>2, <1>3, <1>4, <1>5, <1>6, <1>7 DEF Task

LEMMA ConnectStep ==
  ASSUME IInv, NEW c \in Conns, NEW n \in Names \cup {NoRepo}, Connect(c, n)
  PROVE  IInv'
<1> USE DEF IInv
<1>1. /\ ~Connected(c) /\ task' = [t \in Tasks |-> IF t[1] = c THEN "ensure" ELSE task[t]]
      /\ want' = [want EXCEPT ![c] = n] /\ sessionState' = n
      /\ UNCHANGED <<ask, unanswered, lost, late, once, runner, session, failed, panicked,
                     container, disk, mounted, stops>>
  BY DEF Connect, onceVars
<1>2. "ensure" \in Labels /\ "ensure" \notin Posts /\ \A t \in Tasks : t[1] \in Conns
  BY DEF Labels, Posts, Tasks
<1>3. \A t \in Tasks : task[t] \in Posts => task'[t] = task[t] /\ ask'[t] = ask[t]
  BY <1>1 DEF TasksInv, Posts
<1>4. Sent \subseteq Sent'
  <2>1. \A t \in Tasks : task[t] \in Posts => task'[t] \in Posts /\ Its(t)' = Its(t)
    BY <1>3 DEF Its
  <2> QED
    BY <1>1, <2>1 DEF Sent
<1>5. TypeOK'
  <2>1. task' \in [Tasks -> Labels] /\ want' \in [Conns -> Names \cup {NoRepo}]
    BY <1>1, <1>2 DEF TypeOK
  <2>2. once' \in {"clone", "start"} => runner' \in Sent'
    BY <1>1, <1>4 DEF TypeOK
  <2> QED
    BY <1>1, <2>1, <2>2 DEF TypeOK
<1>6. PlaceInv' /\ OnceInv' /\ StartInv'
  BY <1>1 DEF PlaceInv, OnceInv, StartInv, WorkDir
<1>7. TasksInv'
  <2>1. \A d \in Conns : Connected(d)' = (d = c \/ Connected(d))
    BY <1>1 DEF Connected, Tasks
  <2> QED
    BY <1>1, <1>2, <2>1 DEF TasksInv
<1> QED
  BY <1>5, <1>6, <1>7

-----------------------------------------------------------------------------
(* The bridge's steps.                                                      *)

\* The worker's tasks and what they have sent stay as they are.
LEMMA WorkerRests ==
  ASSUME IInv, BridgeStep, late' = late
  PROVE  Sent' = Sent /\ TasksInv'
BY DEF IInv, BridgeStep, workerVars, Sent, Its, TasksInv, Connected

LEMMA OnceEntersStep ==
  ASSUME IInv, NEW i \in Sent, OnceEnters(i)
  PROVE  IInv'
<1> USE DEF IInv
<1> DEFINE n == i.name
           d == WorkDir(n)
<1>1. /\ once = "idle" /\ runner' = i /\ container = "up"
      /\ UNCHANGED <<workerVars, container, mounted, stops, late, session, failed, panicked>>
      /\ once' \in {"clone", "start"}
  BY DEF OnceEnters, BridgeStep
<1>2. n \in Names \cup {NoRepo} /\ i \in Calls
  BY CallTypes
<1>3. session = NoDir /\ ~panicked
  BY <1>1 DEF OnceInv
<1>4. TasksInv' /\ i \in Sent'
  BY <1>1, WorkerRests DEF BridgeStep
<1>5. CASE n = NoRepo \/ disk[d] # Nothing
  <2>1. once' = "start" /\ disk' = disk
    BY <1>5 DEF OnceEnters
  <2>2. TypeOK'
    BY <1>1, <1>2, <1>4, <2>1 DEF TypeOK, workerVars
  <2>3. PlaceInv'
    BY <2>1 DEF PlaceInv
  <2>4. OnceInv'
    BY <1>1, <1>3, <2>1 DEF OnceInv
  <2>5. StartInv'
    BY <1>1, <1>3, <1>5, <2>1 DEF StartInv, WorkDir
  <2> QED
    BY <1>4, <2>2, <2>3, <2>4, <2>5
<1>6. CASE ~(n = NoRepo \/ disk[d] # Nothing)
  <2>1. /\ once' = "clone" /\ disk' = [disk EXCEPT ![d] = Clone(n.repo, "torn")]
        /\ n \in Names
    BY <1>2, <1>6 DEF OnceEnters
  <2>2. n.repo \in Repos /\ d \in Dirs /\ ~d.git /\ d.name = BaseName[n.repo]
    BY <2>1, WorkDirType
  <2>3. Clone(n.repo, "torn") \in Contents /\ Clone(n.repo, "torn").state = "torn"
        /\ Clone(n.repo, "torn").repo = n.repo
    BY <2>2, ContentTypes
  <2> DEFINE new == Clone(n.repo, "torn")
  <2> HIDE DEF new, d
  <2>4. disk' \in [Dirs -> Contents] /\ disk'[d] = new
        /\ \A e \in Dirs \ {d} : disk'[e] = disk[e]
    BY <2>1, <2>2, <2>3 DEF TypeOK, new
  <2>5. TypeOK'
    BY <1>1, <1>2, <1>4, <2>1, <2>4 DEF TypeOK, workerVars
  <2>6. PlaceInv'
    BY <2>2, <2>3, <2>4 DEF PlaceInv, new
  <2>7. WorkDir(runner'.name) = d /\ runner'.name # NoRepo
    BY <1>1, <1>6 DEF d
  <2>8. OnceInv'
    BY <1>1, <1>3, <2>1, <2>3, <2>4, <2>7 DEF OnceInv, new, WorkDir
  <2>9. StartInv'
    BY <1>1, <1>3, <2>1 DEF StartInv
  <2> QED
    BY <1>4, <2>5, <2>6, <2>8, <2>9
<1> QED
  BY <1>5, <1>6

\* The directory the Once is cloning into.
LEMMA CloneDir ==
  ASSUME IInv, once = "clone"
  PROVE  /\ WorkDir(runner.name) \in Dirs
         /\ disk[WorkDir(runner.name)].state = "torn"
         /\ disk[WorkDir(runner.name)] \in [repo : Repos, state : {"torn", "whole"}]
<1>1. runner.name \in Names /\ disk[WorkDir(runner.name)].state = "torn"
  BY CallTypes DEF IInv, OnceInv, TypeOK
<1>2. WorkDir(runner.name) \in Dirs
  BY <1>1, WorkDirType
<1>3. disk[WorkDir(runner.name)] \in Contents
  BY <1>2 DEF IInv, TypeOK
<1>4. Nothing.state # "torn" /\ Files.state # "torn"
  BY DEF Nothing, Files
<1> QED
  BY <1>1, <1>2, <1>3, <1>4 DEF Contents

LEMMA CloneEnds ==
  ASSUME IInv, Cloned \/ CloneFails
  PROVE  IInv'
<1> USE DEF IInv
<1> DEFINE d == WorkDir(runner.name)
<1>1. /\ once = "clone" /\ once' = "start" /\ BridgeStep
      /\ UNCHANGED <<workerVars, container, mounted, stops, late, runner, session, panicked>>
      /\ failed' \in BOOLEAN /\ session = NoDir /\ ~panicked
  BY DEF Cloned, CloneFails, BridgeStep, TypeOK, OnceInv
<1>2. d \in Dirs /\ disk[d] \in [repo : Repos, state : {"torn", "whole"}]
  BY <1>1, CloneDir
<1> HIDE DEF d
<1>3. PICK new \in Contents :
        /\ disk' = [disk EXCEPT ![d] = new]
        /\ new.repo \in {disk[d].repo, NoRepo}
        /\ ~failed' => new # Nothing
  <2>1. CASE Cloned
    <3> DEFINE new == [disk[d] EXCEPT !.state = "whole"]
    <3>1. new \in [repo : Repos, state : {"torn", "whole"}] /\ new.repo = disk[d].repo
      BY <1>2
    <3>2. new # Nothing
      BY <3>1, WorkspaceAssumption DEF Nothing
    <3>3. disk' = [disk EXCEPT ![d] = new]
      BY <2>1 DEF Cloned, d
    <3> QED
      BY <3>1, <3>2, <3>3 DEF Contents
  <2>2. CASE CloneFails
    BY <2>2 DEF CloneFails, d, Contents, Nothing
  <2> QED
    BY <2>1, <2>2
<1>4. disk' \in [Dirs -> Contents] /\ disk'[d] = new
      /\ \A e \in Dirs \ {d} : disk'[e] = disk[e]
  BY <1>2, <1>3 DEF TypeOK
<1>5. Sent' = Sent /\ TasksInv'
  BY <1>1, WorkerRests
<1>6. TypeOK'
  BY <1>1, <1>4, <1>5 DEF TypeOK, workerVars
<1>7. PlaceInv'
  BY <1>2, <1>3, <1>4 DEF PlaceInv
<1>8. OnceInv'
  BY <1>1 DEF OnceInv
<1>9. StartInv'
  <2>1. WorkDir(runner'.name) = d
    BY <1>1 DEF d
  <2> QED
    BY <1>1, <1>3, <1>4, <2>1 DEF StartInv, WorkDir
<1> QED
  BY <1>5, <1>6, <1>7, <1>8, <1>9

\* A name's directory is one, and only what clones are in is a member of Dirs.
LEMMA RunnerDir ==
  ASSUME IInv, once = "start"
  PROVE  /\ WorkDir(runner.name) \in Dirs \cup {Home} /\ WorkDir(runner.name) # NoDir
         /\ runner.name = NoRepo => WorkDir(runner.name) \notin Dirs
<1>1. runner.name \in Names \cup {NoRepo}
  BY CallTypes DEF IInv, TypeOK
<1>2. CASE runner.name = NoRepo
  BY <1>2, WorkspaceAssumption DEF WorkDir
<1>3. CASE runner.name \in Names
  BY <1>3, WorkDirType, WorkspaceAssumption
<1> QED
  BY <1>1, <1>2, <1>3

\* A start that fails with its directory there is a failure of its own.
LEMMA OpenCodeStep ==
  ASSUME IInv, OpenCodeStarts \/ OpenCodeFails
  PROVE  IInv'
<1> USE DEF IInv
<1> DEFINE d == WorkDir(runner.name)
<1>1. /\ once = "start" /\ once' = "done" /\ late' = {}
      /\ UNCHANGED <<workerVars, container, mounted, stops, disk>>
  BY DEF OpenCodeStarts, OpenCodeFails, OnceOver, BridgeStep
<1>2. d \in Dirs \cup {Home} /\ d # NoDir /\ session = NoDir /\ ~panicked
  BY <1>1, RunnerDir DEF OnceInv
<1>3. \/ session' = d /\ runner' = NoCall /\ failed' = failed /\ panicked' = panicked
      \/ session' = NoDir /\ runner' = runner /\ failed' = TRUE /\ panicked' \in BOOLEAN
  <2>1. CASE OpenCodeStarts
    BY <2>1 DEF OpenCodeStarts
  <2>2. CASE OpenCodeFails
    <3>1. ~failed => (d \in Dirs => disk[d] # Nothing)
      BY <1>1, RunnerDir DEF StartInv
    <3> QED
      BY <1>2, <2>2, <3>1 DEF OpenCodeFails, TypeOK
  <2> QED
    BY <2>1, <2>2
<1> HIDE DEF d
<1>4. TypeOK'
  BY <1>1, <1>2, <1>3 DEF TypeOK, workerVars
<1>5. PlaceInv' /\ OnceInv'
  BY <1>1 DEF PlaceInv, OnceInv
<1>6. TasksInv'
  BY <1>1 DEF TasksInv, Connected, workerVars
<1>7. StartInv'
  BY <1>1, <1>2, <1>3 DEF StartInv
<1> QED
  BY <1>4, <1>5, <1>6, <1>7

-----------------------------------------------------------------------------
(* The container and the user.                                              *)

LEMMA StopsStep == IInv /\ Stops => IInv'
<1> SUFFICES ASSUME IInv, Stops PROVE IInv'
  OBVIOUS
<1> USE DEF IInv
<1>1. /\ container' = "down" /\ stops' = stops + 1 /\ stops < MaxStops
      /\ late' = {} /\ once' = "idle" /\ runner' = NoCall /\ session' = NoDir
      /\ failed' = FALSE /\ panicked' = FALSE
      /\ UNCHANGED <<want, unanswered, lost, sessionState, mounted>>
      /\ disk' = disk \/ disk' = [d \in Dirs |-> Nothing]
  BY DEF Stops, FreshBridge
<1>2. disk' \in [Dirs -> Contents] /\ stops' \in 0 .. MaxStops
  BY <1>1, WorkspaceAssumption DEF TypeOK, Contents
<1>3. \A t \in Tasks :
        /\ task[t] \in Labels /\ ask[t] \in Names \cup {NoRepo}
        /\ After(t, task[t])[1] \in Labels \ {"none"}
        /\ After(t, task[t])[2] \in Names \cup {NoRepo}
  BY AfterType DEF TypeOK, After
<1>4. task' \in [Tasks -> Labels] /\ ask' \in [Tasks -> Names \cup {NoRepo}]
  BY <1>3 DEF Stops
<1>5. TypeOK'
  BY <1>1, <1>2, <1>4 DEF TypeOK
<1>6. PlaceInv'
  BY <1>1 DEF PlaceInv, Nothing
<1>7. TasksInv'
  <2>1. \A t \in Tasks : (task'[t] = "none") = (task[t] = "none")
    BY <1>3 DEF Stops, Posts
  <2> QED
    BY <2>1 DEF TasksInv, Connected, Tasks
<1>8. OnceInv' /\ StartInv'
  BY <1>1 DEF OnceInv, StartInv
<1> QED
  BY <1>5, <1>6, <1>7, <1>8

LEMMA UserStep ==
  ASSUME IInv, NEW d \in Dirs, UserMakes(d)
  PROVE  IInv'
<1> USE DEF IInv
<1>1. /\ session # NoDir /\ once = "done"
      /\ disk' = [disk EXCEPT ![d] = Files] /\ BridgeStep
      /\ UNCHANGED <<workerVars, container, mounted, stops>>
      /\ UNCHANGED <<late, once, runner, session, failed, panicked>>
  BY DEF UserMakes, BridgeStep, onceVars, OnceInv
<1>2. disk' \in [Dirs -> Contents] /\ disk'[d] = Files
      /\ \A e \in Dirs \ {d} : disk'[e] = disk[e]
  BY <1>1 DEF TypeOK, Contents
<1>3. Files.repo = NoRepo
  BY DEF Files
<1>4. TypeOK'
  BY <1>1, <1>2 DEF TypeOK, workerVars
<1>5. PlaceInv'
  BY <1>2, <1>3 DEF PlaceInv
<1>6. TasksInv'
  BY <1>1, WorkerRests
<1>7. OnceInv' /\ StartInv'
  BY <1>1 DEF OnceInv, StartInv
<1> QED
  BY <1>4, <1>5, <1>6, <1>7

LEMMA NextIInv == IInv /\ [Next]_vars => IInv'
<1> SUFFICES ASSUME IInv, [Next]_vars PROVE IInv'
  OBVIOUS
<1>1. CASE UNCHANGED vars
  <2>1. UNCHANGED <<Sent, TasksInv>>
    BY <1>1 DEF vars, workerVars, Sent, Its, TasksInv, Connected
  <2> QED
    BY <1>1, <2>1 DEF vars, workerVars, onceVars, IInv, TypeOK, PlaceInv, OnceInv, StartInv, WorkDir
<1>2. ASSUME NEW c \in Conns, NEW a \in Args[c], Connect(c, ParseRepo(a)) PROVE IInv'
  BY <1>2, ConnectStep, ParseType
<1>3. ASSUME NEW t \in Tasks, Task(t) PROVE IInv'
  BY <1>3, WorkerSteps
<1>4. CASE Bridge \/ Stops \/ \E d \in Dirs : UserMakes(d)
  BY <1>4, OnceEntersStep, CloneEnds, OpenCodeStep, StopsStep, UserStep DEF Bridge
<1> QED
  BY <1>1, <1>2, <1>3, <1>4 DEF Next

LEMMA Invariant == Spec => []IInv
BY InitIInv, NextIInv, PTL DEF Spec

-----------------------------------------------------------------------------

\* The state keeps its types, for every number of connections and repositories;
\* while the Once runs for an init, that init is with the bridge.
THEOREM TypeCorrect == Spec => []TypeOK
BY Invariant, PTL DEF IInv

\* However it is spelled and however often the container starts, a repository
\* is cloned into one directory.
THEOREM ClonedOnce == Spec => []OneClone
<1>1. IInv => OneClone
  <2> SUFFICES ASSUME IInv, NEW d \in Dirs, NEW e \in Dirs,
                      disk[d].repo # NoRepo, disk[d].repo = disk[e].repo
               PROVE  d = e
    BY DEF OneClone
  <2>1. d.name = e.name /\ ~d.git /\ ~e.git
    BY DEF IInv, PlaceInv
  <2> QED
    BY <2>1 DEF Dirs
<1> QED
  BY <1>1, Invariant, PTL

\* Whichever init is handled when, also one that nobody waits for any more, a
\* nil session is met only after git clone or the start has failed.
THEOREM PanicsExplained == Spec => []PanicsOnlyAfterFailure
<1>1. IInv => PanicsOnlyAfterFailure
  <2> SUFFICES ASSUME IInv, panicked
               PROVE  failed /\ once = "done" /\ session = NoDir
    BY DEF PanicsOnlyAfterFailure
  <2>1. once = "done" /\ session = NoDir
    BY DEF IInv, OnceInv, StartInv
  <2> QED
    BY <2>1 DEF IInv, StartInv
<1> QED
  BY <1>1, Invariant, PTL

\* No step of the system touches a whole clone or the user's files, as long as
\* the disk stays.
THEOREM WorkKept == Spec => WorkStays
<1> DEFINE A == \A d \in Dirs : disk[d].state \in {"files", "whole"} =>
                  disk'[d] = disk[d] \/ (~mounted /\ container' = "down")
<1>1. IInv /\ [Next]_vars => [A]_vars
  <2> SUFFICES ASSUME IInv, Next, NEW d \in Dirs, disk[d].state \in {"files", "whole"}
               PROVE  disk'[d] = disk[d] \/ (~mounted /\ container' = "down")
    BY DEF vars
  <2>1. disk[d] # Nothing
    BY DEF Nothing
  <2>2. CASE Cloned \/ CloneFails
    <3>1. once = "clone"
      BY <2>2 DEF Cloned, CloneFails
    <3>2. WorkDir(runner.name) # d
      BY <3>1, CloneDir
    <3> QED
      BY <2>2, <3>2 DEF Cloned, CloneFails, IInv, TypeOK
  <2>3. ASSUME NEW i \in Sent, OnceEnters(i) PROVE disk'[d] = disk[d]
    <3>1. CASE disk' = disk
      BY <3>1
    <3>2. CASE disk' # disk
      <4>1. /\ disk[WorkDir(i.name)] = Nothing
            /\ disk' = [disk EXCEPT ![WorkDir(i.name)] = Clone(i.name.repo, "torn")]
        BY <2>3, <3>2 DEF OnceEnters
      <4> QED
        BY <2>1, <4>1 DEF IInv, TypeOK
    <3> QED
      BY <3>1, <3>2
  <2>4. ASSUME NEW e \in Dirs, UserMakes(e) PROVE disk'[d] = disk[d]
    BY <2>1, <2>4 DEF UserMakes, IInv, TypeOK
  <2>5. CASE Stops
    BY <2>5 DEF Stops
  <2>6. ASSUME NEW t \in Tasks, Task(t) PROVE disk' = disk
    BY <2>6 DEF Task, IsUp, Starts, StartFails, PostFails, Answers, DialAnswered, DialFails, WorkerStep
  <2>7. CASE OpenCodeStarts \/ OpenCodeFails
    BY <2>7 DEF OpenCodeStarts, OpenCodeFails, OnceOver
  <2>8. ASSUME NEW c \in Conns, NEW n, Connect(c, n) PROVE disk' = disk
    BY <2>8 DEF Connect
  <2> QED
    BY <2>2, <2>3, <2>4, <2>5, <2>6, <2>7, <2>8 DEF Next, Bridge
<1> QED
  BY <1>1, Invariant, PTL DEF Spec, WorkStays

-----------------------------------------------------------------------------
(* OpensRepo: every init, also one that nobody waits for any more, carries   *)
(* what some connection asked for.                                          *)

AskedInv ==
  /\ Asked # {} => sessionState \in Asked
  /\ \A t \in Tasks : task[t] \in Posts \cup {"dial"} => ask[t] \in Asked
  /\ \A i \in late : i.name \in Asked
  /\ session # NoDir => \E n \in Asked : session = WorkDir(n)

\* Before the first stop a post finds a container that runs, and fetch is past
\* its own only when the Once is over or nobody answered it.
ReadyInv ==
  stops = 0 =>
    /\ \A t \in Tasks : task[t] \in Posts => container = "up"
    /\ \A c \in Conns : task[<<c, "fetch">>] \in {"dial", "over"} =>
         once = "done" \/ c \in unanswered

LEMMA InitReady == Init => AskedInv /\ ReadyInv
<1> SUFFICES ASSUME Init PROVE AskedInv /\ ReadyInv
  OBVIOUS
<1>1. \A c \in Conns : <<c, "fetch">> \in Tasks /\ <<c, "init">> \in Tasks
  BY DEF Tasks
<1>2. \A t \in Tasks : task[t] = "none"
  BY DEF Init
<1>3. Asked = {}
  BY <1>1, <1>2 DEF Asked, Connected
<1> QED
  BY <1>1, <1>2, <1>3 DEF Init, AskedInv, ReadyInv, Posts

LEMMA SentAsked ==
  ASSUME AskedInv, NEW i \in Sent
  PROVE  i.name \in Asked
BY DEF AskedInv, Sent, Its

LEMMA TaskAsks ==
  ASSUME TypeOK, TasksInv, AskedInv, NEW t \in Tasks, task[t] # "none"
  PROVE  t[1] \in Conns /\ want[t[1]] \in Asked /\ sessionState \in Asked
<1>1. t[1] \in Conns /\ Connected(t[1])
  BY DEF TasksInv, Tasks
<1> QED
  BY <1>1 DEF Asked, AskedInv

\* Nobody is ever taken off the list of those who asked.
LEMMA AskedStays ==
  ASSUME TypeOK, want' = want,
         \A t \in Tasks : (task[t] = "none") = (task'[t] = "none")
  PROVE  Asked' = Asked
<1>1. \A c \in Conns : <<c, "fetch">> \in Tasks
  BY DEF Tasks
<1> QED
  BY <1>1 DEF Asked, Connected

\* A task that goes on carries what its connection or the last one asked for.
LEMMA GoOnAsks ==
  ASSUME TypeOK, TasksInv, AskedInv, NEW t \in Tasks, task[t] # "none", GoOn(t)
  PROVE  \E l \in Labels, n \in Names \cup {NoRepo} :
            /\ Goto(t, l, n) /\ l # "none" /\ l # "post1"
            /\ l \in Posts \cup {"dial"} => n \in Asked
            /\ l \in Posts => task[t] # "dial"
            /\ t[2] = "fetch" /\ l = "over" => task[t] = "dial"
            /\ t[2] = "fetch" /\ l = "dial" => task[t] = "post2"
<1>1. want[t[1]] \in Asked /\ sessionState \in Asked /\ t[1] \in Conns
  BY TaskAsks
<1>2. /\ want[t[1]] \in Names \cup {NoRepo} /\ sessionState \in Names \cup {NoRepo}
      /\ {"over", "dial", "post2"} \subseteq Labels
      /\ "over" \notin Posts \cup {"dial"} /\ "dial" \notin Posts
  BY <1>1 DEF TypeOK, Labels, Posts
<1>3. CASE Goto(t, "over", NoRepo) /\ (t[2] # "fetch" \/ task[t] = "dial")
  BY <1>2, <1>3
<1>4. CASE Goto(t, "dial", sessionState) /\ t[2] = "init"
  BY <1>1, <1>2, <1>4
<1>5. CASE Goto(t, "dial", want[t[1]]) /\ task[t] = "post2"
  BY <1>1, <1>2, <1>5
<1>6. CASE Goto(t, "post2", want[t[1]]) /\ task[t] # "dial"
  BY <1>1, <1>2, <1>6
<1> QED
  BY <1>3, <1>4, <1>5, <1>6 DEF GoOn, After

\* A task moves.
LEMMA MoveReady ==
  ASSUME IInv, AskedInv, ReadyInv, NEW t \in Tasks, task[t] # "none",
         NEW l \in Labels, NEW n, Goto(t, l, n), l # "none",
         l \in Posts \cup {"dial"} => n \in Asked,
         l \in Posts => stops # 0 \/ container' = "up",
         t[2] = "fetch" /\ l \in {"dial", "over"} =>
           stops # 0 \/ once = "done" \/ t[1] \in unanswered',
         unanswered \subseteq unanswered', late' \subseteq late \cup {Its(t)},
         task[t] \in Posts \cup {"dial"} \/ late' = late,
         UNCHANGED <<want, sessionState, once, session, stops>>,
         container = "up" => container' = "up"
  PROVE  (AskedInv /\ ReadyInv)'
<1>1. /\ \A u \in Tasks : u # t => task'[u] = task[u] /\ ask'[u] = ask[u]
      /\ task'[t] = l /\ ask'[t] = n
  BY DEF IInv, TypeOK, Goto
<1>2. Asked' = Asked
  BY <1>1, AskedStays DEF IInv
<1>3. AskedInv'
  <2>1. \A u \in Tasks : task'[u] \in Posts \cup {"dial"} => ask'[u] \in Asked'
    BY <1>1, <1>2 DEF AskedInv
  <2>2. \A i \in late' : i.name \in Asked'
    BY <1>2 DEF AskedInv, Its
  <2>3. session' # NoDir => \E m \in Asked' : session' = WorkDir(m)
    BY <1>2 DEF AskedInv
  <2> QED
    BY <1>2, <2>1, <2>2, <2>3 DEF AskedInv, WorkDir
<1>4. ReadyInv'
  <2> SUFFICES ASSUME stops = 0 PROVE ReadyInv'
    BY DEF ReadyInv
  <2>1. \A u \in Tasks : task'[u] \in Posts => container' = "up"
    BY <1>1 DEF ReadyInv
  <2>2. ASSUME NEW c \in Conns, task'[<<c, "fetch">>] \in {"dial", "over"}
        PROVE  once' = "done" \/ c \in unanswered'
    <3>1. <<c, "fetch">> \in Tasks /\ <<c, "fetch">>[1] = c /\ <<c, "fetch">>[2] = "fetch"
      BY DEF Tasks
    <3> QED
      BY <1>1, <2>2, <3>1 DEF ReadyInv
  <2> QED
    BY <2>1, <2>2 DEF ReadyInv
<1> QED
  BY <1>3, <1>4

LEMMA TaskReady ==
  ASSUME IInv, AskedInv, ReadyInv, NEW t \in Tasks, Task(t)
  PROVE  (AskedInv /\ ReadyInv)'
<1> USE DEF IInv
<1>1. CASE StartFails(t)
  <2>1. PICK l \in {"error", "over"} :
            Goto(t, l, NoRepo) /\ (t[2] = "fetch" => l = "error")
    BY <1>1 DEF StartFails
  <2>2. /\ l \in Labels /\ l \notin Posts \cup {"dial"} /\ l # "none"
        /\ task[t] # "none" /\ WorkerStep /\ UNCHANGED <<unanswered, late, container>>
    BY <1>1 DEF Labels, Posts, StartFails
  <2> QED
    BY <2>1, <2>2, MoveReady DEF WorkerStep
<1>2. CASE Starts(t)
  <2>1. /\ task[t] = "ensure" /\ Goto(t, "post1", sessionState) /\ container' = "up"
        /\ UNCHANGED <<unanswered, late>> /\ WorkerStep
    BY <1>2 DEF Starts
  <2>2. sessionState \in Asked
    BY <2>1, TaskAsks
  <2>3. "post1" \in Labels /\ "post1" # "none" /\ "post1" \notin {"dial", "over"}
    BY DEF Labels, Posts
  <2> QED
    BY <2>1, <2>2, <2>3, MoveReady DEF WorkerStep
<1>3. CASE ~StartFails(t) /\ ~Starts(t)
  <2>1. GoOn(t) /\ WorkerStep /\ UNCHANGED container /\ task[t] # "none"
    BY <1>3 DEF Task, IsUp, PostFails, Answers, DialAnswered, DialFails, Posts
  <2>2. PICK l \in Labels, n \in Names \cup {NoRepo} :
            /\ Goto(t, l, n) /\ l # "none" /\ l # "post1"
            /\ l \in Posts \cup {"dial"} => n \in Asked
            /\ l \in Posts => task[t] # "dial"
            /\ t[2] = "fetch" /\ l = "over" => task[t] = "dial"
            /\ t[2] = "fetch" /\ l = "dial" => task[t] = "post2"
    BY <2>1, GoOnAsks
  <2>3. unanswered \subseteq unanswered'
    BY <1>3 DEF Task, IsUp, PostFails, Answers, DialAnswered, DialFails
  <2>4. /\ late' \subseteq late \cup {Its(t)}
        /\ task[t] \in Posts \cup {"dial"} \/ late' = late
    BY <1>3 DEF Task, IsUp, PostFails, Answers, DialAnswered, DialFails, Leaves
  <2>5. l \in Posts => stops # 0 \/ container' = "up"
    <3>1. CASE task[t] \in Posts
      BY <2>1, <3>1 DEF ReadyInv
    <3>2. CASE task[t] \notin Posts /\ task[t] # "dial"
      BY <1>3, <3>2 DEF Task, IsUp, PostFails, Answers, DialAnswered, DialFails
    <3> QED
      BY <2>2, <3>1, <3>2
  <2>6. t[2] = "fetch" /\ l \in {"dial", "over"} =>
          stops # 0 \/ once = "done" \/ t[1] \in unanswered'
    <3> SUFFICES ASSUME t[2] = "fetch", l \in {"dial", "over"}, stops = 0
                 PROVE  once = "done" \/ t[1] \in unanswered'
      OBVIOUS
    <3>1. t = <<t[1], "fetch">> /\ t[1] \in Conns
      BY DEF Tasks
    <3>2. CASE task[t] = "dial"
      BY <2>3, <3>1, <3>2 DEF ReadyInv
    <3>3. CASE task[t] = "post2"
      BY <1>3, <3>3 DEF Task, IsUp, PostFails, Answers, DialAnswered, DialFails, ReadyInv, Posts
    <3> QED
      BY <2>2, <3>2, <3>3
  <2> QED
    BY <2>1, <2>2, <2>3, <2>4, <2>5, <2>6, MoveReady DEF WorkerStep
<1> QED
  BY <1>1, <1>2, <1>3

LEMMA ConnectReady ==
  ASSUME IInv, AskedInv, ReadyInv, NEW c \in Conns, NEW n \in Names \cup {NoRepo}, Connect(c, n)
  PROVE  (AskedInv /\ ReadyInv)'
<1> USE DEF IInv
<1>1. /\ ~Connected(c) /\ task' = [t \in Tasks |-> IF t[1] = c THEN "ensure" ELSE task[t]]
      /\ want' = [want EXCEPT ![c] = n] /\ sessionState' = n
      /\ UNCHANGED <<ask, unanswered, late, once, session, container, stops>>
  BY DEF Connect, onceVars
<1>2. \A d \in Conns : <<d, "fetch">> \in Tasks /\ <<d, "fetch">>[1] = d
  BY DEF Tasks
<1>3. \A t \in Tasks : task'[t] # "ensure" => task'[t] = task[t]
  BY <1>1
<1>4. n \in Asked' /\ Asked \subseteq Asked'
  <2>1. Connected(c)' /\ \A d \in Conns : Connected(d) => Connected(d)' /\ d # c
    BY <1>1, <1>2 DEF Connected
  <2>2. want'[c] = n /\ \A d \in Conns \ {c} : want'[d] = want[d]
    BY <1>1 DEF TypeOK
  <2> QED
    BY <2>1, <2>2 DEF Asked
<1>5. AskedInv'
  <2>1. \A t \in Tasks : task'[t] \in Posts \cup {"dial"} => ask'[t] \in Asked'
    BY <1>1, <1>3, <1>4 DEF AskedInv, Posts
  <2>2. \A i \in late' : i.name \in Asked'
    BY <1>1, <1>4 DEF AskedInv
  <2>3. session' # NoDir => \E m \in Asked' : session' = WorkDir(m)
    BY <1>1, <1>4 DEF AskedInv
  <2> QED
    BY <1>1, <1>4, <2>1, <2>2, <2>3 DEF AskedInv, WorkDir
<1>6. ReadyInv'
  BY <1>1, <1>2, <1>3 DEF ReadyInv, Posts
<1> QED
  BY <1>5, <1>6

LEMMA StopsReady == IInv /\ AskedInv /\ Stops => (AskedInv /\ ReadyInv)'
<1> SUFFICES ASSUME IInv, AskedInv, Stops PROVE (AskedInv /\ ReadyInv)'
  OBVIOUS
<1> USE DEF IInv
<1>1. /\ stops \in Nat /\ stops' = stops + 1 /\ session' = NoDir /\ late' = {}
      /\ UNCHANGED <<want, sessionState>>
  BY DEF Stops, FreshBridge, TypeOK
<1>2. \A t \in Tasks :
        LET broken == task[t] \in Posts \cup {"dial"}
        IN  /\ task'[t] = IF broken THEN After(t, task[t])[1] ELSE task[t]
            /\ ask'[t] = IF broken THEN After(t, task[t])[2] ELSE ask[t]
  BY DEF Stops
<1>3. \A t \in Tasks : (task[t] = "none") = (task'[t] = "none")
  BY <1>2 DEF After, Posts
<1>4. Asked' = Asked
  BY <1>1, <1>3, AskedStays
<1>5. \A t \in Tasks : task'[t] \in Posts \cup {"dial"} => ask'[t] \in Asked'
  <2> SUFFICES ASSUME NEW t \in Tasks, task'[t] \in Posts \cup {"dial"}
               PROVE  ask'[t] \in Asked
    BY <1>4
  <2>1. CASE task[t] \in Posts \cup {"dial"}
    <3>1. want[t[1]] \in Asked /\ sessionState \in Asked
      BY <2>1, TaskAsks DEF Posts
    <3> QED
      BY <1>2, <2>1, <3>1 DEF After, Posts
  <2>2. CASE task[t] \notin Posts \cup {"dial"}
    BY <1>2, <2>2
  <2> QED
    BY <2>1, <2>2
<1>6. AskedInv'
  BY <1>1, <1>4, <1>5 DEF AskedInv
<1> QED
  BY <1>1, <1>6 DEF ReadyInv

LEMMA BridgeReady ==
  ASSUME IInv, AskedInv, ReadyInv, BridgeStep,
         late' \subseteq late, once = "done" => once' = "done",
         session' # NoDir => session' = session \/ \E i \in Sent : session' = WorkDir(i.name)
  PROVE  (AskedInv /\ ReadyInv)'
<1>1. Asked' = Asked /\ UNCHANGED <<task, ask, sessionState, unanswered, container, stops>>
  BY DEF BridgeStep, workerVars, Asked, Connected
<1>2. session' # NoDir => \E n \in Asked : session' = WorkDir(n)
  BY SentAsked DEF AskedInv
<1>3. AskedInv'
  BY <1>1, <1>2 DEF AskedInv, WorkDir
<1> QED
  BY <1>1, <1>3 DEF ReadyInv

LEMMA NextReady == IInv /\ AskedInv /\ ReadyInv /\ [Next]_vars => (AskedInv /\ ReadyInv)'
<1> SUFFICES ASSUME IInv, AskedInv, ReadyInv, [Next]_vars PROVE (AskedInv /\ ReadyInv)'
  OBVIOUS
<1>1. CASE UNCHANGED vars
  BY <1>1, BridgeReady DEF vars, BridgeStep, onceVars
<1>2. CASE Bridge
  <2>1. CASE OpenCodeStarts
    <3>1. runner \in Sent
      BY <2>1 DEF OpenCodeStarts, OnceOver, IInv, TypeOK
    <3> QED
      BY <2>1, <3>1, BridgeReady DEF OpenCodeStarts, OnceOver
  <2>2. CASE ~OpenCodeStarts
    <3>1. /\ BridgeStep /\ late' \subseteq late /\ session' = session
          /\ once = "done" => once' = "done"
      BY <1>2, <2>2 DEF Bridge, OnceEnters, Cloned, CloneFails, OpenCodeFails, OnceOver
    <3> QED
      BY <3>1, BridgeReady
  <2> QED
    BY <2>1, <2>2
<1>3. ASSUME NEW d \in Dirs, UserMakes(d) PROVE (AskedInv /\ ReadyInv)'
  BY <1>3, BridgeReady DEF UserMakes, onceVars
<1>4. ASSUME NEW c \in Conns, NEW a \in Args[c], Connect(c, ParseRepo(a))
      PROVE  (AskedInv /\ ReadyInv)'
  BY <1>4, ConnectReady, ParseType
<1> QED
  BY <1>1, <1>2, <1>3, <1>4, TaskReady, StopsReady DEF Next

\* While everybody asks for one repository OpenCode works in its directory, and
\* who is told "Ready!" after an answered POST has an OpenCode, unless the
\* container was stopped, or git clone or the start failed: for every number of
\* connections, spellings, repositories and POSTs that nobody answers.
THEOREM RepoOpened == Spec => []OpensRepo
<1>1. IInv /\ AskedInv /\ ReadyInv => OpensRepo
  <2> SUFFICES ASSUME IInv, AskedInv, ReadyInv PROVE OpensRepo
    OBVIOUS
  <2>1. session # NoDir => session \in {WorkDir(n) : n \in Asked}
    BY DEF AskedInv
  <2>2. \A c \in Conns : Ready(c) /\ stops = 0 /\ ~failed => session # NoDir
    BY DEF Ready, ReadyInv, IInv, StartInv
  <2> QED
    BY <2>1, <2>2 DEF OpensRepo
<1> QED
  BY <1>1, InitReady, NextReady, Invariant, PTL DEF Spec
=============================================================================
