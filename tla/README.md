# Formal models of ssh-opencode

ssh-opencode gives an SSH user a terminal on OpenCode in a container of their
own. This directory holds TLA+ models of the programs between the two, the TLC
runs that check them and the TLAPS proofs about them. Line numbers refer to the
sources in this repository.

    SSH client - ssh-relay - worker (Durable Object) - pty-bridge - PTY - opencode

Run a model with `tlc -config <run>.cfg <module>.tla`, check proofs with
`tlapm <module>.tla` on the modules whose name ends in Proofs or Refinement.
`PROJECT.json` lists the runs with their properties, which lines each definition
stands for, the seeded faults that each property finds, the hazards and the
theorems.

## 1. Inventory

| Part | Keeps | Does | What is hard |
|---|---|---|---|
| PTY bridge (`container/pty-bridge/main.go`) | the one session: PTY, output buffer, WebSocket clients, running flag, exit code, `done` | starts OpenCode once; `/ws`, `/init`, `/write`, `/read`, `/writeread`, `/resize`, `/status`; reader, waiter, Broadcast | goroutines, four locks and unlocked reads; slow clients; a bounded buffer that reading empties; the end of the process |
| Durable Object (`worker/src/container-manager.ts`) | the clients' WebSockets, `containerWs`, `containerWsReady`, `sessionState` | starts the container, dials the bridge, forwards output and keys, falls back to HTTP | handlers that interleave at every await of the container; listeners of old sockets; container stops |
| Workspace (`ParseRepo`, `sessionState.repo`, `getWorkDir`, `ensureRepo`, `entrypoint.sh`) | the directories of the container, on a disk that may outlive it | finds, clones or pulls a repository and starts OpenCode in it | one Once for every init of every connection; names that collide; clones that fail or are killed |
| Worker entry (`worker/src/index.ts`) | nothing | routes a session to its object | nothing: a name is mapped to an object |
| SSH relay session (`ssh-relay/internal/session/handler.go`) | one WebSocket, `done`, a WaitGroup | ping, keys, output, window changes in four goroutines | blocking reads, who closes what, the end of a session |
| Relay start-up (`ssh-relay/cmd/relay/main.go`) | flags, host key | makes the host key once, listens; systemd starts it again | kills in the middle of the first start |
| Key registry, key handler (`ssh-relay/internal/auth`) | SQLite table of keys | check, register, last use | check-then-act between logins, statements that fail |
| Protocol (`proxy/protocol.go`, `protocol.ts`, `main.go`) | nothing | three copies of the message type | that they agree |
| Local proxy (`local-proxy/main.go`) | one WebSocket and `done` per session, one container for all | the worker's stand-in for development | two closers of one channel, two writers of one connection, sessions that take each other's output |
| Docker, scripts | - | build and deploy | - |

How they interact: the relay opens one WebSocket per SSH session to the worker
and sends `init`, then keys (`data`), `resize` and a `ping` every 100 ms. The
object starts the container, posts `/init`, dials `/ws` and sends `init` there;
output comes back as `data` on that stream or as the answer to `/read` and
`/writeread`. When OpenCode ends the bridge broadcasts `exit` and ends itself
500 ms later, which stops the container.

What makes each part correct:

- Bridge: OpenCode is started once; pollers get the output in order and lose
  only its oldest part; a stream has no gap, whatever other clients do; an exit
  that is told is true; no request hangs and the bridge ends after OpenCode. All
  of this is `TerminalSession`, seen from outside.
- Object: a ready stream can be used; a key takes one way to the PTY, reaches it at
  most once and keeps its place on a stream (`KeyDelivery`, seen from outside);
  without a stream the polls deliver.
- Workspace: OpenCode works in the repository everybody asked for, a repository
  has one clone, and nothing of the user's is replaced.
- Relay session: one writer per WebSocket; `done` is closed once; nothing runs
  after the end; the session ends when the worker and the user are gone.
- Relay service: an accepted key stays registered with a date that settles; users
  meet one host key; the relay comes up again.
- Local proxy: output that was taken is forwarded, no output follows an exit, a
  session whose relay is gone ends, and once its `done` is closed it stops taking
  output from the others; a chunk goes to one session (`SharedOutput`, seen from
  outside).

## 2. Modules

| Module | Models |
|---|---|
| `TerminalSession` | abstract: what the bridge promises its users |
| `KeyDelivery` | abstract: what the object promises about keys |
| `SharedOutput` | abstract: what the proxy's sessions promise each other about output |
| `OutputBuffer` | the bridge's output buffer: `Write` with its cut, `Read` |
| `PtyBridge` | all goroutines of the bridge process, over `OutputBuffer`; implements `TerminalSession` |
| `ContainerManager` | the Durable Object of one session, composed with as much of the bridge as it can see; implements `KeyDelivery` |
| `Workspace` | the launch of a repository, composed of the relay's parser, the object's tasks, the bridge's Once and the disk |
| `RelaySession` | one SSH session of the relay |
| `RelayServer` | the relay as a service: start-up, host key, logins, registry, restarts |
| `LocalProxy` | the development proxy with several sessions on one container; implements `SharedOutput` |
| `MC...` | values for TLC |
| `...Proofs`, `PtyBridgeRefinement` | theorems |

Operators whose comment starts with "Seeded fault" are in no specification:
each is a variant of a definition with a plausible mistake, and PROJECT.json
says which property finds it when it takes the definition's place.

### PtyBridge

`pc` has an entry for each goroutine: one handler per WebSocket connection
(`Conns`) and per HTTP request (`Requests`), the reader, and the waiter on the
child. A step is what a goroutine does between two points at which another can
be seen. Unlocked reads of shared variables (`session`, `isRunning`) are steps
of their own. A lock that is held over a blocking call is modelled as held:
`session.mu` during a PTY write that waits for room, `clientsMu` during a
Broadcast. An RWMutex reader waits behind a waiting writer only in `/status`,
which holds one read lock and asks for the next.

- Output is the sequence of chunks 1, 2, ... that `ptmx.Read` returned; bytes
  inside a chunk play no part. `BufCap` stands for 1 MiB.
- Keys are a count: what matters is that a write blocks when the PTY is full.
- A connection is up, stalled (the peer does not read), dead (a write failed,
  after which gorilla/websocket fails all later ones) or down.
- Write deadlines are `none`, `ahead` or `past`: time passes when it likes.
- Two goroutines in a write of one connection are undefined behaviour for
  gorilla/websocket: it panics or the frames garble (`ConcurrentWrite`,
  `Garble`). A panic in a handler is recovered by net/http, one in the reader
  or the waiter ends the process (`Halt`).
- Requests that do not decode change nothing and are left out.

### TerminalSession and the refinement

The abstract session knows no goroutine, lock or connection: it begins, emits
chunks into what is kept for the next poll, may throw away the oldest beyond the
`Keep` newest, hands all that is kept to one poll, shows a client the newest
chunk (its first, or the one after its last), tells the exit to whoever asks
after it happened, and is over. `PtyBridge!Implements` instantiates it with
`buffer`, `drained` and `wire` as they are, `Phase` computed from `session`,
`alive` and `child`, and `Told` from the exit messages and the answers of polls.
Chunks between `ptmx.Read` and `output.Write` have not been emitted yet.

### ContainerManager

The object's events are atomic up to an await of the container; awaits of its
own storage let no other event in. A task is a handler call, named by client and
kind, and `pc` says which answer it waits for. A socket to the bridge is named
after the task that dials it. `sock` has both ends' view: "closing" was closed
here, "lost" there. `down` and `up` are what is on its way on a socket; 0 in `up`
is the init message.

- `Fails` and `Aborts` choose whether starts, dials and calls may fail with a
  running container; a call to a stopped one always fails. With `Fails` the
  bridge's one start of OpenCode may fail too (`MeetsPty`): then every init on a
  socket ends in an error or a panic of its handler and the socket is lost
  (`SockRefused`), and a POST types nothing.
- A single connection may break with the container up (`SockBreaks`): both sides
  lose some end of what is on its way, and the object sends on it until its close
  listener runs.
- A closed connection is taken to have left `getWebSockets()` when
  `webSocketClose` is called, and the runtime reports a container's stop before
  it starts it again.
- Sends on a socket that the other side has lost either throw or go nowhere.
- Bounds of the model that the code does not have: a client makes one connect
  and sends one init (as the relay does), waits for one ping and one POST at a
  time, and prints, keys and stops are counted.

### KeyDelivery and its refinement

The abstract delivery knows no task, call or container. Keys 1, 2, ... are
pressed; a key takes a lane: a stream, which is opened once, begins with a
greeting and is never used again after it was shut, or a post, which carries one
key at a time. What is first on a lane arrives, and the greeting types nothing. A
post may lose its key; one stream may break by itself and lose the end of what is
on it (`Cut`), or all of them with the container (`Break`). So a key
takes one way, falling back included, and only keys of different lanes overtake
each other, which they may: the code orders a stream and a POST in no way.

`ContainerManager!DeliversKeys` instantiates it with the sockets as streams and
the tasks of kind "key" as posts. `Stream` forgets who closed a socket and whether
the bridge has registered it; `Lane` is `up` for a socket, and the key of a POST
that the bridge has not handled yet. A dial that is answered is `Open`,
`closeContainerWs` is `Shut`, an init that the bridge refuses and a connection
that breaks are `Cut`, a stop of the container is `Break`, an aborted POST, or one
that finds no session, is `Lose`.

### Workspace

From `ssh host user/repo` to OpenCode in a directory. `ParseRepo` says for an
argument (its form, whether it ends in ".git" or a slash) which pattern matches
and what is left of it; `WorkDir` is `getWorkDir`. A connection has two tasks in
the object, fetch and the init message, and each goes through
ensureContainerReady: a ping, a start, after which `sessionState` is read, an
init; then fetch posts an init of its own and dials. `ask` is the repository of
the init that a task sends. Every init, by HTTP or on a stream, meets the
bridge's Once: the first one to get there runs it, through a clone that takes
time, and all the others wait for its end and then use the session, nil or not.
An init is a record of its task, its step and its name (`Calls`), so that a
task's second one is told from its first: only the one that ran a failed start
(`runner`) is told, a later one of the same task panics like any other.

- A POST may have no answer from a container that runs (`PostFails`), and a dial
  may be refused or fail (`DialFails`): both are logged and the task goes on. An
  init whose POST was given up, and the init behind a dial, for which the object
  does not wait, may still be handled: `late` has them until the Once is over.
- The bridge answers a dial's upgrade at once, so fetch gets to "Ready!" without
  the Once; what ties "Ready!" to OpenCode is the POST before it.
- A start fails with any error of StartWithSize, its directory there or not.
- Bound: `MaxLost` POSTs that a running container does not answer. Past the Once
  an init is handled in the step in which its task goes on.
- A directory holds nothing, the user's files, a whole clone, or a ".git"
  without the rest, which is a clone under way or one that was killed.
- A pull changes the inside of a clone, of which the model says nothing.
- `mounted` is the branch of entrypoint.sh that links /root/dev to /data/dev:
  with it the disk outlives the container.
- Bound: each connection connects and sends its init once, `MaxStops` stops.

### RelaySession

Main line and four goroutines, with `done`, the mutex of `safeConn`, the two
peers and the window channel of capacity one. The goroutine that sends is at
"lock" or "write" inside `WriteMessage`. The worker may send, exit and break at
any time, the user may type, resize and hang up at any time. A hang-up makes
`s.Read` fail and closes the window channel, as gliderlabs/ssh does.

### RelayServer

`proc` is where `main` is. Any step may be its last (`Dies`: log.Fatal, a kill, a
crash), after which `Starts` is systemd's `Restart=always`; flags and environment
may have changed. ssh-keygen opens the key file before it fills it, so a kill in
between leaves one that is cut off. A login is the public-key handler and the
head of the session handler, one step per SQL statement, with `time.Now()` taken
before the statement runs; each statement may fail. SQLite serializes statements
and keeps what was committed. What comes after UpdateLastUsed is `RelaySession`.
Bounds: `MaxFaults` deaths and signals, `MaxTime` ticks; a connection may log in
again and again.

### LocalProxy

One handler and two goroutines per session, over one container whose bridge is
fresh, running, exited or down. The response to a `/read` is a sequence of lines
of which each is a write of its own; a line is what it shows: chunks, 0 for the
exit, nothing for an error. `data`, `resize` and
`init` messages all end in a POST whose outcome is ignored. A relay that is gone
is "lost" (reads fail, writes may still succeed) or "down". A second close of
`done`, and a panic of gorilla/websocket at two writers, end the process.

### SharedOutput and its refinement

One container, several readers: what waits in the container's buffer goes to the
reader who asks, all of it, and is nobody else's. A reader is shown what it took
before it takes more, is told the end only after all it took, and takes and is
shown nothing after that. A reader that has left may still take what it will
not show; a container that stops loses what waits. `LocalProxy!SharesOutput`
maps `took` and `buffer` as they are, `shown` to what was sent without the exit,
`ended` to the sessions whose last message is the exit and `gone` to those with a
lost or closed connection. A panic is a stutter: it ends all, and shows nothing.

## 3. Runs

| Run | Shows |
|---|---|
| `bridge_stream` | two clients that ping, stall, fail and leave: `OneSession`, `StreamComplete`, `ExitIsTrue`, and that the bridge implements `TerminalSession` |
| `bridge_poll` | three requests race reader and waiter: `BufferIsTail`, `ExitIsTrue`, and the same refinement where polls and a full buffer matter |
| `bridge_live` | `ExitEndsBridge`, `RequestsAnswered`, `GoneClientsLeave` under fairness |
| `manager_keys` | failing starts, aborts, refused and broken connections, a stop: `StreamUsable`, `KeysOnce`, and that the object implements `KeyDelivery` |
| `manager_poll` | `PollDelivers` under fairness |
| `workspace` | two connections, four spellings of two repositories of one name, failing POSTs, dials, clones and starts, a stop: `OpensRepo`, `OneClone`, `PanicsOnlyAfterFailure`, `WorkStays` |
| `relay_end` | `OneWriter`, `NothingAfterEnd`, `DoneClosedOnce`, and `SessionEnds` under fairness |
| `relay_server` | logins, kills, signals and restarts: `AcceptedStays`, `OneHostKey`, `DateSettles`, and `ComesUp` under fairness |
| `proxy_session` | two sessions on one container that prints, exits and restarts: `TakenIsForwarded`, `ExitIsLast`, `LateTakesOnce`, that the sessions implement `SharedOutput`, and `SessionEnds` under fairness |
| `manager_gap`, `relay_hangup`, `proxy_exit` | a statement of the repository that the code does not keep; section 5 |

Bounds, and why they do.

- Bridge: two clients are the least for one to stall while the other must not
  lose output, and a client's own handler is a third writer; three requests let
  two polls race an init or a write; `BufCap = 1` with three chunks makes the
  buffer overflow, be read and overflow again; one key of room makes a PTY write
  block.
- Manager: one client already has four tasks and two dials under way, which is
  where its interleavings come from; two clients exceed the time of a run, and
  the theorems cover them for all but `PollDelivers`. Two keys are the least for one to
  be counted twice beside another, one stop gives a restart. `manager_keys` prints
  nothing, since its properties are about keys and sockets; output is the matter
  of the other two.
- Workspace: two connections give four inits for one Once, and sessionState a
  second writer; two repositories of one name collide; the first connection
  types a URL that no pattern matches or the bare form with ".git", the second the
  same repository by its URL or the other one by the short form; one lost POST lets an init come late and "Ready!" come
  early; one stop gives a second start on a disk that was left.
- Relay session: two keys and two window changes meet two messages, so that every
  goroutine writes more than once.
- Relay server: two logins race for one key or use one each; three faults kill
  a first start, the start after it and a login; two times tell a date from a
  later one.
- Local proxy: two sessions are the least for one to take the other's output;
  one of them may stall, since a stalled relay matters to its own session only;
  two chunks or restarts give an order of output, or output after a restart.

TLC switches no deadlock check on for systems that stop when their clients are
gone and their bounds are used up; only `relay_server`, which never stops, keeps
it.

Fairness. The Go scheduler runs every goroutine that can run; `sync.Mutex` in
starvation mode serves the longest waiter, so lock steps of the bridge have
strong fairness. In the relay `SeesDone("ping")` has strong fairness since a
`select` chooses at random among ready cases. A PTY reader drains its keyboard
while it runs; a write deadline passes for a peer that does not read only
through Broadcast's own step. In the manager calls are answered or fail, sockets
deliver and the relay keeps pinging. In the relay server only `main` is fair:
systemd starts it and each step ends; since `Dies` is bounded, `ComesUp` says
what happens when the kills are over. In the local proxy goroutines run and
calls of the container end: `http.Get` and `http.Post` have no timeout, so that
is a promise of the bridge (`RequestsAnswered`). Peers and users are never
assumed to act, except for the pings and the close of a connection the object
closed itself.

## 4. Proofs

TLAPS proves, for all values of the constants that the named assumptions allow:

- `OutputBufferProofs`: a `Write` leaves a sequence of at most `BufCap` chunks,
  and it is the end of the old content followed by the new.
- `PtyBridgeProofs`: `TypeOK`, `OneSession` and `ExitIsTrue`. They are not
  inductive. `IInv` adds `OnceInv` (who may be inside the Once, and which labels
  need a session), `ReaderInv` (the reader has taken the chunk it stores) and
  `WaiterInv` (what the waiter has already made visible at each of its labels):
  without the last a waiter could announce an exit that has not happened, and
  without `OnceInv` a handler could type into a session that does not exist. The
  step lemmas go action by action; `Invariance` combines them.
- `PtyBridgeRefinement`: `StreamComplete`, `Implements` and `BufferIsTail`.
  `SInv` strengthens `StreamComplete`: a handler that has not registered its
  client has an empty wire (`JoinInv`), the set of clients stands still under a
  Broadcast and the client being written to does not come again (`CastInv`), and
  the last chunk in what was polled and is kept is the last one stored
  (`NewestInv`), without which Broadcast could show a chunk that is not the
  session's newest. `Simulates` says of a step that it keeps `SInv` and is a step
  of `TerminalSession` or a stutter; there is one such lemma per action, and most
  actions are `Quiet`: they touch nothing the session shows. `BufferIsTail` is
  then proved of `TerminalSession`, about its steps alone (`Kept`), and carried
  over by the refinement.
- `ContainerManagerProofs`: `TypeOK`, `StreamUsable`, `KeysOnce` and
  `DeliversKeys`, for any number of clients. `StreamUsable` is inductive because every place that closes the
  socket forgets it in the same step and every dial that succeeds replaces it;
  `KeyInv` (a task that posts has a key) makes the types inductive.
  `KeysOnce` follows from `KeysApart`: a key is in one place, on its way at one
  position of one socket, with one task that has still to post it, or typed.
  `KeysFrame` says what most steps have in common: they move keys along or drop
  them; `KeysCut` says it of a socket that keeps only some beginning of what is
  on it. `DeliversKeys` needs `LinkInv` besides: a task that has dialled never
  dials again, or a stream would be opened twice, and `FreshInv`: nothing is on a
  socket that was never dialled, so a break cuts only streams that were opened.
  `Simulates` says of a step that
  it keeps `LinkInv` and is one of `KeyDelivery` or a stutter; `StreamUsable` is
  what makes a key on a socket a key on an open stream.
- `WorkspaceProofs`: `TypeOK` and all four properties. `PlaceInv` (a clone is
  where its name says, without ".git") gives `OneClone`; `OnceInv` (the Once runs
  in a container that is up, and the directory being cloned into is torn, so that
  it is nobody's work) gives `WorkStays`; `StartInv` (until something failed the
  directory is there when OpenCode is to start, so that a start that fails is a
  failure of its own) gives `PanicsOnlyAfterFailure`. Both speak of the init that
  runs the Once, which must stay with the bridge when its task has given it up
  (`LeavesDoes`). `AskedInv` (sessionState, every init, late ones too, and the
  session are what some connection asked for) and `ReadyInv` (before a stop fetch
  gets past its own POST only with the Once over or the POST unanswered) give
  `OpensRepo`.
- `RelaySessionProofs`: `TypeOK`, `OneWriter`, `NothingAfterEnd` and
  `DoneClosedOnce`, from `MutexInv` (the writer is the holder), `MainInv` (no
  goroutine before main starts them) and `DoneInv` (whoever closed `done` has
  returned).
- `RelayServerProofs`: `TypeOK`, `AcceptedStays`, `OneHostKey` and `DateSettles`.
  `HostKeyInv` ties the state of the file to the place of `main` (ssh-keygen runs
  only where there is no file, and nothing listens with a torn one); `AcceptInv`
  says that a handler past the check has an accepted key, so that its update
  cannot make a row of nothing.
- `LocalProxyProofs`: `TypeOK`, all three invariants and `SharesOutput`. A poller that
  took a response after `done` was closed is not about to ask for another
  (`LateInv`), and one that wrote an exit is over (`ExitInv`); `Fresh` says that
  a session before its goroutines has nothing behind it. `TakenIsForwarded` needs
  the shape of what is left of a response (`Rest`: the output first, the exit
  last) and that a poller asks for the next one with nothing left (`HasLine`).
  `SharesOutput` follows from these and `LinkInv` (after a panic nobody goes on).
  `TakenByOne`, that no chunk is taken twice, is then proved of the steps of
  `SharedOutput` alone (`TakerInv`) and carried over.

The assumptions are the named ones of each module: sets that are disjoint,
model values that are none of the others, bounds that are natural numbers.

Every invariant that a run checks is proved. Only model-checked is what is
temporal beyond invariants and action properties (`ExitEndsBridge`,
`RequestsAnswered`, `GoneClientsLeave`, `PollDelivers`, both `SessionEnds`,
`ComesUp`): liveness under fairness is out of the prover's reach.

## 5. Where code and words part

Shown by runs:

1. `manager_gap`: the initial read ("container WS may not have data yet", 417)
   comes before the stream is registered at the bridge; what is printed between
   them is shown to nobody.
2. `relay_hangup`: a hang-up ends neither the session nor its pings, which renew
   the activity timeout: README.md:41 "Containers sleep after 30 min idle".
3. `proxy_exit`: after an exit both goroutines of a session close `done`, and the
   panic ends the proxy with every other session, where the worker it simulates
   (`local-proxy/main.go:1`) has an object for each.

Met while modelling, and in the models as the code has them:

- Broadcast and the pongs write to one connection without a common lock
  (`pty-bridge/main.go` 101, 205, 238), though the relay's `handler.go:28` wraps
  its connection "for safe concurrent writes". Two writers in one connection end
  it, or the process; `StreamComplete` holds for the clients that are left.
- A broadcast's deadline ("for reliability", `main.go:99`) stays on the
  connection and fails a pong five seconds later, and with it the connection.
- After a failed start later calls meet a nil session (`main.go` 201, 317) where
  comments expect "just resize", also the second init of the task whose first was
  told of the failure. By `PanicsOnlyAfterFailure` this takes a failed git clone or
  a start that fails by itself. After a failed clone "Continue anyway" (332) never
  continues, because git has removed the directory that OpenCode is to start in.
- "Ready!" (`container-manager.ts:126`) is sent whatever POST /init and the dial
  came to. `OpensRepo` therefore speaks of those whose POST was answered.
- `container-manager.ts:210` closes "any existing connection", but the dials of
  fetch and of the init message overlap and both sockets stay; every chunk is
  then shown twice.
- README.md:40 says that `ssh domain user/repo` "clones and opens repos": a second
  connection with another repository is given the session of the first, and two
  repositories of one name share a directory. `OpensRepo` is therefore stated
  for users who ask for one repository.
- README.md:39 says that the workspace survives restarts: it does where
  `/data/dev` exists when entrypoint.sh looks for it (17), and nothing under
  `src/` makes that directory. `WorkStays` speaks of both cases.
- A first start that is killed inside ssh-keygen leaves a host key that main
  takes for whole (`cmd/relay/main.go:102`); the relay then fails to load it on
  every start. `ComesUp` states the exception.
- Two first logins of one key both insert it, and the later insert resets
  `created_at` and `last_used` (`registry.go:66`); `DateSettles` states from when
  on the date is final. `auth/handler.go:11` speaks of "the first connecting
  key" where every new key is registered.
- The relay takes an error's text from `error`, the worker and the bridge write
  it to `message`.

## 6. Not modelled

- Message contents: terminal data, base64, JSON and the constructors of
  `protocol.go` and `protocol.ts`. They are stateless and no step depends on
  more than the type of a message, which the models have.
- Window sizes: `resize` messages, the size in `sessionState` and in each init,
  and their cut to 16 bits. A size is data that the next `resize` replaces; the
  goroutines, locks and sends that carry it are modelled.
- The worker's entry (`index.ts`), `/health`, `/ping`, `/status` of the object:
  they keep no state that another step reads.
- Hibernation of the object (`webSocketOpen`, the attachment): when the runtime
  evicts an object and what it then calls is not in `src/`.
- The container library's own start of a stopped container on a fetch, for the
  same reason; the object's calls to a stopped container fail in the models.
- `GetKey`, `ListKeys`, `DeleteKey`, `IsValidRepo`: nothing calls them.
- Logging, wording, images, deployment scripts.

## 7. Plan

Done: all components that keep state, each with its runs and theorems, and three
abstract specifications (the session, the keys, the shared output) with their
refinements; every invariant and action property is proved. What is left:

1. For the object's output what `KeyDelivery` is for its keys: overlapping dials
   leave two streams, so a chunk may be shown once per stream and once by a poll.
2. A composition of relay, object and bridge that says what the user sees, if its
   state can be kept small enough to check.
