---------------------------- MODULE RelayServer ----------------------------
(***************************************************************************)
(* The SSH relay as a service: its start-up, the host key it makes on its  *)
(* first start, the logins that run side by side with the key registry in  *)
(* SQLite, and systemd, which starts it again whenever it ends.            *)
(* What a login does after UpdateLastUsed is RelaySession.                 *)
(***************************************************************************)
EXTENDS Integers, FiniteSets

CONSTANTS Keys,         \* the public keys that log in
          Logins,       \* SSH connections, each with one key at a time
          NoKey,        \* no key, and no row in the registry
          MaxFaults,    \* bounds the failing starts, kills and signals
          MaxTime       \* bounds the clock

ASSUME RelayServerAssumption ==
  /\ NoKey \notin Keys /\ NoKey \notin [created : Nat, used : Int]
  /\ MaxFaults \in Nat /\ MaxTime \in Nat

VARIABLES
  proc,       \* where main is; "off": no process
  auto,       \* --auto-register, AUTO_REGISTER
  keyFile,    \* the host key on disk: "none", "torn" (cut off), "whole"
  made,       \* the host keys ssh-keygen has written
  served,     \* those a relay has listened with
  rows,       \* the table keys: fingerprint -> created_at, last_used
  login,      \* where the handlers of each connection are
  key,        \* the key of each connection
  now,        \* what each handler's last time.Now() returned
  accepted,   \* the keys whose login was accepted, ever
  clock, faults

mainVars == <<proc, auto, keyFile, made, served, faults>>
loginVars == <<login, key, now, accepted>>
vars == <<mainVars, rows, loginVars, clock>>

Never == -1
Times == 0 .. MaxTime
Row(c, u) == [created |-> c, used |-> u]
Registered(k) == rows[k] # NoKey
Serving == proc \in {"listen", "closing"}

Init ==
  /\ proc = "off" /\ auto = TRUE
  /\ keyFile = "none" /\ made = 0 /\ served = {}
  /\ rows = [k \in Keys |-> NoKey]
  /\ login = [l \in Logins |-> "idle"] /\ key = [l \in Logins |-> NoKey]
  /\ now = [l \in Logins |-> 0] /\ accepted = {}
  /\ clock = 0 /\ faults = 0

-----------------------------------------------------------------------------
(* main: each step may be the last, by log.Fatal, a kill or a crash.        *)

Goto(from, to) == proc = from /\ proc' = to /\ UNCHANGED <<rows, loginVars, clock>>

\* Seeded fault: the directory of the host key is made afresh.
StartsAfresh ==
  /\ Goto("off", "registry")
  /\ auto' \in BOOLEAN /\ keyFile' = "none"
  /\ UNCHANGED <<made, served, faults>>

\* Flags and environment are read anew: the operator may have changed them.
Starts ==
  /\ Goto("off", "registry")
  /\ auto' \in BOOLEAN
  /\ UNCHANGED <<keyFile, made, served, faults>>

\* NewRegistry creates the table if there is none, then the host key is looked
\* for: a file that is there is used, whatever it holds.
Stats ==
  /\ Goto("registry", IF keyFile = "none" THEN "keygen" ELSE "load")
  /\ UNCHANGED <<auto, keyFile, made, served, faults>>

\* ssh-keygen opens the file, then writes the key into it.
KeygenOpens ==
  /\ Goto("keygen", "write")
  /\ keyFile' = "torn"
  /\ UNCHANGED <<auto, made, served, faults>>

KeygenWrites ==
  /\ Goto("write", "load")
  /\ keyFile' = "whole" /\ made' = made + 1
  /\ UNCHANGED <<auto, served, faults>>

Listens ==
  /\ keyFile = "whole"
  /\ Goto("load", "listen")
  /\ served' = served \cup {made}
  /\ UNCHANGED <<auto, keyFile, made, faults>>

LoadFails ==
  /\ keyFile = "torn"
  /\ Goto("load", "off")
  /\ UNCHANGED <<auto, keyFile, made, served, faults>>

\* SIGINT or SIGTERM: the goroutine closes the server.
Signalled ==
  /\ faults < MaxFaults /\ faults' = faults + 1
  /\ Goto("listen", "closing")
  /\ UNCHANGED <<auto, keyFile, made, served>>

\* The process is gone, and every handler with it; SQLite keeps what was
\* committed.
Gone ==
  /\ proc' = "off"
  /\ login' = [l \in Logins |-> "idle"]
  /\ UNCHANGED <<auto, keyFile, made, served, rows, key, now, accepted, clock>>

\* Seeded fault: main waits for the sessions to end.
ExitsWhenIdle ==
  /\ proc = "closing" /\ Gone /\ UNCHANGED faults
  /\ \A l \in Logins : login[l] = "idle"

\* ListenAndServe returns, the registry is closed, main returns.
Exits == proc = "closing" /\ Gone /\ UNCHANGED faults

\* A log.Fatal of a step that fails, a kill, a crash.
Dies ==
  /\ proc # "off" /\ faults < MaxFaults /\ faults' = faults + 1
  /\ Gone

-----------------------------------------------------------------------------
(* A login: the public-key handler, then the head of the session handler.   *)

Step(l, from, to) ==
  /\ Serving /\ login[l] = from
  /\ login' = [login EXCEPT ![l] = to]
  /\ UNCHANGED <<mainVars, clock>>

\* Seeded fault: the handler does not put the fingerprint into the context.
ConnectsUnnamed(l) ==
  /\ proc = "listen"
  /\ Step(l, "idle", "check")
  /\ UNCHANGED <<rows, key, now, accepted>>

Connects(l) ==
  /\ proc = "listen"
  /\ Step(l, "idle", "check")
  /\ \E k \in Keys : key' = [key EXCEPT ![l] = k]
  /\ UNCHANGED <<rows, now, accepted>>

\* The handler returns false: an unknown key, or a statement that failed.
Rejects(l) ==
  /\ login[l] \in {"check", "register"}
  /\ Step(l, login[l], "idle")
  /\ UNCHANGED <<rows, key, now, accepted>>

Accept(l) == accepted' = accepted \cup {key[l]}

Finds(l) ==
  /\ Step(l, "check", "accepted")
  /\ Registered(key[l])
  /\ Accept(l)
  /\ UNCHANGED <<rows, key, now>>

\* Seeded fault: every login registers its key.
MissesAlways(l) ==
  /\ Step(l, "check", "register")
  /\ auto
  /\ now' = [now EXCEPT ![l] = clock]
  /\ UNCHANGED <<rows, key, accepted>>

\* time.Now() is taken before the statement runs.
Misses(l) ==
  /\ Step(l, "check", "register")
  /\ ~Registered(key[l]) /\ auto
  /\ now' = [now EXCEPT ![l] = clock]
  /\ UNCHANGED <<rows, key, accepted>>

\* Seeded fault: an error of the statement is logged and no more.
RegistersOrNot(l) ==
  /\ Step(l, "register", "accepted")
  /\ \/ rows' = [rows EXCEPT ![key[l]] = Row(now[l], Never)]
     \/ UNCHANGED rows
  /\ Accept(l)
  /\ UNCHANGED <<key, now>>

\* INSERT OR REPLACE: a row that another login has added is written anew.
Registers(l) ==
  /\ Step(l, "register", "accepted")
  /\ rows' = [rows EXCEPT ![key[l]] = Row(now[l], Never)]
  /\ Accept(l)
  /\ UNCHANGED <<key, now>>

Opens(l) ==
  /\ Step(l, "accepted", "update")
  /\ now' = [now EXCEPT ![l] = clock]
  /\ UNCHANGED <<rows, key, accepted>>

Updates(l) ==
  /\ Step(l, "update", "session")
  /\ rows' = [rows EXCEPT ![key[l]].used = now[l]]
  /\ UNCHANGED <<key, now, accepted>>

\* The result of UpdateLastUsed is not looked at.
UpdateFails(l) ==
  /\ Step(l, "update", "session")
  /\ UNCHANGED <<rows, key, now, accepted>>

Leaves(l) ==
  /\ login[l] \in {"accepted", "session"}
  /\ Step(l, login[l], "idle")
  /\ UNCHANGED <<rows, key, now, accepted>>

Ticks == clock < MaxTime /\ clock' = clock + 1 /\ UNCHANGED <<mainVars, rows, loginVars>>

-----------------------------------------------------------------------------

Main ==
  \/ Starts \/ Stats \/ KeygenOpens \/ KeygenWrites \/ Listens \/ LoadFails \/ Exits

Handlers(l) ==
  \/ Connects(l) \/ Rejects(l) \/ Finds(l) \/ Misses(l) \/ Registers(l)
  \/ Opens(l) \/ Updates(l) \/ UpdateFails(l) \/ Leaves(l)

Next == Main \/ Signalled \/ Dies \/ Ticks \/ \E l \in Logins : Handlers(l)

Spec == Init /\ [][Next]_vars

\* systemd starts the relay again (Restart=always), and main does not wait for
\* anybody.
FairSpec == Spec /\ WF_vars(Main)

-----------------------------------------------------------------------------
(* What the relay keeps.                                                    *)

\* The types; and no handler runs without the process.
TypeOK ==
  /\ proc \in {"off", "registry", "keygen", "write", "load", "listen", "closing"}
  /\ auto \in BOOLEAN /\ keyFile \in {"none", "torn", "whole"}
  /\ made \in Nat /\ served \in SUBSET Nat
  /\ rows \in [Keys -> [created : Times, used : Times \cup {Never}] \cup {NoKey}]
  /\ login \in [Logins -> {"idle", "check", "register", "accepted", "update", "session"}]
  /\ key \in [Logins -> Keys \cup {NoKey}] /\ now \in [Logins -> Times]
  /\ accepted \in SUBSET Keys /\ clock \in Times /\ faults \in 0 .. MaxFaults
  /\ \A l \in Logins : login[l] # "idle" => Serving /\ key[l] # NoKey

\* A key whose login was accepted is in the registry from then on, so that its
\* next login is accepted whatever --auto-register is by then, across kills,
\* restarts and failing statements (NewPublicKeyHandler).
AcceptedStays == \A k \in accepted : Registered(k)

\* No login is about to write the row of key k anew.
Settled(k) ==
  Registered(k) /\ \A l \in Logins : ~(login[l] = "register" /\ key[l] = k)

\* Two first logins of a key may both miss it, and the second one's INSERT OR
\* REPLACE moves the date of the first. Once those are over, the date is final:
\* no later login, update or restart moves it.
DateSettles ==
  [][\A k \in Keys : Settled(k) => Settled(k)' /\ rows'[k].created = rows[k].created]_vars

\* Users meet one host key for ever, however often the relay is killed, signalled
\* and started, and wherever the first start was interrupted (main.go:102).
OneHostKey == Cardinality(served) <= 1

\* When nobody kills it any more the relay ends up listening, with one
\* exception: a host key that a kill has cut off is never replaced.
ComesUp == <>[](proc = "listen" \/ keyFile = "torn")
=============================================================================
