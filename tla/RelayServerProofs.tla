------------------------- MODULE RelayServerProofs -------------------------
(* Proofs about RelayServer, for every set of keys and logins.               *)
EXTENDS RelayServer, FiniteSetTheorems, TLAPS

\* The inductive form of OneHostKey: ssh-keygen runs only while there is no
\* file, and what is listened with is the one key it has written.
HostKeyInv ==
  /\ keyFile = "none" => made = 0 /\ proc \in {"off", "registry", "keygen"}
  /\ keyFile = "torn" => made = 0 /\ proc \notin {"keygen", "listen", "closing"}
  /\ keyFile = "whole" => made = 1 /\ proc \notin {"keygen", "write"}
  /\ served \subseteq {1} /\ (served # {} => keyFile = "whole")

\* The inductive form of AcceptedStays: a handler past the check has an
\* accepted key.
AcceptInv ==
  /\ AcceptedStays
  /\ \A l \in Logins : login[l] \in {"accepted", "update", "session"} => key[l] \in accepted

IInv == TypeOK /\ HostKeyInv /\ AcceptInv

LEMMA InitIInv == Init => IInv
BY RelayServerAssumption
   DEF Init, IInv, TypeOK, HostKeyInv, AcceptInv, AcceptedStays, Registered, Serving, Times

-----------------------------------------------------------------------------
(* The steps of main.                                                       *)

LEMMA MainStep == IInv /\ (Main \/ Signalled \/ Dies) => IInv'
<1> SUFFICES ASSUME IInv, Main \/ Signalled \/ Dies PROVE IInv'
  OBVIOUS
<1> USE DEF IInv
<1>1. CASE Gone /\ faults' \in 0 .. MaxFaults
  <2>1. TypeOK'
    BY <1>1 DEF Gone, TypeOK, Serving
  <2>2. HostKeyInv'
    BY <1>1 DEF Gone, TypeOK, HostKeyInv
  <2>3. AcceptInv'
    BY <1>1 DEF Gone, AcceptInv, AcceptedStays, Registered
  <2> QED
    BY <2>1, <2>2, <2>3
<1>2. CASE Exits \/ Dies
  <2>1. faults' \in 0 .. MaxFaults
    BY <1>2, RelayServerAssumption DEF Exits, Dies, TypeOK
  <2> QED
    BY <1>1, <1>2, <2>1 DEF Exits, Dies
<1>3. CASE Starts \/ Stats \/ KeygenOpens \/ KeygenWrites \/ Listens \/ LoadFails \/ Signalled
  <2> USE DEF Starts, Stats, KeygenOpens, KeygenWrites, Listens, LoadFails, Signalled, Goto
  <2>1. UNCHANGED <<rows, loginVars, clock>> /\ (Serving => Serving')
    BY <1>3 DEF Serving
  <2>2. /\ proc' \in {"off", "registry", "keygen", "write", "load", "listen", "closing"}
        /\ auto' \in BOOLEAN /\ keyFile' \in {"none", "torn", "whole"}
        /\ made' \in Nat /\ served' \in SUBSET Nat
    <3>1. made' \in Nat /\ served' \in SUBSET Nat
      <4>1. made' \in {made, made + 1} /\ served' \in {served, served \cup {made}}
        BY <1>3
      <4> QED
        BY <4>1 DEF TypeOK
    <3>2. proc' \in {"off", "registry", "keygen", "write", "load", "listen", "closing"}
      BY <1>3
    <3>3. auto' \in BOOLEAN
      BY <1>3 DEF TypeOK
    <3>4. keyFile' \in {"none", "torn", "whole"}
      BY <1>3 DEF TypeOK
    <3> QED
      BY <3>1, <3>2, <3>3, <3>4
  <2>3. faults' \in 0 .. MaxFaults
    <3>1. CASE Signalled
      BY <3>1, RelayServerAssumption DEF TypeOK
    <3>2. CASE ~Signalled
      <4>1. faults' = faults
        BY <1>3, <3>2
      <4> QED
        BY <4>1 DEF TypeOK
    <3> QED
      BY <3>1, <3>2
  <2>4. TypeOK'
    BY <2>1, <2>2, <2>3 DEF TypeOK, loginVars
  <2>5. HostKeyInv'
    <3>1. CASE Starts \/ Stats \/ LoadFails \/ Signalled
      BY <3>1 DEF TypeOK, HostKeyInv
    <3>2. CASE KeygenOpens
      <4>1. keyFile = "none"
        BY <3>2 DEF TypeOK, HostKeyInv
      <4> QED
        BY <3>2, <4>1 DEF HostKeyInv
    <3>3. CASE KeygenWrites
      <4>1. keyFile = "torn" /\ made = 0 /\ served = {}
        BY <3>3 DEF TypeOK, HostKeyInv
      <4> QED
        BY <3>3, <4>1 DEF HostKeyInv
    <3>4. CASE Listens
      BY <3>4 DEF HostKeyInv
    <3> QED
      BY <1>3, <3>1, <3>2, <3>3, <3>4
  <2>6. AcceptInv'
    BY <2>1 DEF AcceptInv, AcceptedStays, Registered, loginVars
  <2> QED
    BY <2>4, <2>5, <2>6
<1> QED
  BY <1>2, <1>3 DEF Main

-----------------------------------------------------------------------------
(* The steps of a login.                                                    *)

\* A step that writes no row.
LEMMA LoginMoves ==
  ASSUME IInv, NEW l \in Logins, NEW from, Step(l, from, login'[l]),
         login'[l] \in {"idle", "check", "register", "accepted", "update", "session"},
         rows' = rows, key' \in [Logins -> Keys \cup {NoKey}],
         key'[l] # NoKey, \A k \in Logins \ {l} : key'[k] = key[k],
         now' \in [Logins -> Times],
         accepted' \in SUBSET Keys, accepted \subseteq accepted',
         \A k \in accepted' \ accepted : Registered(k),
         login'[l] \in {"accepted", "update", "session"} => key'[l] \in accepted'
  PROVE  IInv'
<1> USE DEF IInv
<1>1. /\ UNCHANGED <<mainVars, clock>> /\ Serving'
      /\ \A k \in Logins \ {l} : login'[k] = login[k] /\ key'[k] = key[k]
      /\ login' \in [Logins ->
           {"idle", "check", "register", "accepted", "update", "session"}]
  BY DEF Step, TypeOK, Serving, mainVars
<1>2. TypeOK'
  <2>1. \A k \in Logins : login'[k] # "idle" => key'[k] # NoKey
    BY <1>1 DEF TypeOK
  <2> QED
    BY <1>1, <2>1 DEF TypeOK, mainVars
<1>3. HostKeyInv'
  BY <1>1 DEF HostKeyInv, mainVars
<1>4. AcceptInv'
  <2>1. AcceptedStays'
    BY DEF AcceptInv, AcceptedStays, Registered
  <2>2. \A k \in Logins :
          login'[k] \in {"accepted", "update", "session"} => key'[k] \in accepted'
    BY <1>1 DEF AcceptInv
  <2> QED
    BY <2>1, <2>2 DEF AcceptInv
<1> QED
  BY <1>2, <1>3, <1>4

\* A step that writes the row of the login's key.
LEMMA LoginWrites ==
  ASSUME IInv, NEW l \in Logins, Registers(l) \/ Updates(l)
  PROVE  /\ IInv' /\ \A k \in Keys : Registered(k) => Registered(k)'
<1> USE DEF IInv
<1> DEFINE labels == {"idle", "check", "register", "accepted", "update", "session"}
           row == [created : Times, used : Times \cup {Never}]
<1>1. /\ UNCHANGED <<mainVars, clock, key, now>> /\ Serving /\ Serving'
      /\ \A k \in Logins \ {l} : login'[k] = login[k]
      /\ login' \in [Logins -> labels] /\ login'[l] \in {"accepted", "session"}
      /\ key[l] \in Keys /\ key'[l] # NoKey
  BY DEF Registers, Updates, Step, TypeOK, Serving, mainVars
<1>2. \E r \in row : rows' = [rows EXCEPT ![key[l]] = r]
  <2>1. CASE Registers(l)
    <3>1. Row(now[l], Never) \in row
      BY DEF Row, Never, TypeOK
    <3> QED
      BY <2>1, <3>1 DEF Registers
  <2>2. CASE Updates(l)
    <3>1. rows[key[l]] \in row
      BY <1>1, <2>2 DEF Updates, Step, AcceptInv, AcceptedStays, Registered, TypeOK
    <3>2. [rows[key[l]] EXCEPT !.used = now[l]] \in row
      BY <3>1 DEF TypeOK
    <3> QED
      BY <2>2, <3>2 DEF Updates
  <2> QED
    BY <2>1, <2>2
<1>3. PICK r \in row : rows' = [rows EXCEPT ![key[l]] = r]
  BY <1>2
<1>4. r # NoKey
  <2>1. r \in [created : Nat, used : Int]
    BY RelayServerAssumption DEF Times, Never
  <2> QED
    BY <2>1, RelayServerAssumption
<1>5. /\ rows' \in [Keys -> row \cup {NoKey}] /\ Registered(key[l])'
      /\ \A k \in Keys : Registered(k) => Registered(k)'
  BY <1>1, <1>3, <1>4 DEF TypeOK, Registered
<1>6. /\ accepted' \in SUBSET Keys /\ key[l] \in accepted'
      /\ accepted \subseteq accepted' /\ accepted' \subseteq accepted \cup {key[l]}
  <2>1. CASE Registers(l)
    BY <1>1, <2>1 DEF Registers, Accept, TypeOK
  <2>2. CASE Updates(l)
    BY <1>1, <2>2 DEF Updates, Step, AcceptInv, TypeOK
  <2> QED
    BY <2>1, <2>2
<1>7. TypeOK'
  <2>1. \A k \in Logins : login'[k] # "idle" => key'[k] # NoKey
    BY <1>1 DEF TypeOK
  <2> QED
    BY <1>1, <1>5, <1>6, <2>1 DEF TypeOK, mainVars
<1>8. HostKeyInv'
  BY <1>1 DEF HostKeyInv, mainVars
<1>9. AcceptInv'
  <2>1. AcceptedStays'
    BY <1>1, <1>5, <1>6 DEF AcceptInv, AcceptedStays, TypeOK, Registered
  <2>2. \A k \in Logins :
          login'[k] \in {"accepted", "update", "session"} => key'[k] \in accepted'
    BY <1>1, <1>6 DEF AcceptInv
  <2> QED
    BY <2>1, <2>2 DEF AcceptInv
<1> QED
  BY <1>5, <1>7, <1>8, <1>9

\* No step takes a row away.
LEMMA LoginStep ==
  ASSUME IInv, NEW l \in Logins, Handlers(l)
  PROVE  IInv' /\ \A k \in Keys : Registered(k) => Registered(k)'
<1> USE DEF IInv
<1>1. CASE Registers(l) \/ Updates(l)
  BY <1>1, LoginWrites
<1>2. CASE Connects(l)
  <2>1. PICK k \in Keys : key' = [key EXCEPT ![l] = k]
    BY <1>2 DEF Connects
  <2>2. /\ key' \in [Logins -> Keys \cup {NoKey}] /\ key'[l] = k /\ k # NoKey
        /\ \A m \in Logins \ {l} : key'[m] = key[m]
    BY <2>1, RelayServerAssumption DEF TypeOK
  <2>3. Step(l, "idle", login'[l]) /\ login'[l] = "check" /\ UNCHANGED <<rows, now, accepted>>
    BY <1>2 DEF Connects, Step, TypeOK
  <2>4. now' \in [Logins -> Times] /\ accepted' \in SUBSET Keys
    BY <2>3 DEF TypeOK
  <2> QED
    BY <2>2, <2>3, <2>4, LoginMoves DEF Registered
<1>3. CASE Rejects(l) \/ UpdateFails(l) \/ Leaves(l) \/ Misses(l) \/ Opens(l) \/ Finds(l)
  <2> USE DEF Rejects, UpdateFails, Leaves, Misses, Opens, Finds
  <2>1. /\ Step(l, login[l], login'[l]) /\ login[l] # "idle"
        /\ login'[l] \in {"idle", "check", "register", "accepted", "update", "session"}
        /\ UNCHANGED <<rows, key>>
    BY <1>3 DEF Step, TypeOK
  <2>2. key' \in [Logins -> Keys \cup {NoKey}] /\ key'[l] # NoKey
    BY <2>1 DEF TypeOK
  <2>3. now' \in [Logins -> Times]
    BY <1>3 DEF TypeOK
  <2>4. /\ accepted' \in SUBSET Keys /\ accepted \subseteq accepted'
        /\ \A k \in accepted' \ accepted : Registered(k)
        /\ login'[l] \in {"accepted", "update", "session"} => key'[l] \in accepted'
    <3>1. CASE Finds(l)
      <4>1. accepted' = accepted \cup {key[l]} /\ Registered(key[l])
        BY <3>1 DEF Accept
      <4>2. key[l] \in Keys
        BY <2>1, <2>2 DEF TypeOK
      <4> QED
        BY <2>1, <4>1, <4>2 DEF TypeOK
    <3>2. CASE ~Finds(l)
      <4>1. accepted' = accepted
        BY <1>3, <3>2
      <4>2. login'[l] \in {"accepted", "update", "session"} =>
                login[l] \in {"accepted", "update"}
        BY <1>3, <3>2 DEF Step, TypeOK
      <4> QED
        BY <2>1, <4>1, <4>2 DEF TypeOK, AcceptInv
    <3> QED
      BY <3>1, <3>2
  <2> QED
    BY <2>1, <2>2, <2>3, <2>4, LoginMoves DEF Registered
<1> QED
  BY <1>1, <1>2, <1>3 DEF Handlers

-----------------------------------------------------------------------------

LEMMA NextIInv == IInv /\ [Next]_vars => IInv'
<1> SUFFICES ASSUME IInv, [Next]_vars PROVE IInv'
  OBVIOUS
<1>1. CASE UNCHANGED vars
  BY <1>1 DEF vars, mainVars, loginVars, IInv, TypeOK, Serving, HostKeyInv, AcceptInv,
              AcceptedStays, Registered
<1>2. CASE Ticks
  <2>1. clock' \in Times /\ UNCHANGED <<mainVars, rows, loginVars>>
    BY <1>2, RelayServerAssumption DEF Ticks, IInv, TypeOK, Times
  <2> QED
    BY <2>1 DEF mainVars, loginVars, IInv, TypeOK, Serving, HostKeyInv, AcceptInv,
                AcceptedStays, Registered
<1> QED
  BY <1>1, <1>2, MainStep, LoginStep DEF Next

LEMMA Invariant == Spec => []IInv
BY InitIInv, NextIInv, PTL DEF Spec

\* The relay's state keeps its types, for every number of keys and logins.
THEOREM TypeCorrect == Spec => []TypeOK
BY Invariant, PTL DEF IInv

\* An accepted key is in the registry for ever, across kills, restarts and
\* failing statements.
THEOREM KeysStay == Spec => []AcceptedStays
BY Invariant, PTL DEF IInv, AcceptInv

\* All relays that ever listen do so with one host key.
THEOREM HostKeyStays == Spec => []OneHostKey
<1>1. IInv => OneHostKey
  <2> SUFFICES ASSUME IInv PROVE Cardinality(served) <= 1
    BY DEF OneHostKey
  <2>1. served = {} \/ served = {1}
    BY DEF IInv, HostKeyInv
  <2>2. Cardinality({}) = 0
    BY FS_EmptySet
  <2>3. Cardinality({1}) = 1
    BY FS_Singleton
  <2> QED
    BY <2>1, <2>2, <2>3
<1> QED
  BY <1>1, Invariant, PTL

\* Once the first logins of a key are over, the date of its row is final.
THEOREM DatesSettle == Spec => DateSettles
<1>1. IInv /\ [Next]_vars =>
        [\A k \in Keys : Settled(k) => Settled(k)' /\ rows'[k].created = rows[k].created]_vars
  <2> SUFFICES ASSUME IInv, Next, NEW k \in Keys, Settled(k)
               PROVE  Settled(k)' /\ rows'[k].created = rows[k].created
    BY DEF vars
  <2> USE DEF IInv
  <2>1. CASE Ticks \/ Main \/ Signalled \/ Dies
    <3>1. rows' = rows
      BY <2>1 DEF Ticks, Main, Signalled, Dies, Gone, Exits, Starts, Stats, KeygenOpens,
                  KeygenWrites, Listens, LoadFails, Goto
    <3>2. \A l \in Logins : login'[l] = "register" => login[l] = "register" /\ key'[l] = key[l]
      BY <2>1 DEF Ticks, Main, Signalled, Dies, Gone, Exits, Starts, Stats, KeygenOpens,
                  KeygenWrites, Listens, LoadFails, Goto, loginVars
    <3> QED
      BY <3>1, <3>2 DEF Settled, Registered
  <2>2. ASSUME NEW l \in Logins, Handlers(l)
        PROVE  Settled(k)' /\ rows'[k].created = rows[k].created
    <3>1. Registered(k)'
      BY <2>2, LoginStep DEF Settled
    <3>2. \A m \in Logins \ {l} : login'[m] = login[m] /\ key'[m] = key[m]
      BY <2>2 DEF Handlers, Connects, Rejects, Finds, Misses, Registers, Opens, Updates,
                  UpdateFails, Leaves, Step, TypeOK
    <3>3. ~(login'[l] = "register" /\ key'[l] = k)
      BY <2>2 DEF Handlers, Connects, Rejects, Finds, Misses, Registers, Opens, Updates,
                  UpdateFails, Leaves, Step, TypeOK, Settled
    <3>4. rows'[k].created = rows[k].created
      <4>1. CASE Registers(l)
        BY <4>1 DEF Registers, Step, Settled, TypeOK
      <4>2. CASE Updates(l)
        <5>1. rows[k] \in [created : Times, used : Times \cup {Never}]
          BY DEF Settled, Registered, TypeOK
        <5> QED
          BY <4>2, <5>1 DEF Updates, TypeOK
      <4>3. CASE rows' = rows
        BY <4>3
      <4> QED
        BY <2>2, <4>1, <4>2, <4>3
           DEF Handlers, Connects, Rejects, Finds, Misses, Opens, UpdateFails, Leaves
    <3> QED
      BY <3>1, <3>2, <3>3 , <3>4 DEF Settled
  <2> QED
    BY <2>1, <2>2 DEF Next
<1> QED
  BY <1>1, Invariant, PTL DEF Spec, DateSettles
=============================================================================
