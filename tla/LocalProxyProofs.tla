-------------------------- MODULE LocalProxyProofs --------------------------
(***************************************************************************)
(* What holds of LocalProxy for every set of sessions, however much         *)
(* OpenCode prints and however often the container restarts.               *)
(***************************************************************************)
EXTENDS LocalProxy, TLAPS

\* A session nobody waits for yet has no goroutine and nothing behind it.
Fresh ==
  \A s \in Sessions : main[s] \in {"idle", "init"} =>
    /\ poll[s] = "off" /\ input[s] = "off" /\ s \notin doneClosed
    /\ late[s] = 0 /\ wire[s] = << >> /\ took[s] = << >> /\ lines[s] = << >>
    /\ main[s] = "init" => conn[s] # "none"

\* What can be left of a response: the output first, the exit last.
Rest(ls) ==
  \/ ls = << >> \/ ls = <<Exit>>
  \/ \E out \in Seq(Chunks) : ls = <<out>> \/ ls = <<out, Exit>>

\* A goroutine that is in WriteMessage has a line to write, and one that is not
\* has written them all, so that the next response replaces nothing.
HasLine ==
  \A s \in Sessions :
    /\ Rest(lines[s])
    /\ poll[s] = "write" => lines[s] # << >>
    /\ poll[s] \in {"off", "check", "get"} => lines[s] = << >>

\* The inductive form of LateTakesOnce: whoever took a response after done was
\* closed looks at done before the next one.
LateInv ==
  \A s \in Sessions :
    late[s] # 0 => late[s] = 1 /\ s \in doneClosed /\ poll[s] # "get"

\* The inductive form of ExitIsLast: who wrote an exit is over.
ExitInv ==
  \A s \in Sessions : \A i \in DOMAIN wire[s] :
    wire[s][i] = 0 => i = Len(wire[s]) /\ s \in doneClosed /\ poll[s] = "over"

\* A container without a session has no output.
BufferInv == bridge \in {"fresh", "down"} => buffer = << >>

IInv ==
  TypeOK /\ Fresh /\ HasLine /\ LateInv /\ ExitInv /\ BufferInv /\ TakenIsForwarded

PollLabels == {"off", "check", "get", "write", "over"}
InputLabels == {"off", "read", "post", "pong", "over"}

-----------------------------------------------------------------------------
(* The helpers.                                                             *)

LEMMA LineTypes == Exit \in Lines /\ Error \in Seq(Chunks) /\ Seq(Chunks) \subseteq Lines
<1>1. Seq(Chunks) \subseteq Lines
  BY LocalProxyAssumption DEF Chunks, Lines
<1>2. 0 \in 0 .. MaxEvents
  BY LocalProxyAssumption
<1> QED
  BY <1>1, <1>2 DEF Exit, Error, Lines

LEMMA ExitIsNoOutput == Exit \notin Seq(Chunks)
<1>1. Exit[1] = 0 /\ 1 \in DOMAIN Exit /\ 0 \notin Chunks
  BY DEF Exit, Chunks
<1> QED
  BY <1>1

LEMMA RestType ==
  ASSUME NEW ls, Rest(ls)
  PROVE  ls \in Seq(Lines)
<1>1. << >> \in Seq(Lines) /\ <<Exit>> \in Seq(Lines)
  BY LineTypes
<1>2. ASSUME NEW out \in Seq(Chunks)
      PROVE  <<out>> \in Seq(Lines) /\ <<out, Exit>> \in Seq(Lines)
  <2>1. out \in Lines /\ Exit \in Lines
    BY LineTypes
  <2> QED
    BY <2>1
<1> QED
  BY <1>1, <1>2 DEF Rest

\* What shows of a line.
LEMMA LineShown ==
  /\ \A out \in Seq(Chunks) : Shown(out) = out
  /\ Shown(Exit) = << >> /\ Left(<< >>) = << >> /\ Left(<<Exit>>) = << >>
  /\ \A out \in Seq(Chunks) : Left(<<out>>) = out /\ Left(<<out, Exit>>) = out
<1>1. ASSUME NEW out \in Seq(Chunks)
      PROVE  Shown(out) = out
  BY LocalProxyAssumption DEF Shown, Chunks
<1>2. Shown(Exit) = << >>
  BY DEF Shown, Exit
<1> QED
  BY <1>1, <1>2 DEF Left

LEMMA PairOfLines ==
  ASSUME NEW S, NEW a \in S, NEW b \in S
  PROVE  <<a>> \o <<b>> = <<a, b>>
<1> DEFINE q == <<a>> \o <<b>>
<1>1. q \in Seq(S) /\ Len(q) = 2 /\ q[1] = a /\ q[2] = b
  OBVIOUS
<1>2. <<a, b>> \in Seq(S) /\ Len(<<a, b>>) = 2
  OBVIOUS
<1> HIDE DEF q
<1>3. \A i \in 1 .. 2 : q[i] = <<a, b>>[i]
  BY <1>1
<1>4. q = <<a, b>>
  BY <1>1, <1>2, <1>3
<1> QED
  BY <1>4 DEF q

\* A response shows the output in the buffer and nothing else.
LEMMA ResponseType ==
  ASSUME buffer \in Seq(Chunks), BufferInv
  PROVE  Rest(Response) /\ Left(Response) = buffer
<1>1. CASE bridge = "fresh"
  <2>1. Response = <<Error>> /\ buffer = << >> /\ Error = buffer
    BY <1>1 DEF Response, BufferInv, Error
  <2> QED
    BY <2>1, LineShown DEF Rest
<1>2. CASE bridge # "fresh"
  <2>1. \/ (Response = << >> \/ Response = <<Exit>>) /\ buffer = << >>
        \/ Response = <<buffer>> \/ Response = <<buffer, Exit>>
    <3>1. buffer \in Lines /\ Exit \in Lines
      BY LineTypes
    <3>2. /\ << >> \o << >> = << >> /\ << >> \o <<Exit>> = <<Exit>>
          /\ <<buffer>> \o << >> = <<buffer>>
      BY <3>1
    <3>3. <<buffer>> \o <<Exit>> = <<buffer, Exit>>
      BY <3>1, PairOfLines
    <3> QED
      BY <1>2, <3>2, <3>3 DEF Response
  <2> QED
    BY <2>1, LineShown DEF Rest
<1> QED
  BY <1>1, <1>2

\* One line less of a response.
LEMMA RestTail ==
  ASSUME NEW ls, Rest(ls), ls # << >>
  PROVE  /\ Rest(Tail(ls)) /\ Left(Tail(ls)) = << >>
         /\ \/ Head(ls) \in Seq(Chunks) /\ Left(ls) = Head(ls)
            \/ Head(ls) = Exit /\ Left(ls) = << >> /\ Tail(ls) = << >>
<1>1. CASE ls = <<Exit>>
  <2>1. Head(ls) = Exit /\ Tail(ls) = << >>
    BY <1>1
  <2> QED
    BY <1>1, <2>1, LineShown DEF Rest
<1>2. ASSUME NEW out \in Seq(Chunks), ls = <<out>> \/ ls = <<out, Exit>>
      PROVE  /\ Rest(Tail(ls)) /\ Left(Tail(ls)) = << >>
             /\ Head(ls) \in Seq(Chunks) /\ Left(ls) = Head(ls)
  <2>1. Head(ls) = out /\ (Tail(ls) = << >> \/ Tail(ls) = <<Exit>>)
    <3>1. out \in Lines /\ Exit \in Lines
      BY LineTypes
    <3>2. /\ Head(<<out>>) = out /\ Tail(<<out>>) = << >>
          /\ Head(<<out, Exit>>) = out /\ Tail(<<out, Exit>>) = <<Exit>>
      BY <3>1
    <3> QED
      BY <1>2, <3>2
  <2> QED
    BY <1>2, <2>1, LineShown DEF Rest
<1> QED
  BY <1>1, <1>2 DEF Rest

LEMMA NoExitShown ==
  ASSUME NEW q \in Lines, \A i \in DOMAIN q : q[i] # 0
  PROVE  Shown(q) = q
<1>1. q # << >> => Len(q) \in DOMAIN q
  BY DEF Lines
<1> QED
  BY <1>1 DEF Shown

\* A line that is sent: chunks show after those before, an exit does not, and
\* an exit is the only 0.
LEMMA LineSent ==
  ASSUME NEW q \in Lines, \A i \in DOMAIN q : q[i] # 0,
         NEW line, line \in Seq(Chunks) \/ line = Exit
  PROVE  /\ q \o line \in Lines /\ Shown(q) = q
         /\ Shown(q \o line) = IF line = Exit THEN q ELSE q \o line
         /\ \A i \in DOMAIN (q \o line) :
              (q \o line)[i] = 0 => line = Exit /\ i = Len(q \o line)
<1>1. Shown(q) = q
  BY NoExitShown
<1>2. CASE line = Exit
  <2>1. /\ q \o line \in Lines /\ Len(q \o line) = Len(q) + 1
        /\ (q \o line)[Len(q) + 1] = 0
        /\ \A i \in DOMAIN q : (q \o line)[i] = q[i]
    BY <1>2, LineTypes DEF Lines, Exit
  <2>2. SubSeq(q \o line, 1, Len(q)) = q
    BY <1>2 DEF Lines, Exit
  <2>3. Shown(q \o line) = q
    <3>1. q \o line # << >> /\ Len(q) \in Nat
      BY <2>1 DEF Lines
    <3>2. (q \o line)[Len(q \o line)] = 0 /\ Len(q \o line) - 1 = Len(q)
      BY <2>1, <3>1
    <3> QED
      BY <2>2, <3>1, <3>2 DEF Shown
  <2> QED
    BY <1>1, <1>2, <2>1, <2>3 DEF Lines
<1>3. CASE line \in Seq(Chunks) /\ line # Exit
  <2>1. line \in Lines /\ \A i \in DOMAIN line : line[i] # 0
    BY <1>3, LineTypes, LocalProxyAssumption DEF Chunks
  <2>2. q \o line \in Lines /\ \A i \in DOMAIN (q \o line) : (q \o line)[i] # 0
    BY <2>1 DEF Lines
  <2>3. Shown(q \o line) = q \o line
    BY <2>2, NoExitShown
  <2> QED
    BY <1>1, <1>3, <2>2, <2>3
<1> QED
  BY <1>2, <1>3

LEMMA InitIInv == Init => IInv
<1> SUFFICES ASSUME Init PROVE IInv
  OBVIOUS
<1>1. /\ lines \in [Sessions -> Seq(Lines)] /\ wire \in [Sessions -> Lines]
      /\ took \in [Sessions -> Seq(Chunks)] /\ buffer \in Seq(Chunks)
  BY DEF Init, Lines
<1>4. HasLine
  BY DEF Init, HasLine, Rest
<1>5. TakenIsForwarded
  BY DEF Init, TakenIsForwarded
<1>2. printed + restarts \in 0 .. MaxEvents
  BY LocalProxyAssumption DEF Init
<1>3. TypeOK
  BY <1>1, <1>2 DEF Init, TypeOK, Running
<1> QED
  BY <1>3, <1>4, <1>5 DEF Init, IInv, Fresh, LateInv, ExitInv, BufferInv

\* A panic leaves nothing that could still take or write.
LEMMA PanicKeeps ==
  ASSUME IInv, Panic, UNCHANGED <<took, late, conn, bridgeVars>>,
         lines' \in [Sessions -> Seq(Lines)], wire' \in [Sessions -> Lines],
         \A s \in Sessions : Rest(lines'[s]),
         \A s \in Sessions : \A i \in DOMAIN wire'[s] :
           wire'[s][i] = 0 => i = Len(wire'[s]) /\ s \in doneClosed
  PROVE  IInv'
<1> USE DEF IInv, Panic, bridgeVars
<1>1. TypeOK'
  BY DEF TypeOK, Running
<1>2. Fresh'
  BY DEF Fresh
<1>3. ExitInv' /\ BufferInv' /\ LateInv' /\ TakenIsForwarded'
  BY DEF ExitInv, BufferInv, LateInv, TakenIsForwarded
<1>4. HasLine'
  BY DEF HasLine
<1> QED
  BY <1>1, <1>2, <1>3, <1>4

\* What was taken stays forwarded while no line is taken or written and only
\* new connections come up.
LEMMA ForwardKept ==
  ASSUME Fresh, TakenIsForwarded, UNCHANGED <<lines, wire, took>>, alive' => alive,
         \A s \in Sessions :
           conn'[s] \in {"up", "stalled"} =>
             conn[s] \in {"up", "stalled"} \/ main[s] = "idle"
  PROVE  TakenIsForwarded'
<1> SUFFICES ASSUME NEW s \in Sessions, alive', conn'[s] \in {"up", "stalled"}
             PROVE  took'[s] = Shown(wire'[s]) \o Left(lines'[s])
  BY DEF TakenIsForwarded
<1>1. CASE conn[s] \in {"up", "stalled"}
  BY <1>1 DEF TakenIsForwarded
<1>2. CASE main[s] = "idle"
  <2>1. took[s] = << >> /\ wire[s] = << >> /\ lines[s] = << >>
    BY <1>2 DEF Fresh
  <2> QED
    BY <2>1, LineShown DEF Shown
<1> QED
  BY <1>1, <1>2

-----------------------------------------------------------------------------
(* The steps.                                                               *)

LEMMA HandlerStep ==
  ASSUME IInv, NEW s \in Sessions, Connect(s) \/ Handler(s)
  PROVE  IInv'
<1> USE DEF IInv, procVars, lineVars, bridgeVars
<1>1. CASE Connect(s)
  <2>1. /\ main[s] = "idle" /\ main' = [main EXCEPT ![s] = "init"]
        /\ conn' = [conn EXCEPT ![s] = "up"]
        /\ UNCHANGED <<poll, input, doneClosed, alive, lines, wire, took, late,
                       bridge, buffer, printed, restarts>>
    BY <1>1 DEF Connect
  <2>2. TypeOK'
    BY <2>1 DEF TypeOK, Running
  <2>3. Fresh'
    BY <2>1 DEF TypeOK, Fresh
  <2>4. HasLine' /\ LateInv' /\ ExitInv' /\ BufferInv'
    BY <2>1 DEF HasLine, LateInv, ExitInv, BufferInv
  <2>5. TakenIsForwarded'
    BY <2>1, ForwardKept DEF TypeOK
  <2> QED
    BY <2>2, <2>3, <2>4, <2>5
<1>2. CASE InitAnswered(s)
  <2>1. conn[s] # "none"
    BY <1>2 DEF InitAnswered, Fresh
  <2>2. /\ main' = [main EXCEPT ![s] = "wait"] /\ poll' = [poll EXCEPT ![s] = "check"]
        /\ input' = [input EXCEPT ![s] = "read"]
        /\ UNCHANGED <<doneClosed, alive, lines, wire, took, late, conn, buffer,
                       printed, restarts>>
    BY <1>2 DEF InitAnswered
  <2>3. bridge' \in {"fresh", "running", "exited", "down"}
    BY <1>2 DEF InitAnswered, TypeOK
  <2>4. \A t \in Sessions : Running(t)' => main'[t] = "wait" /\ conn'[t] # "none"
    BY <2>1, <2>2 DEF TypeOK, Running
  <2>5. TypeOK'
    BY <2>2, <2>3, <2>4 DEF TypeOK
  <2>6. HasLine' /\ BufferInv'
    BY <1>2, <2>2 DEF InitAnswered, TypeOK, Fresh, HasLine, BufferInv
  <2>7. Fresh' /\ LateInv' /\ ExitInv'
    BY <1>2, <2>2 DEF InitAnswered, TypeOK, Fresh, LateInv, ExitInv
  <2> QED
    BY <2>2, <2>5, <2>6, <2>7, ForwardKept
<1>3. CASE InitFails(s) \/ WaitEnds(s)
  <2>1. Return(s) /\ ~Running(s)
    BY <1>3 DEF InitFails, WaitEnds, Fresh, Running
  <2>2. TypeOK'
    BY <2>1 DEF Return, TypeOK, Running
  <2>3. /\ main' = [main EXCEPT ![s] = "ended"] /\ conn' = [conn EXCEPT ![s] = "down"]
        /\ UNCHANGED <<poll, input, doneClosed, alive, lineVars, bridgeVars>>
    BY <2>1 DEF Return
  <2>4. Fresh'
    BY <2>3 DEF TypeOK, Fresh
  <2>5. TakenIsForwarded'
    BY <2>3, ForwardKept DEF TypeOK
  <2> QED
    BY <2>2, <2>3, <2>4, <2>5 DEF HasLine, LateInv, ExitInv, BufferInv
<1> QED
  BY <1>1, <1>2, <1>3 DEF Handler

\* The output goroutine moves without a close, a write or a read.
LEMMA PollMoves ==
  ASSUME IInv, NEW s \in Sessions, poll[s] \notin {"off", "over"},
         NEW l \in {"check", "get", "over"}, PollGoto(s, l),
         l = "get" => s \notin doneClosed, l # "over" => poll[s] # "write",
         UNCHANGED <<lineVars, conn, bridgeVars>>
  PROVE  IInv'
<1> USE DEF IInv, PollGoto, lineVars, bridgeVars
<1>1. TypeOK'
  BY DEF TypeOK, Running
<1>2. HasLine'
  BY DEF TypeOK, HasLine
<1>3. Fresh' /\ LateInv' /\ ExitInv' /\ BufferInv'
  BY DEF TypeOK, Fresh, LateInv, ExitInv, BufferInv
<1>4. TakenIsForwarded'
  BY ForwardKept
<1> QED
  BY <1>1, <1>2, <1>3, <1>4

LEMMA WriteStep ==
  ASSUME IInv, NEW s \in Sessions, PollWrites(s)
  PROVE  IInv'
<1> USE DEF IInv
<1>1. /\ Rest(lines[s]) /\ lines[s] # << >> /\ poll[s] = "write"
      /\ lines \in [Sessions -> Seq(Lines)] /\ wire \in [Sessions -> Lines]
      /\ s \in Sessions
  BY DEF PollWrites, TypeOK, HasLine
<1> DEFINE line == Head(lines[s])
<1>2. /\ Rest(Tail(lines[s])) /\ Left(Tail(lines[s])) = << >>
      /\ \/ line \in Seq(Chunks) /\ Left(lines[s]) = line
         \/ line = Exit /\ Left(lines[s]) = << >> /\ Tail(lines[s]) = << >>
  BY <1>1, RestTail
<1>3. /\ lines' = [lines EXCEPT ![s] = Tail(lines[s])]
      /\ lines' \in [Sessions -> Seq(Lines)]
      /\ \A t \in Sessions : Rest(lines'[t])
  <2>1. lines' = [lines EXCEPT ![s] = Tail(lines[s])] /\ Tail(lines[s]) \in Seq(Lines)
    BY <1>2, RestType DEF PollWrites
  <2> QED
    BY <1>1, <1>2, <2>1 DEF HasLine
<1> HIDE DEF line
<1>4. /\ wire[s] \in Lines /\ \A i \in DOMAIN wire[s] : wire[s][i] # 0
      /\ wire[s] \o line \in Lines
  BY <1>1, <1>2, LineSent DEF ExitInv
<1>5. /\ wire' \in [Sessions -> Lines]
      /\ \A t \in Sessions : t # s => wire'[t] = wire[t]
      /\ wire'[s] = IF conn[s] = "up" THEN wire[s] \o line ELSE wire[s]
  BY <1>1, <1>4 DEF PollWrites, Sent, line
<1>6. \A t \in Sessions : \A i \in DOMAIN wire'[t] :
        wire'[t][i] = 0 =>
          /\ i = Len(wire'[t])
          /\ IF t = s THEN line = Exit ELSE t \in doneClosed /\ poll[t] = "over"
  <2>1. \A i \in DOMAIN wire'[s] : wire'[s][i] = 0 => i = Len(wire'[s]) /\ line = Exit
    <3>1. CASE conn[s] = "up"
      <4>1. \A i \in DOMAIN (wire[s] \o line) :
              (wire[s] \o line)[i] = 0 => line = Exit /\ i = Len(wire[s] \o line)
        BY <1>2, <1>4, LineSent
      <4> QED
        BY <1>5, <3>1, <4>1
    <3>2. CASE conn[s] # "up"
      BY <1>4, <1>5, <3>2
    <3> QED
      BY <3>1, <3>2
  <2>2. \A t \in Sessions : t # s => \A i \in DOMAIN wire[t] :
          wire[t][i] = 0 => i = Len(wire[t]) /\ t \in doneClosed /\ poll[t] = "over"
    BY DEF ExitInv
  <2> QED
    BY <1>5, <2>1, <2>2
<1>7. TakenIsForwarded'
  <2> SUFFICES ASSUME alive', NEW t \in Sessions, conn[t] \in {"up", "stalled"}
               PROVE  took[t] = Shown(wire'[t]) \o Left(lines'[t])
    BY DEF TakenIsForwarded, PollWrites
  <2>1. took[t] = Shown(wire[t]) \o Left(lines[t])
    BY DEF TakenIsForwarded, PollWrites, PollCloses, PollGoto, Panic
  <2>2. CASE t # s
    BY <1>1, <1>3, <1>5, <2>1, <2>2
  <2>3. CASE t = s
    <3>1. wire'[s] = wire[s] \o line /\ Left(lines'[s]) = << >>
      BY <1>1, <1>2, <1>3, <1>5, <2>3 DEF PollWrites
    <3>2. /\ Shown(wire[s]) = wire[s]
          /\ Shown(wire'[s]) = IF line = Exit THEN wire[s] ELSE wire[s] \o line
      BY <1>2, <1>4, <3>1, LineSent
    <3>3. wire[s] \o << >> = wire[s] /\ (wire[s] \o line) \o << >> = wire[s] \o line
      <4>1. \A q \in Lines : q \o << >> = q
        BY DEF Lines
      <4> QED
        BY <1>4, <4>1
    <3>4. CASE line = Exit
      BY <1>2, <2>1, <2>3, <3>1, <3>2, <3>3, <3>4, ExitIsNoOutput
    <3>5. CASE line # Exit
      BY <1>2, <2>1, <2>3, <3>1, <3>2, <3>3, <3>5
    <3> QED
      BY <3>4, <3>5
  <2> QED
    BY <2>2, <2>3
<1>8. CASE line = Exit
  <2>1. PollCloses(s) /\ UNCHANGED <<took, late, conn, bridgeVars>>
    BY <1>8 DEF PollWrites, line
  <2>2. CASE s \in doneClosed
    <3>1. Panic
      BY <2>1, <2>2 DEF PollCloses
    <3>2. \A t \in Sessions : \A i \in DOMAIN wire'[t] :
            wire'[t][i] = 0 => i = Len(wire'[t]) /\ t \in doneClosed
      BY <1>6, <2>2
    <3> QED
      BY <1>3, <1>5, <2>1, <3>1, <3>2, PanicKeeps
  <2>3. CASE s \notin doneClosed
    <3>1. /\ doneClosed' = doneClosed \cup {s} /\ poll' = [poll EXCEPT ![s] = "over"]
          /\ UNCHANGED <<main, input, alive, took, late, conn, bridgeVars>>
      BY <2>1, <2>3 DEF PollCloses
    <3>2. TypeOK'
      BY <1>1, <1>3, <1>5, <3>1 DEF TypeOK, Running, bridgeVars
    <3>3. ExitInv'
      BY <1>6, <3>1 DEF ExitInv, TypeOK
    <3>4. HasLine'
      BY <1>1, <1>3, <3>1 DEF TypeOK, HasLine
    <3>5. Fresh' /\ LateInv' /\ BufferInv'
      BY <1>1, <1>3, <1>5, <3>1 DEF TypeOK, Fresh, LateInv, BufferInv, bridgeVars
    <3> QED
      BY <1>7, <3>2, <3>3, <3>4, <3>5
  <2> QED
    BY <2>2, <2>3
<1>9. CASE line # Exit
  <2>1. /\ poll' = [poll EXCEPT ![s] = Following(Tail(lines[s]))]
        /\ UNCHANGED <<main, input, doneClosed, alive, took, late, conn, bridgeVars>>
    BY <1>1, <1>3, <1>9 DEF PollWrites, PollGoto, line
  <2>2. /\ Following(Tail(lines[s])) \in {"check", "write"}
        /\ Following(Tail(lines[s])) = "write" <=> Tail(lines[s]) # << >>
    BY DEF Following
  <2>3. TypeOK'
    BY <1>1, <1>3, <1>5, <2>1, <2>2 DEF TypeOK, Running, bridgeVars
  <2>4. ExitInv'
    BY <1>1, <1>6, <1>9, <2>1 DEF ExitInv, TypeOK
  <2>5. HasLine'
    BY <1>1, <1>3, <2>1, <2>2 DEF HasLine, TypeOK
  <2>6. poll \in [Sessions -> PollLabels] /\ poll[s] # "off" /\ poll'[s] \notin {"off", "get"}
    BY <1>1, <2>1, <2>2 DEF TypeOK, PollLabels
  <2>7. \A t \in Sessions : t # s =>
          poll'[t] = poll[t] /\ wire'[t] = wire[t] /\ lines'[t] = lines[t]
    BY <1>1, <1>3, <1>5, <2>1, <2>6
  <2>8. Fresh' /\ BufferInv'
    BY <1>1, <2>1, <2>6, <2>7 DEF Fresh, BufferInv, bridgeVars
  <2>9. LateInv'
    BY <2>1, <2>6, <2>7 DEF LateInv
  <2> QED
    BY <1>7, <2>3, <2>4, <2>5, <2>8, <2>9
<1> QED
  BY <1>8, <1>9

LEMMA TakeStep ==
  ASSUME IInv, NEW s \in Sessions, PollAnswered(s)
  PROVE  IInv'
<1> USE DEF IInv
<1>1. /\ Rest(Response) /\ Response \in Seq(Lines) /\ Left(Response) = buffer
      /\ Following(Response) \in {"check", "write"}
  BY ResponseType, RestType DEF TypeOK, Following
<1>2. Following(Response) = "write" <=> Response # << >>
  BY DEF Following
<1>3. /\ lines' = [lines EXCEPT ![s] = Response]
      /\ took' = [took EXCEPT ![s] = took[s] \o buffer] /\ buffer' = << >>
      /\ late' = [late EXCEPT ![s] = IF s \in doneClosed THEN late[s] + 1 ELSE late[s]]
      /\ poll[s] = "get" /\ poll' = [poll EXCEPT ![s] = Following(Response)]
      /\ UNCHANGED <<main, input, doneClosed, alive, wire, conn, bridge, printed, restarts>>
  BY DEF PollAnswered, PollGoto
<1>4. TypeOK'
  <2>1. took' \in [Sessions -> Seq(Chunks)] /\ buffer' \in Seq(Chunks)
    BY <1>3 DEF TypeOK
  <2>2. late' \in [Sessions -> Nat]
    BY <1>3 DEF TypeOK
  <2>3. lines' \in [Sessions -> Seq(Lines)]
    BY <1>1, <1>3 DEF TypeOK
  <2> QED
    BY <1>1, <1>3, <2>1, <2>2, <2>3 DEF TypeOK, Running
<1>5. LateInv'
  BY <1>1, <1>3 DEF TypeOK, LateInv
<1>6. HasLine'
  BY <1>1, <1>2, <1>3 DEF TypeOK, HasLine
<1>7. Fresh' /\ ExitInv' /\ BufferInv'
  BY <1>3 DEF TypeOK, Fresh, ExitInv, BufferInv
<1>8. TakenIsForwarded'
  <2> SUFFICES ASSUME NEW t \in Sessions, alive, conn[t] \in {"up", "stalled"}
               PROVE  took'[t] = Shown(wire[t]) \o Left(lines'[t])
    BY <1>3 DEF TakenIsForwarded
  <2>1. took[t] = Shown(wire[t]) \o Left(lines[t])
    BY DEF TakenIsForwarded
  <2>2. CASE t # s
    BY <1>3, <2>1, <2>2 DEF TypeOK
  <2>3. CASE t = s
    <3>1. took[s] = Shown(wire[s])
      <4>1. lines[s] = << >> /\ took[s] \in Seq(Chunks) /\ wire[s] \in Lines
        BY <1>3 DEF HasLine, TypeOK
      <4>2. Shown(wire[s]) = wire[s]
        BY <1>3, <4>1, NoExitShown DEF ExitInv
      <4> QED
        BY <2>1, <2>3, <4>1, <4>2, LineShown DEF Lines
    <3>2. took'[s] = took[s] \o buffer /\ Left(lines'[s]) = buffer
      BY <1>1, <1>3 DEF TypeOK
    <3> QED
      BY <2>3, <3>1, <3>2
  <2> QED
    BY <2>2, <2>3
<1> QED
  BY <1>4, <1>5, <1>6, <1>7, <1>8

LEMMA PollerStep ==
  ASSUME IInv, NEW s \in Sessions, Poller(s)
  PROVE  IInv'
<1>1. CASE PollCheck(s)
  BY <1>1, PollMoves DEF PollCheck
<1>2. CASE PollFails(s)
  BY <1>2, PollMoves DEF PollFails
<1>3. CASE PollWriteFails(s)
  BY <1>3, PollMoves DEF PollWriteFails
<1> QED
  BY <1>1, <1>2, <1>3, TakeStep, WriteStep DEF Poller

\* A connection stalls, is read again, breaks or closes.
LEMMA ConnStep ==
  ASSUME IInv, NEW s \in Sessions, NEW c \in {"up", "stalled", "lost", "down"}, Conn(s, c),
         c \in {"up", "stalled"} => conn[s] \in {"up", "stalled"}
  PROVE  IInv'
<1> USE DEF IInv, procVars, lineVars, bridgeVars, Conn
<1>1. TypeOK'
  BY DEF TypeOK, Running
<1>2. /\ \A t \in Sessions : conn[t] # "none" => conn'[t] # "none"
      /\ \A t \in Sessions : conn'[t] \in {"up", "stalled"} => conn[t] \in {"up", "stalled"}
  BY DEF TypeOK
<1>3. Fresh' /\ TakenIsForwarded'
  BY <1>2, ForwardKept DEF Fresh
<1> QED
  BY <1>1, <1>3 DEF HasLine, LateInv, ExitInv, BufferInv

LEMMA InputMoves ==
  ASSUME IInv, NEW s \in Sessions, input[s] \notin {"off", "over"},
         NEW l \in InputLabels \ {"off"}, input' = [input EXCEPT ![s] = l],
         doneClosed' \in {doneClosed, doneClosed \cup {s}},
         UNCHANGED <<main, poll, alive, lineVars, conn, bridgeVars>>
  PROVE  IInv'
<1> USE DEF IInv, lineVars, bridgeVars, InputLabels
<1>1. TypeOK'
  BY DEF TypeOK, Running
<1>2. main[s] = "wait"
  BY DEF TypeOK, Running
<1>3. HasLine' /\ TakenIsForwarded'
  BY ForwardKept DEF HasLine
<1> QED
  BY <1>1, <1>2, <1>3 DEF TypeOK, Fresh, LateInv, ExitInv, BufferInv

LEMMA InputStep ==
  ASSUME IInv, NEW s \in Sessions, InputReads(s) \/ Input(s) \/ Races(s)
  PROVE  IInv'
<1>1. CASE InputReads(s)
  BY <1>1, InputMoves DEF InputReads, InputGoto, InputLabels
<1>2. CASE InputGoesOn(s)
  BY <1>2, InputMoves DEF InputGoesOn, InputGoto, InputLabels
<1>3. CASE (InputFails(s) /\ s \in doneClosed) \/ ConcurrentWrite(s)
  <2>1. Panic /\ UNCHANGED <<lineVars, conn, bridgeVars>>
    BY <1>3 DEF InputFails, InputCloses, ConcurrentWrite
  <2> QED
    BY <2>1, PanicKeeps DEF IInv, TypeOK, ExitInv, HasLine, lineVars
<1>4. CASE InputFails(s) /\ s \notin doneClosed
  BY <1>4, InputMoves DEF InputFails, InputCloses, InputLabels
<1>5. CASE Garble(s)
  BY <1>5, ConnStep DEF Garble, IInv, TypeOK
<1> QED
  BY <1>1, <1>2, <1>3, <1>4, <1>5 DEF Input, Races

LEMMA OutsideStep ==
  ASSUME IInv,
         \/ Container
         \/ \E s \in Sessions : RelayStalls(s) \/ RelayReads(s) \/ RelayLeaves(s)
  PROVE  IInv'
<1> USE DEF IInv, procVars, lineVars, bridgeVars
<1>1. CASE Container
  <2>1. /\ bridge' \in {"fresh", "running", "exited", "down"}
        /\ printed' \in Nat /\ restarts' \in Nat /\ printed' + restarts' \in 0 .. MaxEvents
        /\ UNCHANGED <<procVars, lineVars, conn>>
    BY <1>1, LocalProxyAssumption
       DEF Container, Prints, Exits, GoesDown, Restarts, Bridge, TypeOK
  <2>2. buffer' \in Seq(Chunks)
    <3>1. CASE Prints
      <4>1. printed + 1 \in Chunks
        BY <3>1, LocalProxyAssumption DEF Prints, TypeOK, Chunks
      <4> QED
        BY <3>1, <4>1 DEF Prints, Bridge, TypeOK
    <3>2. CASE Exits
      BY <3>2 DEF Exits, Bridge, TypeOK
    <3>3. CASE GoesDown \/ Restarts
      <4>1. buffer' = << >>
        BY <3>3 DEF GoesDown, Restarts, Bridge
      <4> QED
        BY <4>1
    <3> QED
      BY <1>1, <3>1, <3>2, <3>3 DEF Container
  <2>3. HasLine' /\ TakenIsForwarded'
    BY <2>1, ForwardKept DEF HasLine
  <2>4. BufferInv'
    BY <1>1 DEF Container, Prints, Exits, GoesDown, Restarts, Bridge, BufferInv
  <2> QED
    BY <2>1, <2>2, <2>3, <2>4 DEF TypeOK, Running, Fresh, LateInv, ExitInv
<1>2. ASSUME NEW s \in Sessions, RelayStalls(s) \/ RelayReads(s) \/ RelayLeaves(s)
      PROVE  IInv'
  BY <1>2, ConnStep DEF RelayStalls, RelayReads, RelayLeaves
<1> QED
  BY <1>1, <1>2

LEMMA NextIInv == IInv /\ [Next]_vars => IInv'
<1> SUFFICES ASSUME IInv, [Next]_vars PROVE IInv'
  OBVIOUS
<1>1. CASE UNCHANGED vars
  BY <1>1 DEF vars, procVars, lineVars, bridgeVars, IInv, TypeOK, Running,
              Fresh, HasLine, LateInv, ExitInv, BufferInv, TakenIsForwarded
<1>2. CASE Next
  BY <1>2, HandlerStep, PollerStep, InputStep, OutsideStep DEF Next, Relay
<1> QED
  BY <1>1, <1>2

LEMMA Inductive == Spec => []IInv
<1> QED
  BY InitIInv, NextIInv, PTL DEF Spec

-----------------------------------------------------------------------------
\* Every variable keeps its type, and goroutines run only under a handler that
\* waits for them.
THEOREM TypeCorrect == Spec => []TypeOK
<1>1. IInv => TypeOK
  BY DEF IInv
<1> QED
  BY <1>1, Inductive, PTL

\* A session takes at most one response after its done was closed.
THEOREM LateOnce == Spec => []LateTakesOnce
<1>1. IInv => LateTakesOnce
  <2> SUFFICES ASSUME IInv, NEW s \in Sessions PROVE late[s] <= 1
    BY DEF LateTakesOnce
  <2>1. late[s] = 0 \/ late[s] = 1
    BY DEF IInv, LateInv
  <2> QED
    BY <2>1
<1> QED
  BY <1>1, Inductive, PTL

\* No output follows the exit on a WebSocket, of its own goroutine or through a
\* panic; pongs are not spoken of.
THEOREM ExitLast == Spec => []ExitIsLast
<1>1. IInv => ExitIsLast
  BY DEF IInv, ExitInv, ExitIsLast
<1> QED
  BY <1>1, Inductive, PTL

\* While its relay is connected, everything a session took from the container
\* was sent to it, in order and once, or is about to be.
THEOREM TakenForwarded == Spec => []TakenIsForwarded
<1>1. IInv => TakenIsForwarded
  BY DEF IInv
<1> QED
  BY <1>1, Inductive, PTL

-----------------------------------------------------------------------------
(* The sessions implement SharedOutput.                                     *)

\* After a panic nobody goes on, and a connection that breaks was up.
LinkInv ==
  /\ ~alive => \A s \in Sessions : poll[s] = "over" /\ main[s] = "ended"
  /\ \A s \in Sessions : main[s] = "idle" => conn[s] = "none"

LEMMA InitLink == Init => LinkInv
BY DEF Init, LinkInv

LEMMA LinkFrame ==
  ASSUME IInv, LinkInv, Panic \/ UNCHANGED alive,
         \A s \in Sessions : main'[s] = "idle" => main[s] = "idle" /\ conn'[s] = conn[s],
         \A s \in Sessions : poll[s] = "over" /\ main[s] = "ended"
                               => poll'[s] = "over" /\ main'[s] = "ended"
  PROVE  LinkInv'
BY DEF Panic, LinkInv, IInv, TypeOK

LEMMA LinkNext ==
  ASSUME IInv, LinkInv, [Next]_vars
  PROVE  LinkInv'
<1> USE DEF procVars, lineVars, bridgeVars
<1>1. ASSUME NEW s \in Sessions, Connect(s) \/ Handler(s)
      PROVE  LinkInv'
  <2>1. /\ main[s] # "ended" /\ UNCHANGED <<alive>>
        /\ \A t \in Sessions : t # s => main'[t] = main[t] /\ conn'[t] = conn[t]
                                        /\ poll'[t] = poll[t]
        /\ main'[s] # "idle"
    BY <1>1 DEF Connect, Handler, InitAnswered, InitFails, WaitEnds, Return, IInv, TypeOK
  <2> QED
    BY <2>1, LinkFrame
<1>2. ASSUME NEW s \in Sessions, Poller(s)
      PROVE  LinkInv'
  <2>1. /\ UNCHANGED <<conn>>
        /\ \/ Panic
           \/ /\ poll[s] # "over" /\ UNCHANGED <<alive, main>>
              /\ \A t \in Sessions : t # s => poll'[t] = poll[t]
    BY <1>2 DEF Poller, PollCheck, PollAnswered, PollFails, PollWrites, PollWriteFails,
                PollCloses, PollGoto, IInv, TypeOK
  <2>2. CASE Panic
    BY <2>1, <2>2, LinkFrame DEF Panic, IInv, TypeOK
  <2>3. CASE ~Panic
    BY <2>1, <2>3, LinkFrame
  <2> QED
    BY <2>2, <2>3
<1>3. ASSUME NEW s \in Sessions, InputReads(s) \/ Input(s) \/ Races(s)
      PROVE  LinkInv'
  <2>1. CASE Panic
    <3>1. \A t \in Sessions : main'[t] = "ended" /\ poll'[t] = "over"
      BY <2>1 DEF Panic
    <3> QED
      BY <2>1, <3>1, LinkFrame
  <2>2. CASE Garble(s)
    <3>1. main[s] # "idle"
      BY <2>2 DEF Garble, Writing, IInv, TypeOK, Running
    <3> QED
      BY <2>2, <3>1, LinkFrame DEF Garble, Conn, IInv, TypeOK
  <2>3. CASE ~Panic /\ ~Garble(s)
    <3>1. UNCHANGED <<main, poll, alive, conn>>
      BY <1>3, <2>3 DEF InputReads, Input, InputGoesOn, InputFails, InputCloses, InputGoto,
                        Races, ConcurrentWrite
    <3> QED
      BY <3>1, LinkFrame
  <2> QED
    BY <2>1, <2>2, <2>3
<1>4. ASSUME NEW s \in Sessions, RelayStalls(s) \/ RelayReads(s) \/ RelayLeaves(s)
      PROVE  LinkInv'
  <2>1. /\ UNCHANGED procVars /\ conn[s] # "none"
        /\ \A t \in Sessions : t # s => conn'[t] = conn[t]
    BY <1>4 DEF RelayStalls, RelayReads, RelayLeaves, Conn, IInv, TypeOK
  <2>2. main[s] # "idle"
    BY <2>1 DEF LinkInv
  <2> QED
    BY <2>1, <2>2, LinkFrame
<1>5. CASE Container \/ UNCHANGED vars
  <2>1. UNCHANGED <<main, poll, alive, conn>>
    BY <1>5 DEF Container, Prints, Exits, GoesDown, Restarts, Bridge, vars
  <2> QED
    BY <2>1, LinkFrame
<1> QED
  BY <1>1, <1>2, <1>3, <1>4, <1>5 DEF Next, Relay

-----------------------------------------------------------------------------
\* The output each relay was shown, as SharedOutput has it.
Seen == [s \in Sessions |-> Shown(wire[s])]

\* A session that was not told the exit was shown all that was sent; one that
\* was has no goroutine that polls.
LEMMA EndSeen ==
  ASSUME IInv, NEW s \in Sessions
  PROVE  /\ s \in Ended => poll[s] = "over"
         /\ s \notin Ended => /\ Shown(wire[s]) = wire[s]
                              /\ \A i \in DOMAIN wire[s] : wire[s][i] # 0
<1>1. wire[s] \in Lines
  BY DEF IInv, TypeOK
<1>2. wire[s] # << >> => Len(wire[s]) \in DOMAIN wire[s]
  BY <1>1 DEF Lines
<1>3. s \in Ended => poll[s] = "over"
  BY <1>2 DEF Ended, IInv, ExitInv
<1>4. s \notin Ended => \A i \in DOMAIN wire[s] : wire[s][i] # 0
  <2>1. \A i \in DOMAIN wire[s] : wire[s] # << >>
    BY <1>1 DEF Lines
  <2> QED
    BY <2>1 DEF Ended, IInv, ExitInv
<1>5. s \notin Ended => Shown(wire[s]) = wire[s]
  BY DEF Ended, Shown
<1> QED
  BY <1>3, <1>4, <1>5

\* A step of SharedOutput, or none that it sees.
Shares == Output!Step \/ UNCHANGED Output!vars

LEMMA ShareQuiet ==
  ASSUME UNCHANGED <<printed, buffer, took, wire, Gone>>
  PROVE  Shares
BY DEF Shares, Output!vars, Ended

\* One connection changes: its relay has left, or nobody sees it.
LEMMA ShareConn ==
  ASSUME IInv, NEW s \in Sessions, NEW c \in {"up", "stalled", "lost", "down"},
         conn' = [conn EXCEPT ![s] = c],
         c \in {"up", "stalled"} => conn[s] \notin {"lost", "down"},
         UNCHANGED <<printed, buffer, took, wire>>
  PROVE  Shares
<1>1. \A t \in Sessions : conn'[t] = IF t = s THEN c ELSE conn[t]
  BY DEF IInv, TypeOK
<1>2. CASE c \in {"up", "stalled"}
  <2>1. Gone' = Gone
    BY <1>1, <1>2 DEF Gone
  <2> QED
    BY <2>1, ShareQuiet
<1>3. CASE c \in {"lost", "down"}
  <2>1. Gone' = Gone \cup {s}
    BY <1>1, <1>3 DEF Gone
  <2>2. Ended' = Ended
    BY DEF Ended
  <2>3. Output!Leave(s)
    BY <2>1, <2>2 DEF Output!Leave
  <2> QED
    BY <2>3 DEF Shares, Output!Step
<1> QED
  BY <1>2, <1>3

\* Before a write, and before a response is taken: what was taken and not sent
\* is the line to be written.
LEMMA ShareForward ==
  ASSUME IInv, LinkInv, NEW s \in Sessions, poll[s] # "over", s \notin Gone,
         conn[s] # "none"
  PROVE  /\ s \notin Ended /\ took[s] = wire[s] \o Left(lines[s])
         /\ Seen[s] = wire[s] /\ wire[s] \in Lines /\ wire[s] \o << >> = wire[s]
<1>1. alive /\ conn[s] \in {"up", "stalled"}
  BY DEF LinkInv, Gone, IInv, TypeOK
<1>2. s \notin Ended /\ Shown(wire[s]) = wire[s]
  BY EndSeen
<1>3. wire[s] \in Lines /\ wire[s] \o << >> = wire[s]
  BY DEF IInv, TypeOK, Lines
<1> QED
  BY <1>1, <1>2, <1>3 DEF IInv, TakenIsForwarded, Seen

LEMMA ShareTake ==
  ASSUME IInv, LinkInv, NEW s \in Sessions, PollAnswered(s)
  PROVE  Shares
<1>1. /\ poll[s] = "get" /\ lines[s] = << >> /\ conn[s] # "none"
      /\ took' = [took EXCEPT ![s] = @ \o buffer] /\ buffer' = << >>
      /\ UNCHANGED <<wire, conn, printed>>
  BY DEF PollAnswered, IInv, TypeOK, HasLine, Running
<1>2. s \notin Ended
  BY <1>1, EndSeen
<1>3. s \notin Gone => Seen[s] = took[s]
  BY <1>1, ShareForward, LineShown
<1>4. Output!Take(s)
  BY <1>1, <1>2, <1>3 DEF Output!Take, Seen, Gone, Ended
<1> QED
  BY <1>4 DEF Shares, Output!Step

LEMMA ShareWrite ==
  ASSUME IInv, LinkInv, NEW s \in Sessions, PollWrites(s)
  PROVE  Shares
<1> DEFINE line == Head(lines[s])
<1>1. /\ poll[s] = "write" /\ Rest(lines[s]) /\ lines[s] # << >>
      /\ wire \in [Sessions -> Lines] /\ conn[s] \in {"up", "lost"}
      /\ wire' = IF conn[s] = "up" THEN [wire EXCEPT ![s] = @ \o line] ELSE wire
      /\ UNCHANGED <<printed, buffer, took, conn>>
  BY DEF PollWrites, Sent, IInv, TypeOK, HasLine, bridgeVars
<1>2. \/ line \in Seq(Chunks) /\ Left(lines[s]) = line
      \/ line = Exit /\ Left(lines[s]) = << >>
  BY <1>1, RestTail
<1> HIDE DEF line
<1>3. Gone' = Gone
  BY <1>1 DEF Gone
<1>4. CASE conn[s] = "lost"
  BY <1>1, <1>3, <1>4, ShareQuiet
<1>5. CASE conn[s] = "up"
  <2>1. /\ s \notin Ended /\ s \notin Gone /\ took[s] = wire[s] \o Left(lines[s])
        /\ Seen[s] = wire[s] /\ wire[s] \o << >> = wire[s] /\ wire[s] \in Lines
        /\ \A i \in DOMAIN wire[s] : wire[s][i] # 0
    BY <1>1, <1>5, ShareForward, EndSeen DEF Gone
  <2>2. /\ wire'[s] = wire[s] \o line
        /\ \A t \in Sessions : t # s => wire'[t] = wire[t]
    BY <1>1, <1>5
  <2>3. /\ wire'[s] \in Lines
        /\ Shown(wire'[s]) = IF line = Exit THEN wire[s] ELSE wire[s] \o line
        /\ \A i \in DOMAIN wire'[s] : wire'[s][i] = 0 => line = Exit
    BY <1>2, <2>1, <2>2, LineSent
  <2>4. Seen' = [Seen EXCEPT ![s] = Shown(wire'[s])]
    BY <2>2 DEF Seen
  <2>5. CASE line # Exit
    <3>1. Seen' = [Seen EXCEPT ![s] = took[s]]
      BY <1>2, <2>1, <2>3, <2>4, <2>5
    <3>2. s \notin Ended'
      BY <2>3, <2>5 DEF Ended, Lines
    <3>3. Ended' = Ended
      BY <2>1, <2>2, <3>2 DEF Ended
    <3>4. Output!Show(s)
      BY <1>1, <1>3, <2>1, <3>1, <3>3 DEF Output!Show, Seen
    <3> QED
      BY <3>4 DEF Shares, Output!Step
  <2>6. CASE line = Exit
    <3>1. took[s] = wire[s] /\ Seen' = Seen
      BY <1>2, <2>1, <2>3, <2>4, <2>6, ExitIsNoOutput DEF Seen
    <3>2. wire'[s] # << >> /\ wire'[s][Len(wire'[s])] = 0
      BY <2>1, <2>2, <2>6 DEF Exit, Lines
    <3>3. Ended' = Ended \cup {s}
      BY <2>2, <3>2 DEF Ended
    <3>4. Output!End(s)
      BY <1>1, <1>3, <2>1, <3>1, <3>3 DEF Output!End, Seen
    <3> QED
      BY <3>4 DEF Shares, Output!Step
  <2> QED
    BY <2>5, <2>6
<1> QED
  BY <1>1, <1>4, <1>5

LEMMA ShareNext ==
  ASSUME IInv, LinkInv, [Next]_vars
  PROVE  [Output!Step]_(Output!vars)
<1> SUFFICES Shares
  BY DEF Shares
<1> USE DEF procVars, lineVars, bridgeVars
<1>1. CASE UNCHANGED vars
  BY <1>1, ShareQuiet DEF vars, Gone
<1>2. ASSUME NEW s \in Sessions, Connect(s)
      PROVE  Shares
  BY <1>2, ShareConn DEF Connect, LinkInv
<1>3. ASSUME NEW s \in Sessions, InitAnswered(s) \/ InitFails(s) \/ WaitEnds(s)
      PROVE  Shares
  <2>1. CASE InitAnswered(s)
    BY <2>1, ShareQuiet DEF InitAnswered, Gone
  <2>2. CASE InitFails(s) \/ WaitEnds(s)
    BY <2>2, ShareConn DEF InitFails, WaitEnds, Return
  <2> QED
    BY <1>3, <2>1, <2>2
<1>4. ASSUME NEW s \in Sessions, PollCheck(s) \/ PollFails(s) \/ PollWriteFails(s)
      PROVE  Shares
  BY <1>4, ShareQuiet DEF PollCheck, PollFails, PollWriteFails, Gone
<1>5. ASSUME NEW s \in Sessions, InputReads(s) \/ Input(s) \/ ConcurrentWrite(s)
      PROVE  Shares
  BY <1>5, ShareQuiet DEF InputReads, Input, InputGoesOn, InputFails, ConcurrentWrite, Gone
<1>6. ASSUME NEW s \in Sessions,
             Garble(s) \/ RelayStalls(s) \/ RelayReads(s) \/ RelayLeaves(s)
      PROVE  Shares
  BY <1>6, ShareConn DEF Garble, RelayStalls, RelayReads, RelayLeaves, Conn
<1>7. CASE Container
  <2>1. UNCHANGED <<took, wire, Gone, Ended>>
    BY <1>7 DEF Container, Prints, Exits, GoesDown, Restarts, Bridge, Gone, Ended
  <2>2. CASE Prints
    <3>1. Output!Emit
      BY <2>1, <2>2 DEF Prints, Bridge, Output!Emit
    <3> QED
      BY <3>1 DEF Shares, Output!Step
  <2>3. CASE Exits
    BY <2>1, <2>3, ShareQuiet DEF Exits, Bridge
  <2>4. CASE GoesDown \/ Restarts
    <3>1. Output!Lose
      BY <2>1, <2>4 DEF GoesDown, Restarts, Bridge, Output!Lose
    <3> QED
      BY <3>1 DEF Shares, Output!Step
  <2> QED
    BY <1>7, <2>2, <2>3, <2>4 DEF Container
<1> QED
  BY <1>1, <1>2, <1>3, <1>4, <1>5, <1>6, <1>7, ShareTake, ShareWrite
  DEF Next, Handler, Poller, Races, Relay

LEMMA ShareInit == Init => Output!InitOutput
<1> SUFFICES ASSUME Init PROVE Output!InitOutput
  OBVIOUS
<1>1. Gone = {} /\ Ended = {} /\ Seen = [s \in Sessions |-> << >>]
  BY DEF Init, Gone, Ended, Seen, Shown
<1> QED
  BY <1>1 DEF Init, Output!InitOutput, Seen

\* The proxy's goroutines, with their breaks, panics and restarts of the
\* container, implement SharedOutput: each chunk goes to one session, which is
\* shown what it took before it takes more and told the exit last.
THEOREM OutputShared == Spec => SharesOutput
<1>1. IInv /\ LinkInv /\ [Next]_vars => LinkInv' /\ [Output!Step]_(Output!vars)
  BY LinkNext, ShareNext
<1> QED
  BY <1>1, InitLink, ShareInit, Inductive, PTL DEF Spec, SharesOutput, Output!Sharing

-----------------------------------------------------------------------------
(* What SharedOutput means for the sessions, from its steps alone.          *)

OneTaker ==
  \A s, t \in Sessions : \A i \in DOMAIN took[s], j \in DOMAIN took[t] :
    took[s][i] = took[t][j] => s = t /\ i = j

\* The inductive form of OneTaker: a chunk is nobody's yet, at one place of the
\* buffer, or one session's, and the next one is new to all.
TakerInv ==
  /\ \A i \in DOMAIN buffer : buffer[i] <= printed
  /\ \A s \in Sessions : \A i \in DOMAIN took[s] : took[s][i] <= printed
  /\ \A i, j \in DOMAIN buffer : buffer[i] = buffer[j] => i = j
  /\ \A s \in Sessions : \A i \in DOMAIN took[s], j \in DOMAIN buffer :
       took[s][i] # buffer[j]
  /\ OneTaker

OutputTypes ==
  /\ printed \in Nat /\ buffer \in Seq(Nat) /\ took \in [Sessions -> Seq(Nat)]

LEMMA TypesOfOutput == IInv => OutputTypes
<1> SUFFICES ASSUME IInv PROVE OutputTypes
  OBVIOUS
<1>1. printed \in Nat /\ buffer \in Seq(Chunks) /\ took \in [Sessions -> Seq(Chunks)]
  BY DEF IInv, TypeOK
<1>2. \A q \in Seq(Chunks) : q \in Seq(Nat)
  BY LocalProxyAssumption DEF Chunks
<1> QED
  BY <1>1, <1>2 DEF OutputTypes

LEMMA TakerPrints ==
  ASSUME OutputTypes, TakerInv, Output!Emit
  PROVE  TakerInv'
<1>1. /\ printed' = printed + 1 /\ took' = took
      /\ Len(buffer') = Len(buffer) + 1 /\ buffer'[Len(buffer) + 1] = printed + 1
      /\ \A i \in DOMAIN buffer : buffer'[i] = buffer[i]
      /\ DOMAIN buffer' = DOMAIN buffer \cup {Len(buffer) + 1}
      /\ printed \in Nat
  BY DEF OutputTypes, Output!Emit
<1>2. /\ \A i \in DOMAIN buffer : buffer[i] \in Nat
      /\ \A s \in Sessions : \A i \in DOMAIN took[s] : took[s][i] \in Nat
  BY DEF OutputTypes
<1>3. \A i \in DOMAIN buffer' : buffer'[i] <= printed'
  BY <1>1, <1>2 DEF TakerInv
<1>4. \A s \in Sessions : \A i \in DOMAIN took'[s] : took'[s][i] <= printed'
  BY <1>1, <1>2 DEF TakerInv
<1>5. \A i, j \in DOMAIN buffer' : buffer'[i] = buffer'[j] => i = j
  BY <1>1, <1>2 DEF TakerInv
<1>6. \A s \in Sessions : \A i \in DOMAIN took'[s], j \in DOMAIN buffer' :
        took'[s][i] # buffer'[j]
  BY <1>1, <1>2 DEF TakerInv
<1> QED
  BY <1>1, <1>3, <1>4, <1>5, <1>6 DEF TakerInv, OneTaker

LEMMA Concatenated ==
  ASSUME NEW S, NEW p \in Seq(S), NEW q \in Seq(S), NEW i \in DOMAIN (p \o q)
  PROVE  \/ i \in DOMAIN p /\ (p \o q)[i] = p[i]
         \/ i - Len(p) \in DOMAIN q /\ (p \o q)[i] = q[i - Len(p)] /\ i \in Int
<1>1. /\ i \in 1 .. (Len(p) + Len(q)) /\ Len(p) \in Nat /\ Len(q) \in Nat
      /\ DOMAIN p = 1 .. Len(p) /\ DOMAIN q = 1 .. Len(q)
  OBVIOUS
<1>2. CASE i <= Len(p)
  BY <1>1, <1>2
<1>3. CASE i > Len(p)
  BY <1>1, <1>3
<1> QED
  BY <1>1, <1>2, <1>3

LEMMA TakerTakes ==
  ASSUME OutputTypes, TakerInv, NEW r \in Sessions, Output!Take(r)
  PROVE  TakerInv'
<1> DEFINE n == Len(took[r])
<1>1. /\ buffer' = << >> /\ printed' = printed
      /\ \A s \in Sessions : took'[s] = IF s = r THEN took[r] \o buffer ELSE took[s]
      /\ n \in Nat /\ Len(buffer) \in Nat
      /\ buffer \in Seq(Nat) /\ took[r] \in Seq(Nat)
  BY DEF OutputTypes, Output!Take
<1>2. \A i \in DOMAIN took'[r] :
        \/ i \in DOMAIN took[r] /\ took'[r][i] = took[r][i]
        \/ i - n \in DOMAIN buffer /\ took'[r][i] = buffer[i - n] /\ i \in Int
  <2> SUFFICES ASSUME NEW i \in DOMAIN (took[r] \o buffer)
               PROVE  \/ i \in DOMAIN took[r] /\ (took[r] \o buffer)[i] = took[r][i]
                      \/ /\ i - Len(took[r]) \in DOMAIN buffer /\ i \in Int
                         /\ (took[r] \o buffer)[i] = buffer[i - Len(took[r])]
    BY <1>1
  <2> QED
    BY <1>1, Concatenated
<1>3. \A s \in Sessions : s # r => took'[s] = took[s]
  BY <1>1
<1> HIDE DEF n
<1>4. \A s \in Sessions : \A i \in DOMAIN took'[s] : took'[s][i] <= printed'
  BY <1>1, <1>2, <1>3 DEF TakerInv
<1>5. OneTaker'
  <2> SUFFICES ASSUME NEW s \in Sessions, NEW t \in Sessions,
                      NEW i \in DOMAIN took'[s], NEW j \in DOMAIN took'[t],
                      took'[s][i] = took'[t][j]
               PROVE  s = t /\ i = j
    BY DEF OneTaker
  <2>1. CASE s # r /\ t # r
    BY <1>3, <2>1 DEF TakerInv, OneTaker
  <2>2. CASE s = r /\ t # r
    BY <1>2, <1>3, <2>2 DEF TakerInv, OneTaker
  <2>3. CASE s # r /\ t = r
    <3>1. i \in DOMAIN took[s] /\ took'[s][i] = took[s][i]
      BY <1>3, <2>3
    <3> QED
      BY <1>2, <2>3, <3>1 DEF TakerInv, OneTaker
  <2>4. CASE s = r /\ t = r
    <3>1. CASE i \in DOMAIN took[r] /\ j \in DOMAIN took[r]
               /\ took'[r][i] = took[r][i] /\ took'[r][j] = took[r][j]
      BY <2>4, <3>1 DEF TakerInv, OneTaker
    <3>2. CASE /\ i - n \in DOMAIN buffer /\ took'[r][i] = buffer[i - n] /\ i \in Int
               /\ j - n \in DOMAIN buffer /\ took'[r][j] = buffer[j - n] /\ j \in Int
      <4>1. i - n = j - n
        BY <2>4, <3>2 DEF TakerInv
      <4> QED
        BY <1>1, <2>4, <3>2, <4>1
    <3> QED
      BY <1>2, <2>4, <3>1, <3>2 DEF TakerInv
  <2> QED
    BY <2>1, <2>2, <2>3, <2>4
<1> QED
  BY <1>1, <1>4, <1>5 DEF TakerInv

LEMMA TakerNext ==
  ASSUME OutputTypes, TakerInv, [Output!Step]_(Output!vars)
  PROVE  TakerInv'
<1>1. CASE Output!Emit
  BY <1>1, TakerPrints
<1>2. CASE Output!Lose
  BY <1>2 DEF Output!Lose, TakerInv, OneTaker
<1>3. ASSUME NEW r \in Sessions, Output!Take(r)
      PROVE  TakerInv'
  BY <1>3, TakerTakes
<1>4. ASSUME UNCHANGED <<printed, buffer, took>>
      PROVE  TakerInv'
  BY <1>4 DEF TakerInv, OneTaker
<1>5. ASSUME NEW r \in Sessions, Output!Show(r) \/ Output!End(r) \/ Output!Leave(r)
      PROVE  TakerInv'
  BY <1>4, <1>5 DEF Output!Show, Output!End, Output!Leave
<1> QED
  BY <1>1, <1>2, <1>3, <1>4, <1>5 DEF Output!Step, Output!vars

\* However sessions poll, break and outlive their relays and however often the
\* container restarts, no chunk is taken twice: not by two sessions, and not by
\* one of them again.
THEOREM TakenByOne == Spec => []OneTaker
<1>1. Init => TakerInv
  BY DEF Init, TakerInv, OneTaker
<1>2. IInv /\ TakerInv /\ [Output!Step]_(Output!vars) => TakerInv'
  BY TypesOfOutput, TakerNext
<1>3. TakerInv => OneTaker
  BY DEF TakerInv
<1> QED
  BY <1>1, <1>2, <1>3, Inductive, OutputShared, PTL DEF SharesOutput, Output!Sharing, Spec
=============================================================================
