--------------------------- MODULE BotClientProofs ---------------------------
(***************************************************************************)
(* Proofs about BotClient: the two threads never interleave within a frame,*)
(* closures are reported and commands keep their order, for any number of  *)
(* messages and lines.                                                     *)
(***************************************************************************)
EXTENDS BotClient, SequenceTheorems, TLAPS

\* A thread that has the mutex is at one of the places between lock and unlock, and
\* only there has it frames to send.
Inside(t) == IF t = "main" THEN mainAt = "send" ELSE pollAt \in {"read", "handle"}
MutexOK ==
    \A t \in Threads :
        /\ Inside(t) <=> mutex = t
        /\ calls[t] # <<>> => Holds(t)
        /\ calls[t] = <<>> => part[t] = "header"

\* The connection is open only once, and threads run once it has been.
PhaseOK ==
    /\ pollAt = "none" <=> mainAt \in {"connect", "handshake"}
    /\ mainAt = "connect" => conn = "none"
    /\ conn = "none" => mainAt = "connect" /\ last.part = "payload"
    /\ mainAt = "handshake" /\ fate = "alive" => conn = "open"
    /\ pollAt = "none" => reported = <<>> /\ code = 1006 /\ fate \in {"alive", "failed"}
    /\ fate = "ended" => pollAt = "ended"
    /\ fate = "failed" => pollAt = "none"

\* What the poll thread has seen of a closure.
ClosureOK ==
    /\ conn # "closed" => cut = Nobody
    /\ pollAt # "none" /\ conn = "closed" => cut \in Threads
    /\ reported # <<>> => conn = "closed" /\ pollAt \in {"test", "ended"}
    /\ cut = "poller" /\ pollAt # "handle" => reported # <<>>
    /\ pollAt \in {"read", "lock"} /\ conn = "closed" => cut = "main"
    /\ fate = "crashed" => pollAt = "read" /\ conn = "closed"
    /\ code # 1006 /\ conn = "open" =>
          pollAt = "handle" /\ "close" \in ToSet(calls["poller"])
    /\ code # 1006 => cut # "main"

IInv == TypeOK /\ MutexOK /\ PhaseOK /\ ClosureOK /\ FramesAreWhole /\ ClosuresAreReported

USE DEF Threads, Nobody, Alive, Started

\* The invariant holds in the beginning.
LEMMA InitIInv ==
    ASSUME Init PROVE IInv
<1> USE DEF Init
<1>1. TypeOK  BY DEF TypeOK, Kinds, Messages
<1>2. MutexOK  BY DEF MutexOK, Inside, Holds
<1>3. PhaseOK  BY DEF PhaseOK, Piece
<1>4. ClosureOK  BY DEF ClosureOK
<1>5. FramesAreWhole  BY DEF FramesAreWhole, Piece
<1>6. ClosuresAreReported  BY DEF ClosuresAreReported
<1> QED  BY <1>1, <1>2, <1>3, <1>4, <1>5, <1>6 DEF IInv

\* What the poll thread takes from the messages it reads.
LEMMA AnswersProperties ==
    ASSUME NEW q \in Seq(Messages), NEW n \in 1 .. Len(q)
    PROVE  /\ SubSeq(q, n + 1, Len(q)) \in Seq(Messages)
           /\ Answers(SubSeq(q, 1, n)) \in Seq(Kinds)
           /\ "close" \in ToSet(SubSeq(q, 1, n)) => "close" \in ToSet(Answers(SubSeq(q, 1, n)))
<1> DEFINE s == SubSeq(q, 1, n)
<1>1. \A m \in Messages : Answer[m] \in Kinds  BY DEF Messages, Answer, Kinds
<1>2. Answer["close"] = "close"  BY DEF Answer
<1>3. SubSeq(q, n + 1, Len(q)) \in Seq(Messages)  OBVIOUS
<1>4. s \in Seq(Messages) /\ Len(s) = n /\ DOMAIN s = 1 .. n  OBVIOUS
<1> HIDE DEF s
<1>5. Answers(s) = [i \in 1 .. n |-> Answer[s[i]]]  BY <1>4 DEF Answers
<1>6. \A i \in 1 .. n : Answer[s[i]] \in Kinds  BY <1>1, <1>4
<1>7. Answers(s) \in Seq(Kinds)  BY <1>5, <1>6
<1>8. ASSUME "close" \in ToSet(s) PROVE "close" \in ToSet(Answers(s))
  <2>1. PICK i \in 1 .. n : s[i] = "close"  BY <1>4, <1>8 DEF ToSet
  <2>2. Answers(s)[i] = "close"  BY <2>1, <1>2, <1>5
  <2> QED  BY <2>2, <1>5 DEF ToSet
<1> QED  BY <1>3, <1>7, <1>8 DEF s

\* Connecting: one TCP connection, one handshake.
LEMMA ConnectIInv ==
    ASSUME IInv,
           ConnectTcp \/ Handshake
    PROVE  IInv'
<1> USE DEF IInv, ConnectTcp, Handshake, HandshakeTurn, Opened, closing, network, wire, stdin
<1>1. TypeOK'  BY DEF TypeOK, Messages
<1>2. MutexOK'  BY DEF TypeOK, MutexOK, PhaseOK, Inside, Holds
<1>3. PhaseOK'  BY DEF TypeOK, MutexOK, PhaseOK, ClosureOK, Inside, Holds
<1>4. ClosureOK'  BY DEF TypeOK, MutexOK, PhaseOK, ClosureOK, Inside, Holds
<1>5. FramesAreWhole'  BY DEF TypeOK, MutexOK, PhaseOK, FramesAreWhole, Inside, Holds
<1>6. ClosuresAreReported'  BY DEF TypeOK, MutexOK, PhaseOK, ClosureOK, ClosuresAreReported, Inside
<1> QED  BY <1>1, <1>2, <1>3, <1>4, <1>5, <1>6

\* The steps of both threads outside the mutex, and those that take or release it with
\* nothing left to send.
LEMMA ControlIInv ==
    ASSUME IInv,
           MainSent \/ MainTest \/ Sleep \/ NoInput \/ TakeLine \/ Join \/ PollTest \/ PollLocks
           \/ PollReadsClosed
    PROVE  IInv'
<1> USE DEF IInv, MainSent, MainTest, Sleep, NoInput, TakeLine, Join, PollTest, PollLocks,
            PollReadsClosed, GoesOn, Free, closing, network, wire, stdin
<1>1. TypeOK'  BY DEF TypeOK, Messages
<1>2. MutexOK'  BY DEF TypeOK, MutexOK, PhaseOK, Inside, Holds
<1>3. PhaseOK'  BY DEF TypeOK, MutexOK, PhaseOK, ClosureOK, Inside, Holds
<1>4. ClosureOK'  BY DEF TypeOK, MutexOK, PhaseOK, ClosureOK, Inside, Holds
<1>5. FramesAreWhole'  BY DEF TypeOK, MutexOK, PhaseOK, FramesAreWhole, Inside, Holds
<1>6. ClosuresAreReported'  BY DEF TypeOK, MutexOK, PhaseOK, ClosureOK, ClosuresAreReported, Inside
<1> QED  BY <1>1, <1>2, <1>3, <1>4, <1>5, <1>6

\* The main thread enters with what it is to send.
LEMMA MainLocksIInv ==
    ASSUME IInv,
           MainLocks
    PROVE  IInv'
<1> USE DEF IInv, MainLocks, Free, closing, network, wire, stdin
<1>1. TypeOK'
  <2>1. {Login, <<"turn">>, <<"command">>, <<>>} \subseteq Seq(Kinds)
    BY DEF Login, Kinds
  <2> HIDE DEF Login, Kinds
  <2>2. \E s \in Seq(Kinds) : calls' = [calls EXCEPT !["main"] = s] \/ calls' = calls
    BY <2>1
  <2>3. calls' \in [Threads -> Seq(Kinds)]  BY <2>2 DEF TypeOK
  <2> QED  BY <2>3 DEF TypeOK
<1>2. MutexOK'  BY DEF TypeOK, MutexOK, PhaseOK, Inside, Holds
<1>3. PhaseOK'  BY DEF TypeOK, MutexOK, PhaseOK, ClosureOK, Inside, Holds
<1>4. ClosureOK'  BY DEF TypeOK, MutexOK, PhaseOK, ClosureOK, Inside, Holds
<1>5. FramesAreWhole'  BY DEF TypeOK, MutexOK, PhaseOK, FramesAreWhole, Inside, Holds
<1>6. ClosuresAreReported'  BY DEF TypeOK, MutexOK, PhaseOK, ClosureOK, ClosuresAreReported, Inside
<1> QED  BY <1>1, <1>2, <1>3, <1>4, <1>5, <1>6

\* The poll thread reads messages; the connection is open and its own.
LEMMA PollReadsIInv ==
    ASSUME IInv,
           PollReads
    PROVE  IInv'
<1> USE DEF IInv, PollReads, closing, network, wire, stdin
<1>1. TypeOK'
  <2>1. CASE UNCHANGED <<inbox, calls, code>> BY <2>1 DEF TypeOK
  <2>2. ASSUME NEW n \in 1 .. Len(inbox),
               inbox' = SubSeq(inbox, n + 1, Len(inbox)),
               calls' = [calls EXCEPT !["poller"] = Answers(SubSeq(inbox, 1, n))],
               code' \in {code, 1008}, UNCHANGED <<conn, cut>>
        PROVE TypeOK'
    <3>1. inbox \in Seq(Messages)  BY DEF TypeOK
    <3>2. inbox' \in Seq(Messages) /\ Answers(SubSeq(inbox, 1, n)) \in Seq(Kinds)
      BY <3>1, <2>2, AnswersProperties
    <3>3. calls' \in [Threads -> Seq(Kinds)]  BY <3>2, <2>2 DEF TypeOK
    <3> QED  BY <3>2, <3>3, <2>2 DEF TypeOK
  <2> QED  BY <2>1, <2>2
<1>2. MutexOK'  BY DEF TypeOK, MutexOK, PhaseOK, Inside, Holds
<1>3. PhaseOK'  BY DEF TypeOK, MutexOK, PhaseOK, ClosureOK, Inside, Holds
<1>4. ClosureOK'
  <2>1. CASE UNCHANGED <<inbox, calls, code>>
    BY <2>1 DEF TypeOK, MutexOK, PhaseOK, ClosureOK, Inside, Holds, ToSet
  <2>2. ASSUME NEW n \in 1 .. Len(inbox),
               calls' = [calls EXCEPT !["poller"] = Answers(SubSeq(inbox, 1, n))],
               code' = IF "close" \in ToSet(SubSeq(inbox, 1, n)) THEN 1008 ELSE code,
               UNCHANGED <<conn, cut>>
        PROVE ClosureOK'
    <3>1. code = 1006  BY DEF TypeOK, ClosureOK
    <3>2. "close" \in ToSet(SubSeq(inbox, 1, n)) => "close" \in ToSet(Answers(SubSeq(inbox, 1, n)))
      BY AnswersProperties DEF TypeOK
    <3>3. calls'["poller"] = Answers(SubSeq(inbox, 1, n))  BY <2>2 DEF TypeOK
    <3>4. code' # 1006 => "close" \in ToSet(calls'["poller"])  BY <2>2, <3>1, <3>2, <3>3
    <3> QED  BY <2>2, <3>1, <3>4 DEF TypeOK, PhaseOK, ClosureOK
  <2> QED  BY <2>1, <2>2
<1>5. FramesAreWhole'  BY DEF TypeOK, MutexOK, PhaseOK, FramesAreWhole, Inside, Holds
<1>6. ClosuresAreReported'  BY DEF TypeOK, MutexOK, PhaseOK, ClosureOK, ClosuresAreReported, Inside
<1> QED  BY <1>1, <1>2, <1>3, <1>4, <1>5, <1>6

\* The poll thread reports a closure before it leaves.
LEMMA PollDoneIInv ==
    ASSUME IInv,
           PollDone
    PROVE  IInv'
<1> USE DEF IInv, PollDone, Reported, closing, network, wire, stdin
<1>1. TypeOK'  BY DEF TypeOK, Messages
<1>2. MutexOK'  BY DEF TypeOK, MutexOK, PhaseOK, Inside, Holds
<1>3. PhaseOK'  BY DEF TypeOK, MutexOK, PhaseOK, ClosureOK, Inside, Holds
<1>4. ClosureOK'  BY DEF TypeOK, MutexOK, PhaseOK, ClosureOK, Inside, Holds, ToSet
<1>5. FramesAreWhole'  BY DEF TypeOK, MutexOK, PhaseOK, FramesAreWhole, Inside, Holds
<1>6. ClosuresAreReported'  BY DEF TypeOK, MutexOK, PhaseOK, ClosureOK, ClosuresAreReported, Inside
<1> QED  BY <1>1, <1>2, <1>3, <1>4, <1>5, <1>6

\* A write: only the thread that has the mutex is in a frame.
LEMMA WriteIInv ==
    ASSUME IInv, NEW t \in Threads,
           Write(t)
    PROVE  IInv'
<1> USE DEF IInv, Write, Rest, GoOn, Piece, closing, network, wire, stdin
<1>1. TypeOK'
  <2>1. ASSUME NEW next \in {"payload", "end", "none"}, GoOn(t, next)
        PROVE  calls' \in [Threads -> Seq(Kinds)] /\ part' \in [Threads -> {"header", "payload", "end"}]
    <3>1. Tail(calls[t]) \in Seq(Kinds)  BY DEF TypeOK
    <3> QED  BY <2>1, <3>1 DEF TypeOK, GoOn
  <2>2. \A kind, p : Rest(kind, p) \in {"payload", "end", "none"}  BY DEF Rest
  <2>3. \E next \in {"payload", "end", "none"} : GoOn(t, next)
    BY <2>2 DEF TypeOK, PhaseOK, Holds
  <2>4. calls' \in [Threads -> Seq(Kinds)] /\ part' \in [Threads -> {"header", "payload", "end"}]
    BY <2>1, <2>3
  <2> QED  BY <2>4 DEF TypeOK
<1>2. MutexOK'  BY DEF TypeOK, MutexOK, PhaseOK, Inside, Holds
<1>3. PhaseOK'  BY DEF TypeOK, MutexOK, PhaseOK, ClosureOK, Inside, Holds
<1>4. ClosureOK'
  <2>1. UNCHANGED <<pollAt, reported, code, fate>> /\ conn \in {"open", "closed"}
    BY DEF TypeOK, PhaseOK, Holds
  <2>2. CASE conn' = "closed"
    BY <2>1, <2>2 DEF TypeOK, MutexOK, PhaseOK, ClosureOK, Inside, Holds
  <2>3. CASE conn' = "open" /\ (t = "main" \/ code = 1006)
    BY <2>1, <2>3 DEF TypeOK, MutexOK, PhaseOK, ClosureOK, Inside, Holds
  <2>4. CASE conn' = "open" /\ t = "poller" /\ code # 1006
    <3>1. conn = "open" /\ cut' = cut /\ GoOn(t, Rest(Head(calls[t]), part[t])) /\ part[t] # "end"
      BY <2>1, <2>4
    <3>2. PICK i \in DOMAIN calls["poller"] : calls["poller"][i] = "close"
      BY <2>4, <3>1 DEF ClosureOK, ToSet
    <3>3. calls["poller"] \in Seq(Kinds)  BY DEF TypeOK
    <3>4. CASE Rest(Head(calls[t]), part[t]) # "none"
      BY <2>1, <2>4, <3>1, <3>4 DEF TypeOK, PhaseOK, ClosureOK, GoOn
    <3>5. CASE Rest(Head(calls[t]), part[t]) = "none"
      <4>1. calls'["poller"] = Tail(calls["poller"])  BY <2>4, <3>1, <3>5 DEF TypeOK, GoOn
      <4>2. i # 1  BY <2>4, <3>1, <3>2, <3>3, <3>5 DEF TypeOK, Rest
      <4>3. i - 1 \in DOMAIN Tail(calls["poller"]) /\ Tail(calls["poller"])[i - 1] = "close"
        BY <3>2, <3>3, <4>2
      <4>4. "close" \in ToSet(calls'["poller"])  BY <4>1, <4>3 DEF ToSet
      <4> QED  BY <2>1, <2>4, <3>1, <4>4 DEF TypeOK, PhaseOK, ClosureOK
    <3> QED  BY <3>4, <3>5
  <2> QED  BY <2>1, <2>2, <2>3, <2>4
<1>5. FramesAreWhole'  BY DEF TypeOK, MutexOK, PhaseOK, FramesAreWhole, Inside, Holds
<1>6. ClosuresAreReported'  BY DEF TypeOK, MutexOK, PhaseOK, ClosureOK, ClosuresAreReported, Inside
<1> QED  BY <1>1, <1>2, <1>3, <1>4, <1>5, <1>6

\* What happens around the process.
LEMMA WorldIInv ==
    ASSUME IInv,
           Interrupt \/ LinkFails \/ CloseStdin \/ (\E m \in Messages : ServerSends(m))
           \/ (\E c \in Commands : WriteLine(c))
    PROVE  IInv'
<1> DEFINE Same == UNCHANGED <<mode, mainAt, pollAt, mutex, calls, part, fate, conn, code, cut,
                               reported, last>>
<1>1. Same /\ link' \in {"up", "down"} /\ inbox' \in Seq(Messages)
  <2> USE DEF IInv, TypeOK, closing, network, wire, stdin, threads
  <2>1. CASE Interrupt \/ CloseStdin \/ \E c \in Commands : WriteLine(c)
    BY <2>1 DEF Interrupt, CloseStdin, WriteLine
  <2>2. CASE LinkFails
    <3>1. inbox' = inbox \/ inbox' = <<>>  BY <2>2 DEF LinkFails
    <3>2. inbox' \in Seq(Messages)
      <4>1. CASE inbox' = inbox  BY <4>1
      <4>2. CASE inbox' = <<>>  BY <4>2
      <4> QED  BY <3>1, <4>1, <4>2
    <3> QED  BY <2>2, <3>2 DEF LinkFails
  <2>3. ASSUME NEW m \in Messages, ServerSends(m)
        PROVE  Same /\ link' \in {"up", "down"} /\ inbox' \in Seq(Messages)
    BY <2>3 DEF ServerSends
  <2> QED  BY <2>1, <2>2, <2>3
<1> QED
  BY <1>1 DEF IInv, TypeOK, MutexOK, PhaseOK, ClosureOK, FramesAreWhole, ClosuresAreReported, Inside, Holds

\* Every step preserves the invariant.
LEMMA NextIInv ==
    ASSUME IInv, [Next]_vars PROVE IInv'
<1>1. CASE MainStep  BY <1>1, ConnectIInv, ControlIInv DEF MainStep
<1>2. CASE PollStep  BY <1>2, ControlIInv, PollReadsIInv, PollDoneIInv DEF PollStep
<1>3. CASE MainLocks  BY <1>3, MainLocksIInv
<1>4. CASE PollLocks  BY <1>4, ControlIInv
<1>5. ASSUME NEW t \in Threads, Write(t) PROVE IInv'  BY <1>5, WriteIInv
<1>6. CASE \/ Interrupt \/ LinkFails \/ CloseStdin
           \/ \E m \in Messages : ServerSends(m)
           \/ \E c \in Commands : WriteLine(c)
  BY <1>6, WorldIInv
<1>7. CASE UNCHANGED vars
  BY <1>7 DEF vars, threads, closing, network, wire, stdin, IInv, TypeOK, MutexOK, PhaseOK, ClosureOK,
              FramesAreWhole, ClosuresAreReported, Inside, Holds
<1> QED  BY <1>1, <1>2, <1>3, <1>4, <1>5, <1>6, <1>7 DEF Next

\* The inductive invariant holds in every reachable state.
THEOREM BotClientInvariant == Spec => []IInv
<1>1. Init => IInv  BY InitIInv
<1>2. IInv /\ [Next]_vars => IInv'  BY NextIInv
<1> QED  BY <1>1, <1>2, PTL DEF Spec

\* Login, commands, turns of the loop and answers never mix within a frame, however
\* many messages and commands there are and whenever the connection is lost.
THEOREM FramesAlwaysWhole == Spec => []FramesAreWhole
<1>1. IInv => FramesAreWhole  BY DEF IInv
<1> QED  BY <1>1, BotClientInvariant, PTL

\* A closure that the poll thread meets is reported exactly once and with its code; a
\* crash takes a failed write of the main thread.
THEOREM ClosuresAlwaysReported == Spec => []ClosuresAreReported
<1>1. IInv => ClosuresAreReported  BY DEF IInv
<1> QED  BY <1>1, BotClientInvariant, PTL

-----------------------------------------------------------------------------
\* Command lines, from stdin to ControlCommand.

\* The lines that have been written and not dropped, in the order of their way: those
\* carried out, the one that main has taken, what stdio has read ahead, the pipe.
Taken == IF line = NoLine THEN <<>> ELSE <<line>>
OnTheirWay == done \o (Taken \o (buffer \o pipe))
LinesOK ==
    /\ {done, buffer, pipe} \subseteq Seq(Commands)
    /\ line \in Commands \cup {NoLine}
    /\ line # NoLine <=> mainAt = "lock" /\ mode = "controlled"
    /\ written \in Seq(Commands)
    /\ IF conn = "closed" THEN IsPrefix(done, written) ELSE written = OnTheirWay

\* Without SIGINT the loop ends on an open connection for a reason: "quit", or nothing
\* is left on its way.
EndOK ==
    /\ Started /\ mode = "controlled" /\ ~running /\ ~interrupted /\ mainAt # "join" =>
          "quit" \in ToSet(done)
    /\ mainAt = "join" /\ conn = "open" /\ mode = "controlled" /\ ~interrupted =>
          "quit" \in ToSet(done) \/ (line = NoLine /\ buffer = <<>> /\ pipe = <<>>)
    /\ fate = "ended" => mainAt = "join"

\* A sequence is a prefix of what it begins.
LEMMA BeginsWith ==
    ASSUME NEW S, NEW s \in Seq(S), NEW t \in Seq(S) PROVE IsPrefix(s, s \o t)
<1>1. /\ s \o t \in Seq(S) /\ Len(s \o t) = Len(s) + Len(t)
      /\ \A i \in 1 .. Len(s) : (s \o t)[i] = s[i]
  OBVIOUS
<1> DEFINE u == s \o t
<1> HIDE DEF u
<1>2. Len(s) <= Len(u) /\ \A i \in 1 .. Len(s) : u[i] = s[i]
  BY <1>1, SMT DEF u
<1>3. u \in Seq(S)
  BY <1>1 DEF u
<1>4. SubSeq(s, 1, Len(s)) = SubSeq(u, 1, Len(s))
  BY <1>2, <1>3, SMT
<1> QED BY <1>2, <1>4 DEF IsPrefix, u

\* What is on its way is in the order of writing, also if some of it has been dropped.
LEMMA DoneIsPrefix == LinesOK => IsPrefix(done, written)
<1> SUFFICES ASSUME LinesOK PROVE IsPrefix(done, written)
  OBVIOUS
<1>1. CASE conn = "closed"  BY <1>1 DEF LinesOK
<1>2. CASE conn # "closed"
  <2>1. Taken \o (buffer \o pipe) \in Seq(Commands)
    BY ConcatProperties DEF LinesOK, Taken
  <2> QED  BY <1>2, <2>1, BeginsWith DEF LinesOK, OnTheirWay
<1> QED  BY <1>1, <1>2

\* Ways to take sequences apart.
LEMMA FirstAndRest ==
    ASSUME NEW S, NEW s \in Seq(S), s # <<>>
    PROVE  Head(s) \in S /\ Tail(s) \in Seq(S) /\ s = <<Head(s)>> \o Tail(s)
<1>1. Head(s) \in S /\ Tail(s) \in Seq(S)  BY HeadTailProperties
<1>2. s = <<Head(s)>> \o Tail(s)  BY SMT
<1> QED  BY <1>1, <1>2

\* Appending is concatenation.
LEMMA AppendedAtEnd ==
    ASSUME NEW S, NEW s \in Seq(S), NEW e \in S
    PROVE  Append(s, e) = s \o <<e>> /\ Append(s, e) \in Seq(S)
  BY SMT

\* It adds an element and drops none.
LEMMA AppendedElements ==
    ASSUME NEW S, NEW s \in Seq(S), NEW e \in S
    PROVE  e \in ToSet(Append(s, e)) /\ ToSet(s) \subseteq ToSet(Append(s, e))
<1> DEFINE t == Append(s, e)
<1>1. /\ Len(s) + 1 \in DOMAIN t /\ t[Len(s) + 1] = e
      /\ \A i \in DOMAIN s : i \in DOMAIN t /\ t[i] = s[i]
  OBVIOUS
<1> HIDE DEF t
<1>2. e \in ToSet(t)  BY <1>1, Zenon DEF ToSet
<1>3. ToSet(s) \subseteq ToSet(t)  BY <1>1 DEF ToSet
<1> QED  BY <1>2, <1>3 DEF t

\* Concatenation of lines is associative.
LEMMA Regrouped == \A s, t, u \in Seq(Commands) : (s \o t) \o u = s \o (t \o u)
  BY ConcatAssociative

\* Writing a line puts it behind everything else.
LEMMA WriteLineKeeps ==
    ASSUME LinesOK, NEW c \in Commands, WriteLine(c) PROVE LinesOK'
<1>1. /\ UNCHANGED <<mode, mainAt, conn, done, line, buffer>>
      /\ pipe' = Append(pipe, c) /\ written' = Append(written, c)
  BY DEF WriteLine, threads
<1>2. /\ pipe' = pipe \o <<c>> /\ pipe' \in Seq(Commands) /\ <<c>> \in Seq(Commands)
      /\ written' = written \o <<c>> /\ written' \in Seq(Commands)
  BY <1>1, AppendedAtEnd DEF LinesOK
<1>3. CASE conn # "closed"
  <2> DEFINE new == <<c>>
             rest == buffer \o pipe
             all == Taken \o rest
  <2>1. new \in Seq(Commands) /\ pipe' = pipe \o new /\ written' = written \o new
    BY <1>2
  <2> HIDE DEF new
  <2>2. Taken \in Seq(Commands) /\ Taken' = Taken  BY <1>1 DEF LinesOK, Taken
  <2>3. done \in Seq(Commands) /\ buffer \in Seq(Commands) /\ pipe \in Seq(Commands)
    BY DEF LinesOK
  <2>4. rest \in Seq(Commands) /\ all \in Seq(Commands)
    BY <2>2, <2>3, ConcatProperties
  <2>5. buffer \o (pipe \o new) = rest \o new
    BY <2>1, <2>3, Regrouped
  <2>6. Taken \o (rest \o new) = all \o new
    BY <2>1, <2>2, <2>4, Regrouped
  <2> HIDE DEF all
  <2>7. done \o (all \o new) = (done \o all) \o new
    BY <2>1, <2>3, <2>4, Regrouped
  <2>8. OnTheirWay' = OnTheirWay \o new
    BY <1>1, <2>1, <2>2, <2>5, <2>6, <2>7 DEF OnTheirWay, all
  <2> QED  BY <1>1, <1>2, <1>3, <2>1, <2>8 DEF LinesOK
<1>4. CASE conn = "closed"
  <2>1. IsPrefix(done, written)  BY DoneIsPrefix
  <2>2. /\ Len(done) \in Nat /\ Len(written) \in Nat /\ Len(done) <= Len(written)
        /\ SubSeq(done, 1, Len(done)) = SubSeq(written, 1, Len(done))
    BY <2>1 DEF IsPrefix, LinesOK
  <2>3. /\ Len(written') = Len(written) + 1
        /\ SubSeq(written', 1, Len(done)) = SubSeq(written, 1, Len(done))
    <3>1. written \in Seq(Commands)  BY DEF LinesOK
    <3> HIDE DEF LinesOK
    <3>2. Len(written') = Len(written) + 1 /\ \A i \in 1 .. Len(written) : written'[i] = written[i]
      BY <1>1, <3>1, SMT
    <3> QED  BY <1>2, <2>2, <3>1, <3>2, SMT
  <2> QED  BY <1>1, <1>2, <1>4, <2>2, <2>3, SMT DEF LinesOK, IsPrefix
<1> QED  BY <1>3, <1>4

\* Taking a line: the first that stdio has read ahead, or the first in the pipe.
LEMMA TakeLineKeeps ==
    ASSUME LinesOK, TakeLine PROVE LinesOK'
<1>1. /\ UNCHANGED <<mode, conn, done, written>>
      /\ line = NoLine /\ mode = "controlled"
  BY DEF TakeLine, LinesOK, closing
<1>2. CASE ReadAhead = <<>>
  BY <1>1, <1>2 DEF TakeLine, LinesOK, OnTheirWay, Taken
<1>3. CASE ReadAhead # <<>>
  <2> DEFINE rest == IF buffer = <<>> THEN <<>> ELSE pipe
  <2>1. /\ line' = Head(ReadAhead) /\ buffer' = Tail(ReadAhead) /\ pipe' = rest /\ mainAt' = "lock"
    BY <1>3 DEF TakeLine
  <2>2. ReadAhead \in Seq(Commands) /\ rest \in Seq(Commands)
    BY DEF ReadAhead, LinesOK
  <2>3. /\ line' \in Commands /\ buffer' \in Seq(Commands) /\ pipe' \in Seq(Commands)
        /\ ReadAhead = <<line'>> \o buffer'
    BY <1>3, <2>1, <2>2, FirstAndRest
  <2>4. line' # NoLine
    BY <2>3, ClientAssumption DEF NoLine
  <2>5. buffer \o pipe = ReadAhead \o rest
    <3>1. CASE buffer = <<>>  BY <3>1, ConcatEmptySeq DEF ReadAhead, LinesOK
    <3>2. CASE buffer # <<>>  BY <3>2 DEF ReadAhead
    <3> QED  BY <3>1, <3>2
  <2>6. Taken = <<>> /\ Taken' = <<line'>> /\ <<line'>> \in Seq(Commands)
    BY <1>1, <2>3, <2>4 DEF Taken
  <2>7. buffer \o pipe = <<line'>> \o (buffer' \o pipe')
    BY <2>1, <2>2, <2>3, <2>5, <2>6, ConcatAssociative
  <2>8. Taken \o (buffer \o pipe) = buffer \o pipe
    BY <2>6, ConcatEmptySeq, ConcatProperties DEF LinesOK
  <2>9. OnTheirWay' = OnTheirWay
    BY <1>1, <2>6, <2>7, <2>8 DEF OnTheirWay
  <2> QED  BY <1>1, <2>1, <2>3, <2>4, <2>9 DEF LinesOK
<1> QED  BY <1>2, <1>3

\* Carrying out the line that was taken, or dropping it with a connection that is gone.
LEMMA MainLocksKeeps ==
    ASSUME LinesOK, MainLocks PROVE LinesOK'
<1>1. UNCHANGED <<mode, conn, written, buffer, pipe>> /\ mainAt' = "send"
  BY DEF MainLocks, closing
<1>2. CASE UNCHANGED <<done, line>> /\ line = NoLine
  BY <1>1, <1>2 DEF LinesOK, OnTheirWay, Taken
<1>3. CASE line' = NoLine /\ done' = done /\ conn = "closed"
  BY <1>1, <1>3 DEF LinesOK
<1>4. CASE line # NoLine /\ line' = NoLine /\ done' = Append(done, line) /\ conn = "open"
  <2> DEFINE first == <<line>>
             rest == buffer \o pipe
  <2>1. Taken = first /\ first \in Seq(Commands) /\ Taken' = <<>>
    BY <1>4 DEF LinesOK, Taken
  <2>2. done' = done \o first /\ done' \in Seq(Commands) /\ done \in Seq(Commands)
    BY <1>4, AppendedAtEnd DEF LinesOK
  <2> HIDE DEF first
  <2>3. rest \in Seq(Commands)
    BY ConcatProperties DEF LinesOK
  <2>4. <<>> \o rest = rest
    BY <2>3, ConcatEmptySeq
  <2>5. done \o (first \o rest) = (done \o first) \o rest
    BY <2>1, <2>2, <2>3, Regrouped
  <2>6. OnTheirWay' = OnTheirWay
    BY <1>1, <2>1, <2>2, <2>4, <2>5 DEF OnTheirWay
  <2> QED  BY <1>1, <1>4, <2>2, <2>6 DEF LinesOK
<1>5. \/ UNCHANGED <<done, line>> /\ ~(mainAt = "lock" /\ mode = "controlled")
      \/ line' = NoLine /\ done' = done /\ conn = "closed"
      \/ mainAt = "lock" /\ mode = "controlled" /\ line' = NoLine /\ done' = Append(done, line) /\ conn = "open"
  BY DEF MainLocks
<1> QED  BY <1>2, <1>3, <1>4, <1>5 DEF LinesOK


\* No other step touches the lines; the connection is only ever closed.
LEMMA OtherStepsKeepLines ==
    ASSUME IInv, LinesOK,
           UNCHANGED <<mode, line, done, buffer, pipe, written>>,
           mainAt' = "lock" /\ mode = "controlled" <=> mainAt = "lock" /\ mode = "controlled",
           conn = "closed" => conn' = "closed"
    PROVE  LinesOK'
<1>1. IsPrefix(done, written)  BY DoneIsPrefix
<1> QED  BY <1>1 DEF LinesOK, OnTheirWay, Taken

\* Every step keeps the lines in their order.
LEMMA NextKeepsLines ==
    ASSUME IInv, LinesOK, [Next]_vars PROVE LinesOK'
<1> DEFINE Other == /\ UNCHANGED <<mode, line, done, buffer, pipe, written>>
                    /\ mainAt' = "lock" /\ mode = "controlled" <=> mainAt = "lock" /\ mode = "controlled"
                    /\ conn = "closed" => conn' = "closed"
<1>1. CASE MainLocks  BY <1>1, MainLocksKeeps
<1>2. CASE TakeLine  BY <1>2, TakeLineKeeps
<1>3. ASSUME NEW c \in Commands, WriteLine(c) PROVE LinesOK'  BY <1>3, WriteLineKeeps
<1>4. ASSUME ConnectTcp \/ Handshake PROVE Other
  BY <1>4 DEF IInv, PhaseOK, ConnectTcp, Handshake, HandshakeTurn, closing, network, wire, stdin
<1>5. ASSUME MainSent \/ MainTest \/ Sleep \/ NoInput \/ Join PROVE Other
  BY <1>5 DEF MainSent, MainTest, Sleep, NoInput, Join, closing, network, wire, stdin
<1>6. ASSUME PollStep \/ PollLocks PROVE Other
  BY <1>6 DEF PollStep, PollTest, PollReads, PollReadsClosed, PollDone, PollLocks, closing, network, wire, stdin
<1>7. ASSUME NEW t \in Threads, Write(t) PROVE Other
  BY <1>7 DEF Write, network, stdin
<1>8. ASSUME Interrupt \/ LinkFails \/ CloseStdin \/ \E m \in Messages : ServerSends(m) PROVE Other
  BY <1>8 DEF Interrupt, LinkFails, CloseStdin, ServerSends, threads, closing, network, wire, stdin
<1>9. ASSUME UNCHANGED vars PROVE Other
  BY <1>9 DEF vars, threads, stdin
<1>10. ASSUME Other PROVE LinesOK'  BY <1>10, OtherStepsKeepLines
<1> QED
  BY <1>1, <1>2, <1>3, <1>4, <1>5, <1>6, <1>7, <1>8, <1>9, <1>10 DEF Next, MainStep

\* Every step keeps the reasons for the end.
LEMMA NextKeepsEnd ==
    ASSUME IInv, LinesOK, LinesOK', EndOK, [Next]_vars PROVE EndOK'
<1>0. running' = (running /\ line # "quit") => (~running' => ~running \/ line = "quit")
  OBVIOUS
<1> USE DEF EndOK, IInv, PhaseOK, TypeOK, closing, network, wire, stdin
<1>1. CASE ConnectTcp \/ Handshake
  BY <1>1 DEF ConnectTcp, Handshake, HandshakeTurn
<1>2. CASE MainSent \/ Sleep \/ NoInput \/ Join
  BY <1>2 DEF MainSent, Sleep, NoInput, Join
<1>3. CASE MainTest
  BY <1>3 DEF MainTest, GoesOn
<1>4. CASE TakeLine
  <2>1. CASE ReadAhead = <<>>
    <3>1. buffer = <<>> /\ pipe = <<>>  BY <2>1 DEF ReadAhead
    <3>2. line = NoLine  BY <1>4 DEF TakeLine, LinesOK
    <3> QED  BY <1>4, <2>1, <3>1, <3>2 DEF TakeLine
  <2>2. CASE ReadAhead # <<>>
    BY <1>4, <2>2 DEF TakeLine
  <2> QED  BY <2>1, <2>2
<1>5. CASE MainLocks
  <2>1. CASE UNCHANGED <<running, done>>
    BY <1>5, <2>1 DEF MainLocks
  <2>2. CASE done' = Append(done, line) /\ running' = (running /\ line # "quit") /\ line # NoLine
    <3>1. done \in Seq(Commands) /\ line \in Commands  BY <2>2 DEF LinesOK
    <3>2. line \in ToSet(done') /\ ToSet(done) \subseteq ToSet(done')
      BY <2>2, <3>1, AppendedElements
    <3>3. line \in ToSet(done') /\ ("quit" \in ToSet(done) => "quit" \in ToSet(done'))
      BY <3>2
    <3>4. mainAt = "lock" /\ mainAt' = "send" /\ UNCHANGED <<mode, pollAt, interrupted, fate>>
      BY <1>5, <2>2 DEF MainLocks, LinesOK
    <3>5. ~running' => ~running \/ line = "quit"
      BY <1>0, <2>2
    <3> QED BY <3>3, <3>4, <3>5
  <2>3. mainAt = "lock" /\ mode = "controlled" => line # NoLine
    BY DEF LinesOK
  <2> QED  BY <1>5, <2>1, <2>2, <2>3 DEF MainLocks
<1>6. CASE PollStep \/ PollLocks
  BY <1>6 DEF PollStep, PollTest, PollReads, PollReadsClosed, PollDone, PollLocks
<1>7. ASSUME NEW t \in Threads, Write(t) PROVE EndOK'
  BY <1>7 DEF Write
<1>8. CASE Interrupt \/ LinkFails \/ CloseStdin \/ \E m \in Messages : ServerSends(m)
  BY <1>8 DEF Interrupt, LinkFails, CloseStdin, ServerSends, threads
<1>9. ASSUME NEW c \in Commands, WriteLine(c) PROVE EndOK'
  BY <1>9 DEF WriteLine, threads
<1>10. CASE UNCHANGED vars
  BY <1>10 DEF vars, threads
<1> QED
  BY <1>1, <1>2, <1>3, <1>4, <1>5, <1>6, <1>7, <1>8, <1>9, <1>10 DEF Next, MainStep

\* Whatever is written to stdin and however it is cut into reads, the commands that are
\* carried out are those written, in their order, and if the end of the input is what
\* stops the bot, all of them.
THEOREM CommandsAlwaysInOrder == Spec => []CommandsInOrder
<1>1. Init => LinesOK /\ EndOK
  <2> SUFFICES ASSUME Init PROVE LinesOK /\ EndOK
    OBVIOUS
  <2>1. done = <<>> /\ buffer = <<>> /\ pipe = <<>> /\ written = <<>> /\ line = NoLine /\ conn # "closed"
    BY DEF Init
  <2>2. OnTheirWay = <<>>  BY <2>1 DEF OnTheirWay, Taken
  <2> QED  BY <2>1, <2>2 DEF Init, LinesOK, EndOK
<1>2. IInv /\ LinesOK /\ EndOK /\ [Next]_vars => LinesOK' /\ EndOK'
  BY NextKeepsLines, NextKeepsEnd
<1>3. ASSUME IInv, LinesOK, EndOK PROVE CommandsInOrder
  <2>1. IsPrefix(done, written)  BY <1>3, DoneIsPrefix
  <2>2. ASSUME fate = "ended", conn = "open", ~interrupted, mode = "controlled",
               ~("quit" \in ToSet(done))
        PROVE  done = written
    <3>1. line = NoLine /\ buffer = <<>> /\ pipe = <<>>  BY <1>3, <2>2 DEF EndOK
    <3>2. written = done \o <<>>  BY <1>3, <2>2, <3>1, ConcatEmptySeq DEF LinesOK, OnTheirWay, Taken
    <3> QED  BY <1>3, <3>2, ConcatEmptySeq DEF LinesOK
  <2> QED  BY <2>1, <2>2 DEF CommandsInOrder
<1> QED  BY <1>1, <1>2, <1>3, BotClientInvariant, PTL DEF Spec

=============================================================================
