------------------------------ MODULE BotClient ------------------------------
(***************************************************************************)
(* One process of the bot, uDaraChatBot.cpp: the handshake, then two       *)
(* threads on one connection.  main sends the login and after that what    *)
(* its loop prescribes, or commands from stdin; the poll thread reads what *)
(* the server sends and answers it.  Both write through BotWebsocket.h     *)
(* under the mutex mtx, a frame in two writes, header and payload; the     *)
(* conditions of both loops are read without it.                           *)
(*                                                                         *)
(* Bytes, partial writes and the cutting of the stream into frames are     *)
(* left out: WsReceiver has them.  A message of the server is a Ping, an   *)
(* invitation (a text that is answered) or a close frame.                  *)
(***************************************************************************)
EXTENDS Naturals, Sequences, SequencesExt

CONSTANTS
    Modes,          \* the modes of the bot: "controlled", "timed" for all others
    Commands,       \* the lines that may be written to stdin
    MaxLines,       \* bound of the model: lines written to stdin
    MaxMessages,    \* bound of the model: messages sent by the server
    MaxInputs       \* bound of the model: both together

ASSUME ClientAssumption ==
    /\ Modes \subseteq {"controlled", "timed"}
    /\ Commands \subseteq {"invite", "quit"}
    /\ {MaxLines, MaxMessages, MaxInputs} \subseteq Nat

Threads == {"main", "poller"}
Nobody == "nobody"

VARIABLES
    mode,           \* the --mode of this process
    mainAt, pollAt, \* where the threads are
    running,        \* the flag that ends both loops
    mutex,          \* the thread that holds mtx
    calls,          \* the frames each thread still has to send under the mutex
    part,           \* what each thread does next for the first of them
    conn,           \* the client's connection: "none", "open", "closed" (fd_ < 0)
    code,           \* close_reason: 1006, or the code of the server's close frame
    cut,            \* history: the thread that closed the connection
    reported,       \* history: the codes given to onWSClose
    fate,           \* "alive", "failed" to connect, "ended", "crashed"
    interrupted     \* history: SIGINT after the threads were started
threads == <<mode, mainAt, pollAt, running, mutex, calls, part, fate, interrupted>>
closing == <<code, cut, reported>>

VARIABLES
    link,           \* whether the network and the server still carry the connection
    inbox,          \* what the server has sent and the bot has not read
    served, asked,  \* history: the number of messages, and of Pings, the server has sent
    last,           \* the last write of the bot that was done
    pongs           \* history: the number of Pings it has answered
wire == <<last, pongs>>
network == <<link, inbox, served, asked>>

VARIABLES
    pipe,           \* lines in stdin that the process has not read
    buffer,         \* lines that are in the buffer of stdio
    eof,            \* whether the writer has closed stdin
    line,           \* the line that main has taken
    written, done   \* history: lines written, lines given to ControlCommand
stdin == <<pipe, buffer, eof, line, written, done>>

vars == <<threads, conn, closing, network, wire, stdin>>

NoLine == "none"
Piece(kind, p) == [kind |-> kind, part |-> p]

Init ==
    /\ mode \in Modes
    /\ mainAt = "connect" /\ pollAt = "none"
    /\ running = FALSE
    /\ mutex = Nobody
    /\ calls = [t \in Threads |-> <<>>] /\ part = [t \in Threads |-> "header"]
    /\ conn = "none" /\ code = 1006 /\ cut = Nobody /\ reported = <<>>
    /\ fate = "alive" /\ interrupted = FALSE
    /\ link = "up" /\ inbox = <<>> /\ served = 0 /\ asked = 0
    /\ last = Piece("none", "payload") /\ pongs = 0
    /\ pipe = <<>> /\ buffer = <<>> /\ eof = FALSE /\ line = NoLine
    /\ written = <<>> /\ done = <<>>

Alive == fate = "alive"
Started == pollAt # "none"

-----------------------------------------------------------------------------
\* wsConnect.

\* The TCP connection and the TLS handshake, both with a limit in time.
ConnectTcp ==
    /\ Alive /\ mainAt = "connect"
    /\ \/ conn' = "open" /\ mainAt' = "handshake" /\ UNCHANGED fate
       \/ fate' = "failed" /\ UNCHANGED <<conn, mainAt>>
    /\ UNCHANGED <<mode, part, pollAt, running, mutex, calls, interrupted, closing, network, wire, stdin>>

\* One turn of the loop that waits for the HTTP response: an answer that comes
\* with the deadline is too late.
Opened(answer, late) == answer = "accepted" /\ ~late

HandshakeTurn(answer, late) ==
    /\ Alive /\ mainAt = "handshake"
    /\ answer \in {"accepted", "refused"} => link = "up"
    /\ IF Opened(answer, late)
       THEN /\ running' = TRUE
            /\ mainAt' = "login" /\ pollAt' = "test"
            /\ UNCHANGED <<conn, fate>>
       ELSE IF answer = "none" /\ ~late /\ link = "up" THEN UNCHANGED <<running, mainAt, pollAt, conn, fate>>
       ELSE /\ conn' = "closed" /\ fate' = "failed"
            /\ UNCHANGED <<running, mainAt, pollAt>>
    /\ UNCHANGED <<mode, part, mutex, calls, interrupted, closing, network, wire, stdin>>

-----------------------------------------------------------------------------
\* Writing: WSConnection::send and SocketTcpConnection::write.

\* A frame is written in two parts.  A Pong has no payload, since the Pings of the
\* server have none; close() writes a frame and then closes the connection.
Rest(kind, p) ==
    IF kind # "pong" /\ p = "header" THEN "payload"
    ELSE IF kind = "close" /\ p = "payload" THEN "end" ELSE "none"

Holds(t) == IF t = "main" THEN mainAt = "send" ELSE pollAt = "handle"

\* What is left to do after a part: a write that fails gives up the frame.
GoOn(t, next) ==
    /\ part' = [part EXCEPT ![t] = IF next = "none" THEN "header" ELSE next]
    /\ calls' = IF next = "none" THEN [calls EXCEPT ![t] = Tail(@)] ELSE calls

\* The next write of a thread: it is done, it fails and closes the connection,
\* or the connection has been closed already.
Write(t) ==
    /\ Alive /\ Holds(t) /\ calls[t] # <<>>
    /\ LET kind == Head(calls[t])
       IN  \/ /\ conn = "open" /\ part[t] # "end"
              /\ last' = Piece(kind, part[t])
              /\ pongs' = IF kind = "pong" THEN pongs + 1 ELSE pongs
              /\ GoOn(t, Rest(kind, part[t]))
              /\ UNCHANGED <<conn, cut>>
           \/ /\ conn = "open" /\ (part[t] = "end" \/ link = "down")
              /\ conn' = "closed" /\ cut' = t
              /\ GoOn(t, "none")
              /\ UNCHANGED wire
           \/ /\ conn = "closed"
              /\ GoOn(t, "none")
              /\ UNCHANGED <<conn, cut, wire>>
    /\ UNCHANGED <<mode, mainAt, pollAt, running, mutex, fate, interrupted, code, reported, network, stdin>>

\* Mutation of Free: the thread does not wait for the mutex.
NoMutex(t) == TRUE
Free(t) == mutex = Nobody

-----------------------------------------------------------------------------
\* The poll thread.

\* The condition of both loops.
GoesOn == running /\ conn = "open"

PollTest ==
    /\ Alive /\ pollAt = "test"
    /\ pollAt' = IF GoesOn THEN "lock" ELSE "ended"
    /\ UNCHANGED <<mode, part, mainAt, running, mutex, calls, fate, interrupted, conn, closing, network, wire, stdin>>

PollLocks ==
    /\ Alive /\ pollAt = "lock" /\ Free("poller")
    /\ mutex' = "poller" /\ pollAt' = "read"
    /\ UNCHANGED <<mode, part, mainAt, running, calls, fate, interrupted, conn, closing, network, wire, stdin>>

Kinds == {"connect", "subscribe", "turn", "command", "pong", "join", "close"}

Messages == {"ping", "invite", "close"}

\* What onWSMsg and handleOneWSMsg send for a message.
Answer == [ping |-> "pong", invite |-> "join", close |-> "close"]

\* Mutation of Answers: one message for each read.
FirstAnswer(messages) == <<Answer[messages[1]]>>
Answers(messages) == [i \in DOMAIN messages |-> Answer[messages[i]]]

\* wsclient.poll reads some of what is there, and handles all of it.
PollReads ==
    /\ Alive /\ pollAt = "read" /\ conn = "open"
    /\ pollAt' = "handle"
    /\ \/ \E n \in 1 .. Len(inbox) :
            LET messages == SubSeq(inbox, 1, n)
            IN  /\ inbox' = SubSeq(inbox, n + 1, Len(inbox))
                /\ calls' = [calls EXCEPT !["poller"] = Answers(messages)]
                /\ code' = IF "close" \in ToSet(messages) THEN 1008 ELSE code
                /\ UNCHANGED <<conn, cut>>
       \/ /\ inbox = <<>> /\ link = "up"
          /\ UNCHANGED <<inbox, calls, code, conn, cut>>
       \/ /\ inbox = <<>> /\ link = "down"
          /\ conn' = "closed" /\ cut' = "poller"
          /\ UNCHANGED <<inbox, calls, code>>
    /\ UNCHANGED <<mode, part, mainAt, running, mutex, fate, interrupted, reported, link, served, asked, wire, stdin>>

\* The connection was closed after the poll thread looked and before it had the
\* mutex: SSL_read on a null pointer, which crashes or returns an error.
PollReadsClosed ==
    /\ Alive /\ pollAt = "read" /\ conn = "closed"
    /\ \/ fate' = "crashed" /\ UNCHANGED pollAt
       \/ pollAt' = "handle" /\ UNCHANGED fate
    /\ UNCHANGED <<mode, part, mainAt, running, mutex, calls, interrupted, conn, closing, network, wire, stdin>>

\* Mutation of Reported: a closure is only told as long as the bot is running.
ReportedRunning == IF conn = "closed" /\ running THEN Append(reported, code) ELSE reported

\* handleWSClose: the code of a close frame, or 1006 with the last error.
Reported == IF conn = "closed" THEN Append(reported, code) ELSE reported

PollDone ==
    /\ Alive /\ pollAt = "handle" /\ calls["poller"] = <<>>
    /\ reported' = Reported
    /\ mutex' = Nobody /\ pollAt' = "test"
    /\ UNCHANGED <<mode, part, mainAt, running, calls, fate, interrupted, conn, code, cut, network, wire, stdin>>

-----------------------------------------------------------------------------
\* The main thread.

Login == <<"connect", "subscribe", "subscribe", "subscribe">>

\* Under the mutex: the login, whether or not the connection is still there; a
\* command or a turn of ChatLoop only if it is.
MainLocks ==
    /\ Alive /\ mainAt \in {"login", "lock"} /\ Free("main")
    /\ mutex' = "main" /\ mainAt' = "send"
    /\ \/ /\ mainAt = "login"
          /\ calls' = [calls EXCEPT !["main"] = Login]
          /\ UNCHANGED <<running, done, line>>
       \/ /\ mainAt = "lock" /\ mode = "timed" /\ conn = "open"
          /\ \E sends \in {<<>>, <<"turn">>} : calls' = [calls EXCEPT !["main"] = sends]
          /\ UNCHANGED <<running, done, line>>
       \/ /\ mainAt = "lock" /\ mode = "controlled" /\ conn = "open"
          /\ calls' = [calls EXCEPT !["main"] = IF line = "invite" THEN <<"command">> ELSE <<>>]
          /\ running' = (running /\ line # "quit")
          /\ done' = Append(done, line) /\ line' = NoLine
       \/ /\ mainAt = "lock" /\ conn = "closed"
          /\ line' = NoLine
          /\ UNCHANGED <<calls, running, done>>
    /\ UNCHANGED <<mode, part, pollAt, fate, interrupted, conn, closing, network, wire, pipe, buffer, eof, written>>

MainSent ==
    /\ Alive /\ mainAt = "send" /\ calls["main"] = <<>>
    /\ mutex' = Nobody /\ mainAt' = "test"
    /\ UNCHANGED <<mode, part, pollAt, running, calls, fate, interrupted, conn, closing, network, wire, stdin>>

MainTest ==
    /\ Alive /\ mainAt = "test"
    /\ IF GoesOn THEN mainAt' = "wait" /\ UNCHANGED running
       ELSE mainAt' = "join" /\ running' = FALSE
    /\ UNCHANGED <<mode, part, pollAt, mutex, calls, fate, interrupted, conn, closing, network, wire, stdin>>

\* The pause between two turns.
Sleep ==
    /\ Alive /\ mainAt = "wait" /\ mode = "timed"
    /\ mainAt' = "lock"
    /\ UNCHANGED <<mode, part, pollAt, running, mutex, calls, fate, interrupted, conn, closing, network, wire, stdin>>

\* Mutation of Ready: POLLHUP is not looked at.
ReadyToRead == pipe # <<>>

\* poll(STDIN_FILENO) knows what is in the pipe, not what stdio has read ahead.
Ready == pipe # <<>> \/ eof

NoInput ==
    /\ Alive /\ mainAt = "wait" /\ mode = "controlled"
    /\ ~Ready
    /\ mainAt' = "test"
    /\ UNCHANGED <<mode, part, pollAt, running, mutex, calls, fate, interrupted, conn, closing, network, wire, stdin>>

\* Mutation of ReadAhead: the end of the input discards what has been read ahead.
ReadAheadLost == IF eof \/ buffer = <<>> THEN pipe ELSE buffer

\* std::getline: stdio refills its buffer, with all there is, when it is empty.
ReadAhead == IF buffer = <<>> THEN pipe ELSE buffer

TakeLine ==
    /\ Alive /\ mainAt = "wait" /\ mode = "controlled"
    /\ Ready
    /\ IF ReadAhead = <<>>
       THEN /\ running' = FALSE /\ mainAt' = "join"
            /\ UNCHANGED <<line, buffer, pipe>>
       ELSE /\ line' = Head(ReadAhead) /\ buffer' = Tail(ReadAhead)
            /\ pipe' = IF buffer = <<>> THEN <<>> ELSE pipe
            /\ mainAt' = "lock"
            /\ UNCHANGED running
    /\ UNCHANGED <<mode, part, pollAt, mutex, calls, fate, interrupted, conn, closing, network, wire, eof, written, done>>

Join ==
    /\ Alive /\ mainAt = "join" /\ pollAt = "ended"
    /\ fate' = "ended"
    /\ UNCHANGED <<mode, part, mainAt, pollAt, running, mutex, calls, interrupted, conn, closing, network, wire, stdin>>

-----------------------------------------------------------------------------
\* The world around the process.

\* SIGINT.  While the bot is still connecting, run() sets the flag again.
Interrupt ==
    /\ Alive /\ running
    /\ running' = FALSE /\ interrupted' = TRUE
    /\ UNCHANGED <<mode, part, mainAt, pollAt, mutex, calls, fate, conn, closing, network, wire, stdin>>

InputLeft == served + Len(written) < MaxInputs

ServerSends(m) ==
    /\ Alive /\ Started /\ conn = "open" /\ link = "up"
    /\ served < MaxMessages /\ InputLeft
    /\ code = 1006 /\ "close" \notin ToSet(inbox)
    /\ m = "invite" => mainAt # "login" /\ "connect" \notin ToSet(calls["main"])
    /\ inbox' = Append(inbox, m) /\ served' = served + 1
    /\ asked' = IF m = "ping" THEN asked + 1 ELSE asked
    /\ UNCHANGED <<threads, conn, closing, link, wire, stdin>>

\* The connection is lost, and perhaps what was not yet read with it.
LinkFails ==
    /\ Alive /\ conn = "open" /\ link = "up"
    /\ link' = "down"
    /\ inbox' \in {inbox, <<>>}
    /\ UNCHANGED <<threads, conn, closing, served, asked, wire, stdin>>

WriteLine(c) ==
    /\ Alive /\ mode = "controlled" /\ ~eof /\ mainAt # "join"
    /\ Len(written) < MaxLines /\ InputLeft
    /\ pipe' = Append(pipe, c) /\ written' = Append(written, c)
    /\ UNCHANGED <<threads, conn, closing, network, wire, buffer, eof, line, done>>

CloseStdin ==
    /\ Alive /\ mode = "controlled" /\ ~eof /\ mainAt # "join"
    /\ eof' = TRUE
    /\ UNCHANGED <<threads, conn, closing, network, wire, pipe, buffer, line, written, done>>

-----------------------------------------------------------------------------
Handshake == \E answer \in {"none", "accepted", "refused"}, late \in BOOLEAN : HandshakeTurn(answer, late)
MainStep == ConnectTcp \/ Handshake \/ MainSent \/ MainTest \/ Sleep \/ NoInput \/ TakeLine \/ Join
PollStep == PollTest \/ PollReads \/ PollReadsClosed \/ PollDone

Next ==
    \/ MainStep \/ MainLocks
    \/ PollStep \/ PollLocks
    \/ \E t \in Threads : Write(t)
    \/ Interrupt \/ LinkFails \/ CloseStdin
    \/ \E m \in Messages : ServerSends(m)
    \/ \E c \in Commands : WriteLine(c)

Spec == Init /\ [][Next]_vars

\* Both threads run, and writes end.  Who waits for the mutex gets it although the
\* other takes it again and again: both loops sleep between two turns.
FairSpec ==
    /\ Spec
    /\ WF_vars(MainStep) /\ SF_vars(MainLocks)
    /\ WF_vars(PollStep) /\ SF_vars(PollLocks)
    /\ \A t \in Threads : WF_vars(Write(t))

-----------------------------------------------------------------------------

\* Type invariant.
TypeOK ==
    /\ mode \in Modes
    /\ mainAt \in {"connect", "handshake", "login", "send", "test", "wait", "lock", "join"}
    /\ pollAt \in {"none", "test", "lock", "read", "handle", "ended"}
    /\ mutex \in Threads \cup {Nobody}
    /\ calls \in [Threads -> Seq(Kinds)] /\ part \in [Threads -> {"header", "payload", "end"}]
    /\ conn \in {"none", "open", "closed"} /\ link \in {"up", "down"}
    /\ cut \in Threads \cup {Nobody} /\ code \in {1006, 1008}
    /\ reported \in Seq({1006, 1008}) /\ inbox \in Seq(Messages)
    /\ fate \in {"alive", "failed", "ended", "crashed"}

\* "Login and subscriptions share the polling mutex.": what the bot writes is a
\* sequence of whole frames, however the two threads and failures interleave.  After
\* a header the thread that wrote it holds the mutex and writes the payload next,
\* and a payload is only written directly after its header.
FramesAreWhole ==
    conn = "open" =>
        /\ last.part = "header" /\ last.kind # "pong" =>
              \E t \in Threads :
                  /\ mutex = t /\ calls[t] # <<>>
                  /\ Piece(Head(calls[t]), part[t]) = Piece(last.kind, "payload")
        /\ \A t \in Threads :
              part[t] = "payload" => calls[t] # <<>> /\ last = Piece(Head(calls[t]), "header")

\* A closed connection is reported once, with the code of the server's close frame
\* if there was one, unless it was a write of the main thread that met the failure:
\* then the poll thread may see no reason to look again, and the failure goes
\* unreported, or have looked too early, and read from a connection that is gone.
ClosuresAreReported ==
    /\ Len(reported) <= 1
    /\ \A i \in DOMAIN reported : reported[i] = code
    /\ fate = "ended" /\ cut = "poller" => reported # <<>>
    /\ fate = "crashed" => cut = "main" /\ code = 1006

\* Command lines are carried out in their order, none twice, and when the end of
\* the input stops the bot, none has been left out.
CommandsInOrder ==
    /\ IsPrefix(done, written)
    /\ fate = "ended" /\ conn = "open" /\ ~interrupted /\ mode = "controlled" =>
          "quit" \in ToSet(done) \/ done = written

\* Whatever is to stop the bot does: a closed or lost connection, SIGINT, "quit", or
\* the end of its input ("EOF stops it").  The threads wait for each other in no
\* case, and a handshake ends as well.
BotStops ==
    /\ (Started /\ (conn = "closed" \/ link = "down" \/ ~running \/ eof)) ~> ~Alive
    /\ (mainAt = "handshake") ~> (Started \/ ~Alive)

\* Every Ping is answered as long as the connection holds and the bot is not about
\* to stop, whatever the main thread sends at the time.
PingsAreAnswered ==
    \A n \in 1 .. MaxMessages :
        asked >= n ~>
            (pongs >= n \/ conn = "closed" \/ link = "down" \/ ~running)

=============================================================================
