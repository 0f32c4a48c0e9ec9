---------------------------- MODULE WsReceiver -----------------------------
(***************************************************************************)
(* The receiving side of the bot's WebSocket client, BotWebsocket.h: reads *)
(* of any number of bytes, the receive buffer and its compaction, the      *)
(* frames cut out of it and the messages put together from fragments.      *)
(*                                                                         *)
(* A frame is its opcode, its fin bit and two lengths; its bytes are not   *)
(* modelled.  Frame 1 is the HTTP response of the handshake, which goes    *)
(* through the same buffer.                                                *)
(***************************************************************************)
EXTENDS Naturals, Sequences, FiniteSets

CONSTANTS
    RecvBufSize,    \* bytes of the receive buffer (4096)
    Shapes,         \* the frames the peer may send
    Response,       \* the HTTP response, as a shape
    EarlyFrames,    \* whether frames may follow the response at once
    MaxFrames       \* bound of the model: frames sent, the response included

Shape == [opcode : {"upgrade", "text", "cont", "ping", "close"}, fin : BOOLEAN,
          header : Nat \ {0}, payload : Nat]

ASSUME ReceiverAssumption ==
    /\ RecvBufSize \in Nat /\ RecvBufSize > 1
    /\ Shapes \subseteq Shape /\ \A f \in Shapes : f.opcode # "upgrade"
    /\ Response \in Shape /\ Response.opcode = "upgrade"
    /\ EarlyFrames \in BOOLEAN
    /\ MaxFrames \in Nat

\* Only messages come in fragments: a server fragments no control frames (RFC 6455, 5.5).
ASSUME ControlAssumption ==
    \A f \in Shapes \cup {Response} : f.opcode \notin {"text", "cont"} => f.fin

VARIABLES
    sent,       \* the frames sent so far, each with the stream offset of its end
    done,       \* how many of them have been handled
    head, tail, \* the part of the buffer that holds bytes not yet handled
    partial,    \* the message being put together: recv_opcode, frame_size, frames
    received,   \* the messages handed to onWSMsg
    status      \* "open", "full" when closed because the buffer is full, "closed"
vars == <<sent, done, head, tail, partial, received, status>>

Size(f) == f.header + f.payload
End(n) == IF n = 0 THEN 0 ELSE sent[n].end
Ending(f, end) == [shape |-> f, end |-> end]
NoPartial == [opcode |-> "cont", size |-> 0, frames |-> <<>>]

Init ==
    /\ sent = <<Ending(Response, Size(Response))>>
    /\ done = 0
    /\ head = 0 /\ tail = 0
    /\ partial = NoPartial
    /\ received = <<>>
    /\ status = "open"

-----------------------------------------------------------------------------
\* The peer.

Whole(f) == f.opcode # "cont" /\ f.fin
InFragments == \E i \in 1 .. Len(sent) :
    /\ ~Whole(sent[i].shape) /\ ~sent[i].shape.fin
    /\ \A j \in i + 1 .. Len(sent) : ~(sent[j].shape.opcode = "cont" /\ sent[j].shape.fin)

\* The server sends a frame: continuations only within a fragmented message,
\* which only control frames may interrupt, and nothing after a close frame.
Send(f) ==
    /\ Len(sent) < MaxFrames
    /\ EarlyFrames \/ done > 0
    /\ sent[Len(sent)].shape.opcode # "close"
    /\ f.opcode = "cont" => InFragments
    /\ f.opcode = "text" => ~InFragments
    /\ sent' = Append(sent, Ending(f, End(Len(sent)) + Size(f)))
    /\ UNCHANGED <<done, head, tail, partial, received, status>>

-----------------------------------------------------------------------------
\* The message in frame grows by the fragment i, and starts again after the last.
Grown(message, i) ==
    LET f == sent[i].shape
    IN  [opcode |-> IF f.opcode = "cont" THEN message.opcode ELSE f.opcode,
         size |-> message.size + f.payload,
         frames |-> Append(message.frames, i)]

\* Mutation of Finished: the message stays in the frame buffer.
FinishedNoReset(message) == message
Finished(message) == [message EXCEPT !.size = 0, !.frames = <<>>]

\* Mutation of Fits: fragments are copied whatever their length.
AlwaysFits(size) == TRUE
Fits(size) == size <= RecvBufSize

\* handleOneWSMsg for a complete frame i.  conn collects what it changes.
Handled(conn, i) ==
    LET f == sent[i].shape
        message == Grown(conn.partial, i)
        delivered == [opcode |-> message.opcode, frames |-> message.frames]
    IN  CASE f.opcode = "upgrade" -> conn
          [] f.opcode = "close" -> [conn EXCEPT !.ended = TRUE]
          [] f.opcode \notin {"upgrade", "close"} /\ Whole(f) ->
                [conn EXCEPT !.received = Append(@, [opcode |-> f.opcode, frames |-> <<i>>])]
          [] ~Whole(f) /\ ~Fits(message.size) -> [conn EXCEPT !.ended = TRUE]
          [] ~Whole(f) /\ Fits(message.size) /\ ~f.fin -> [conn EXCEPT !.partial = message]
          [] OTHER -> [conn EXCEPT !.partial = Finished(message),
                                   !.received = Append(@, delivered)]

\* The frames up to last handled one after the other.  The loop goes on when a
\* message that is too long has closed the connection.
HandledUpTo(last) ==
    LET conn[n \in done .. last] ==
            IF n = done THEN [partial |-> partial, received |-> received, ended |-> FALSE]
            ELSE Handled(conn[n - 1], n)
    IN  conn[last]

\* Mutation of LastHandled: one frame for each read.
OneHandled(last, size) ==
    /\ End(last) - End(done) <= size
    /\ \/ last = done + 1
       \/ last = done /\ (IF done < Len(sent) THEN End(done + 1) - End(done) > size ELSE TRUE)

\* handleWSMsg stops at the first incomplete frame and after a close frame, the
\* handshake after its response.  size is the number of bytes in the buffer.
LastHandled(last, size) ==
    /\ End(last) - End(done) <= size
    /\ \A n \in done + 1 .. last - 1 : sent[n].shape.opcode \notin {"close", "upgrade"}
    /\ \/ last = Len(sent)
       \/ last > done /\ sent[last].shape.opcode \in {"close", "upgrade"}
       \/ last < Len(sent) /\ End(last + 1) - End(done) > size

\* A frame whose header is there and which can never fit is refused.
TooLong(last, remaining) ==
    /\ done > 0 /\ last < Len(sent)
    /\ remaining >= sent[last + 1].shape.header
    /\ Size(sent[last + 1].shape) > RecvBufSize

Half == RecvBufSize \div 2

\* Mutation of Compacted: the rest moves to the front as soon as there is room.
AlwaysCompacted(front, back) ==
    IF front = back THEN <<0, 0>> ELSE <<0, back - front>>

\* Mutation of Compacted: the rest is never moved to the front of the buffer.
NeverCompacted(front, back) ==
    IF front = back THEN <<0, 0>> ELSE <<front, back>>

\* Where the bytes that remain are after a read: an empty buffer starts again,
\* and the rest moves to the front once it lies in the second half.
Compacted(front, back) ==
    IF front = back THEN <<0, 0>>
    ELSE IF front >= Half THEN <<0, back - front>>
    ELSE <<front, back>>

\* Mutation of IsFull: the end of the buffer is checked before the rest is moved.
FullBeforeMove(front, back) == front # back /\ back = RecvBufSize
IsFull(front, back) == front # back /\ front < Half /\ back = RecvBufSize

\* One read of count bytes, all frames up to last with it.
Read(count, last) ==
    LET back == tail + count
        size == back - head
        conn == HandledUpTo(last)
        closing == last > done /\ sent[last].shape.opcode = "close"
        remaining == IF closing THEN 0 ELSE size - (End(last) - End(done))
        front == back - remaining
    IN  /\ status = "open"
        /\ back <= RecvBufSize
        /\ End(done) + size <= End(Len(sent))
        /\ LastHandled(last, size)
        /\ done' = last
        /\ partial' = conn.partial
        /\ received' = conn.received
        /\ head' = Compacted(front, back)[1]
        /\ tail' = Compacted(front, back)[2]
        /\ status' = IF conn.ended \/ TooLong(last, remaining) THEN "closed"
                     ELSE IF IsFull(front, back) THEN "full"
                     ELSE "open"
        /\ UNCHANGED sent

\* The connection is lost, or the client closes it.
Lost ==
    /\ status = "open"
    /\ status' = "closed"
    /\ UNCHANGED <<sent, done, head, tail, partial, received>>

ReadSome == \E count \in 1 .. RecvBufSize : \E last \in done .. Len(sent) : Read(count, last)

Next ==
    \/ \E f \in Shapes : Send(f)
    \/ ReadSome
    \/ Lost

Spec == Init /\ [][Next]_vars

-----------------------------------------------------------------------------

\* Type invariant.
TypeOK ==
    /\ sent \in Seq([shape : Shapes \cup {Response}, end : Nat])
    /\ done \in 0 .. Len(sent)
    /\ head \in 0 .. RecvBufSize /\ tail \in head .. RecvBufSize
    /\ partial.size \in 0 .. RecvBufSize
    /\ received \in Seq([opcode : {"text", "ping"}, frames : Seq(1 .. MaxFrames)])
    /\ status \in {"open", "full", "closed"}

\* An open connection always has room for the next read: read() with no room
\* would ask for zero bytes and take the answer for the end of the connection.
RoomToRead == status = "open" => tail < RecvBufSize

\* Frames of up to half the buffer never fill it, however the stream is cut
\* into reads, unless they are those that came with the handshake response.
FullOnlyForLongFrames ==
    status = "full" =>
        \/ done = 1 /\ EarlyFrames
        \/ done < Len(sent) /\ Size(sent[done + 1].shape) > RecvBufSize - Half

\* Messages as the peer means them: whole frames, and fragments from the first
\* to the final one without the control frames between them.
Sorted(S) == [k \in 1 .. Cardinality(S) |-> CHOOSE i \in S : Cardinality({j \in S : j <= i}) = k]
Begins(n) == {j \in 1 .. n : ~Whole(sent[j].shape) /\ sent[j].shape.opcode # "cont"}
Fragments(first, n) == {j \in first .. n : ~Whole(sent[j].shape)}
MessageEndingAt(n) ==
    LET begin == CHOOSE j \in Begins(n) : \A k \in Begins(n) : k <= j
    IN  IF Whole(sent[n].shape) THEN [opcode |-> sent[n].shape.opcode, frames |-> <<n>>]
        ELSE [opcode |-> sent[begin].shape.opcode, frames |-> Sorted(Fragments(begin, n))]
Ends(n) == {i \in 1 .. n : sent[i].shape.fin /\ sent[i].shape.opcode \notin {"upgrade", "close"}}
Meant(n) == [k \in 1 .. Cardinality(Ends(n)) |-> MessageEndingAt(Sorted(Ends(n))[k])]

\* While the connection is open, the handler has been given every message
\* handled so far, each once, in order and in full: how the stream is cut into
\* reads and messages into fragments makes no difference.
ReceivedAsMeant == status = "open" => received = Meant(done)

\* No complete frame waits in the buffer for another read, which may never come
\* ("leaving a ping buffered until the next network read can cause the server
\* to time out").  Frames that came with the handshake response do wait.
NothingWaits ==
    status = "open" /\ done > 1 /\ done < Len(sent) => tail - head < Size(sent[done + 1].shape)

\* The rest is moved with memcpy: the bytes that go to the front of the buffer never
\* overlap the place they come from, behind all that has been handled so far.
RestMovesApart ==
    [][LET from == head + End(done') - End(done)
       IN  head' = 0 /\ tail' > 0 /\ from > 0 => tail' <= from]_vars

=============================================================================
